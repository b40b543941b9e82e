--------------------------- MODULE MCSubscriptions ---------------------------
(* A connection that asks for two sessions, two workers that may update    *)
(* either, one deepening search per round.                                 *)
EXTENDS Subscriptions

CONSTANTS c1, s1, s2, w1, w2
=============================================================================
