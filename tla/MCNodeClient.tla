---------------------------- MODULE MCNodeClient ----------------------------
(* Two requests, of the sync thread or of a proxied command. *)
EXTENDS NodeClient

CONSTANTS r1, r2
=============================================================================
