------------------------------ MODULE MCProcess ------------------------------
(* A worker, two path requests and a proxied one, on one or two network    *)
(* threads: the signal's handler takes the only thread or leaves one that  *)
(* goes on submitting while the pool shuts down.                           *)
EXTENDS Process

CONSTANTS w1, h1, h2, p1, n1, n2
=============================================================================
