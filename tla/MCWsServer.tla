------------------------------ MODULE MCWsServer ------------------------------
(* A client with a queue that overflows at the second message.             *)
EXTENDS WsServer

CONSTANT c1
=============================================================================
