---------------------------- MODULE MCEngineSync ----------------------------
(* Instances of EngineSync for TLC: ledgers over two objects, one of them  *)
(* with two writes, so that a replay can stop in the middle of a ledger,   *)
(* and bounds for each kind of fault.                                      *)
EXTENDS EngineSync, TLC

CONSTANTS a, b

C(s) == [seq |-> s, obj |-> Closed]
T(s, o) == [seq |-> s, obj |-> o]

MCLog == << C(1), T(1, a), C(2), T(2, b), T(2, b), C(3), T(3, a), C(4) >>
ShortLog == << C(1), T(1, a), C(2), T(2, b), T(2, b), C(3) >>

(* Short enough for liveness with a fault of every kind.                   *)
LiveLog == << T(1, a), T(1, b), C(2), T(2, b), C(3) >>

NoFault == [k \in FaultKind |-> 0]
OneLoss == [NoFault EXCEPT !["disconnect"] = 1, !["skip"] = 1]
EveryFault == [k \in FaultKind |-> 1]
OneDisconnect == [NoFault EXCEPT !["disconnect"] = 1]
OneBadMeta == [NoFault EXCEPT !["meta"] = 1]
=============================================================================
