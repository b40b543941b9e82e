------------------------------- MODULE TaskPool -------------------------------
(***************************************************************************)
(* What the worker pool promises: a job it accepts is run exactly once,    *)
(* none is accepted after it began to shut down, and it is shut down only  *)
(* when every accepted job has been run.                                   *)
(***************************************************************************)
EXTENDS Naturals

CONSTANT Job

VARIABLES
  accepted,  \* jobs whose submit returned or will return a future
  runs,      \* how often each job has been run
  phase      \* "open", "closing" (no more accepted), "closed"

vars == <<accepted, runs, phase>>

Init == accepted = {} /\ runs = [j \in Job |-> 0] /\ phase = "open"

Accept(j) ==
  /\ phase = "open" /\ j \notin accepted
  /\ accepted' = accepted \cup {j}
  /\ UNCHANGED <<runs, phase>>

Run(j) ==
  /\ j \in accepted /\ runs[j] = 0
  /\ phase # "closed"
  /\ runs' = [runs EXCEPT ![j] = 1]
  /\ UNCHANGED <<accepted, phase>>

Close == phase = "open" /\ phase' = "closing" /\ UNCHANGED <<accepted, runs>>

Finish ==
  /\ phase = "closing" /\ \A j \in accepted : runs[j] = 1
  /\ phase' = "closed"
  /\ UNCHANGED <<accepted, runs>>

Next == Close \/ Finish \/ \E j \in Job : Accept(j) \/ Run(j)

Spec == Init /\ [][Next]_vars
===============================================================================
