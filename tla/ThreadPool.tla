------------------------------ MODULE ThreadPool ------------------------------
(***************************************************************************)
(* The worker pool (src/include/edgy/thread_pool.hpp): a queue of jobs     *)
(* under a mutex, workers that wait on a condition variable, and a         *)
(* shutdown that lets them drain the queue and joins them.                 *)
(*                                                                         *)
(* What is done under the mutex is one step; notifying is a step of its    *)
(* own, because submit() and shutdown() notify after they let go of it.    *)
(***************************************************************************)
EXTENDS Naturals, Sequences, FiniteSets

CONSTANTS
  Worker,
  Job,      \* every job that is ever submitted, each by its own caller
  NoJob

VARIABLES
  jobs, stop, pending,  \* jobs_, stop_, pending_
  wpc, held,            \* each worker's place and the job it took
  spc,                  \* the caller of submit(), per job
  shut,                 \* the caller of shutdown()
  runs                  \* how often each job has been run

workerVars == <<wpc, held, runs>>
vars == <<jobs, stop, pending, wpc, held, spc, shut, runs>>

Init ==
  /\ jobs = << >> /\ stop = FALSE /\ pending = 0
  /\ wpc = [w \in Worker |-> "check"] /\ held = [w \in Worker |-> NoJob]
  /\ spc = [j \in Job |-> "new"]
  /\ shut = "no"
  /\ runs = [j \in Job |-> 0]

Waiting == {w \in Worker : wpc[w] = "wait"}
Wake(W) == wpc' = [w \in Worker |-> IF w \in W THEN "check" ELSE wpc[w]]

-----------------------------------------------------------------------------
(* submit(). *)

Enqueue(j) == jobs' = Append(jobs, j) /\ pending' = pending + 1

Submit(j) ==
  /\ spc[j] = "new"
  /\ IF stop
     THEN /\ spc' = [spc EXCEPT ![j] = "refused"]
          /\ UNCHANGED <<jobs, pending>>
     ELSE /\ spc' = [spc EXCEPT ![j] = "notify"]
          /\ Enqueue(j)
  /\ UNCHANGED <<stop, shut, workerVars>>

(* Slip: a queue that held a job already is taken to be noticed. *)
NotifyIfFirst(j) ==
  IF Waiting = {} \/ Len(jobs) # 1 THEN UNCHANGED wpc
  ELSE \E w \in Waiting : Wake({w})

(* notify_one wakes one waiter if there is one, and is lost otherwise. *)
NotifyWaiter(j) ==
  IF Waiting = {} THEN UNCHANGED wpc ELSE \E w \in Waiting : Wake({w})

NotifyOne(j) ==
  /\ spc[j] = "notify"
  /\ spc' = [spc EXCEPT ![j] = "returned"]
  /\ NotifyWaiter(j)
  /\ UNCHANGED <<jobs, stop, pending, held, shut, runs>>

-----------------------------------------------------------------------------
(* A worker. *)

(* The predicate of the wait does not hold: the mutex is released and the  *)
(* worker enters the wait in one step.                                     *)
WorkerWait(w) ==
  /\ wpc[w] = "check"
  /\ ~stop /\ jobs = << >>
  /\ wpc' = [wpc EXCEPT ![w] = "wait"]
  /\ UNCHANGED <<jobs, stop, pending, held, spc, shut, runs>>

SpuriousWake(w) ==
  /\ w \in Waiting
  /\ Wake({w})
  /\ UNCHANGED <<jobs, stop, pending, held, spc, shut, runs>>

(* Slip: a worker leaves as soon as it sees the stop. *)
LeavesAtOnce == stop

MayLeave == stop /\ jobs = << >>

WorkerExit(w) ==
  /\ wpc[w] = "check" /\ MayLeave
  /\ wpc' = [wpc EXCEPT ![w] = "exit"]
  /\ UNCHANGED <<jobs, stop, pending, held, spc, shut, runs>>

WorkerTake(w) ==
  /\ wpc[w] = "check" /\ jobs # << >>
  /\ held' = [held EXCEPT ![w] = Head(jobs)]
  /\ jobs' = Tail(jobs)
  /\ wpc' = [wpc EXCEPT ![w] = "run"]
  /\ UNCHANGED <<stop, pending, spc, shut, runs>>

(* Slip: an exception of the job leaves the wrapper before it counts.      *)
RunUncaught(w) ==
  /\ wpc[w] = "run"
  /\ runs' = [runs EXCEPT ![held[w]] = @ + 1]
  /\ \/ wpc' = [wpc EXCEPT ![w] = "count"] /\ UNCHANGED held
     \/ /\ wpc' = [wpc EXCEPT ![w] = "check"]
        /\ held' = [held EXCEPT ![w] = NoJob]
  /\ UNCHANGED <<jobs, stop, pending, spc, shut>>

(* The packaged task keeps what the job throws. *)
WorkerRun(w) ==
  /\ wpc[w] = "run"
  /\ runs' = [runs EXCEPT ![held[w]] = @ + 1]
  /\ wpc' = [wpc EXCEPT ![w] = "count"]
  /\ UNCHANGED <<jobs, stop, pending, held, spc, shut>>

WorkerCount(w) ==
  /\ wpc[w] = "count"
  /\ pending' = pending - 1
  /\ held' = [held EXCEPT ![w] = NoJob]
  /\ wpc' = [wpc EXCEPT ![w] = "check"]
  /\ UNCHANGED <<jobs, stop, spc, shut, runs>>

-----------------------------------------------------------------------------
(* shutdown(). *)

Shutdown ==
  /\ shut = "no"
  /\ stop' = TRUE /\ shut' = "notify"
  /\ UNCHANGED <<jobs, pending, spc, workerVars>>

(* Slip: only one waiter is told of the stop. *)
NotifySome ==
  IF Waiting = {} THEN UNCHANGED wpc ELSE \E w \in Waiting : Wake({w})

NotifyEvery == Wake(Waiting)

NotifyAll ==
  /\ shut = "notify" /\ shut' = "join"
  /\ NotifyEvery
  /\ UNCHANGED <<jobs, stop, pending, held, spc, runs>>

(* Every worker is joined, then workers_ is cleared. *)
Join ==
  /\ shut = "join" /\ \A w \in Worker : wpc[w] = "exit"
  /\ shut' = "cleared"
  /\ UNCHANGED <<jobs, stop, pending, spc, workerVars>>

-----------------------------------------------------------------------------
CallerStep(j) == Submit(j) \/ NotifyOne(j)
WorkerStep(w) ==
  WorkerWait(w) \/ WorkerExit(w) \/ WorkerTake(w) \/ WorkerRun(w) \/ WorkerCount(w)
ShutdownStep == Shutdown \/ NotifyAll \/ Join

Next ==
  \/ \E j \in Job : CallerStep(j)
  \/ \E w \in Worker : WorkerStep(w) \/ SpuriousWake(w)
  \/ ShutdownStep

(* A call that has begun goes on, a worker that can take a step takes it;  *)
(* nothing makes a caller submit or shut down, or a wait end by itself.    *)
Fairness ==
  /\ \A j \in Job : WF_vars(NotifyOne(j))
  /\ \A w \in Worker : WF_vars(WorkerStep(w))
  /\ WF_vars(NotifyAll \/ Join)

Spec == Init /\ [][Next]_vars
FairSpec == Spec /\ Fairness

-----------------------------------------------------------------------------
(* Properties. *)

Busy == {w \in Worker : wpc[w] \in {"run", "count"}}

(* Every variable stays within its type, and pending() is the number of    *)
(* jobs queued or running at every moment, also when a job throws:         *)
(* midCloseTick skips a tick on what it says.                              *)
TypeOK ==
  /\ jobs \in Seq(Job) /\ stop \in BOOLEAN
  /\ pending = Len(jobs) + Cardinality(Busy)
  /\ wpc \in [Worker -> {"check", "wait", "run", "count", "exit"}]
  /\ held \in [Worker -> Job \cup {NoJob}]
  /\ spc \in [Job -> {"new", "notify", "returned", "refused"}]
  /\ shut \in {"no", "notify", "join", "cleared"}
  /\ runs \in [Job -> Nat]

Accepted == {j \in Job : spc[j] \in {"notify", "returned"}}

Tasks == INSTANCE TaskPool WITH
  accepted <- Accepted,
  phase <- IF ~stop THEN "open" ELSE IF shut = "cleared" THEN "closed" ELSE "closing"

(* Every accepted job is run once, none is accepted after the stop, and    *)
(* shutdown() returns only when all of them have been run.                 *)
RunsEachOnce == Tasks!Spec

(* No wake-up is lost: an accepted job is run, shutdown or not, even if    *)
(* its notification finds nobody waiting.                                  *)
AcceptedRuns == \A j \in Job : j \in Accepted ~> runs[j] # 0

(* shutdown() returns. *)
ShutdownEnds == stop ~> shut = "cleared"
===============================================================================
