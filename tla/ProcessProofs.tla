---------------------------- MODULE ProcessProofs ----------------------------
(***************************************************************************)
(* Proofs about Process and the pool it contains, for every set of         *)
(* requests, workers and network threads: types, that the pool runs every  *)
(* accepted job once (the refinement of TaskPool), that nobody is left     *)
(* when main destroys what they use, and that nobody waits for what nobody *)
(* will do.                                                                *)
(*                                                                         *)
(* The first half is about the pool's steps alone, Pool!Next; it needs     *)
(* nothing of the process but that there is a worker.                      *)
(***************************************************************************)
EXTENDS Process, SharedLemmas, FiniteSetTheorems

-----------------------------------------------------------------------------
(* The pool: types. *)

PoolTypes ==
  /\ jobs \in Seq(Heavy) /\ stop \in BOOLEAN
  /\ wpc \in [Worker -> {"check", "wait", "run", "count", "exit"}]
  /\ held \in [Worker -> Heavy \cup {NoJob}]
  /\ spc \in [Heavy -> {"new", "notify", "returned", "refused"}]
  /\ shut \in {"no", "notify", "join", "cleared"}
  /\ runs \in [Heavy -> Nat]

PendingInv == pending = Len(jobs) + Cardinality(Pool!Busy)

(* The pool's instance counts with the same Cardinality. *)
LEMMA SameCardinality == \A S : Pool!Cardinality(S) = Cardinality(S)
BY DEF Pool!Cardinality, Cardinality

LEMMA PoolTypeParts == Pool!TypeOK <=> PoolTypes /\ PendingInv
<1>1. Pool!Cardinality(Pool!Busy) = Cardinality(Pool!Busy)
  BY SameCardinality
<1>. QED  BY <1>1 DEF Pool!TypeOK, PoolTypes, PendingInv

(* A job is in one place: it is in the queue once, or one worker holds it. *)
HeldInv ==
  /\ NoneTwice(jobs)
  /\ \A w \in Worker : held[w] # NoJob <=> wpc[w] \in {"run", "count"}
  /\ \A v, w \in Worker : held[v] = held[w] /\ held[v] # NoJob => v = w
  /\ \A w \in Worker : ~InQueue(jobs, held[w])

(* What is queued or held was accepted, and an accepted job has been run   *)
(* exactly once unless that is still ahead of it.                          *)
Ahead(r) == InQueue(jobs, r) \/ \E w \in Worker : held[w] = r /\ wpc[w] = "run"

RunsInv ==
  /\ \A w \in Worker : held[w] # NoJob => held[w] \in Pool!Accepted
  /\ \A r \in Heavy : InQueue(jobs, r) => r \in Pool!Accepted
  /\ \A r \in Heavy : runs[r] = IF r \in Pool!Accepted /\ ~Ahead(r) THEN 1 ELSE 0

(* A worker leaves when there is nothing left to run, and nothing comes    *)
(* after the stop.                                                         *)
EndInv ==
  /\ stop <=> shut # "no"
  /\ \A w \in Worker : wpc[w] = "exit" => stop /\ jobs = << >>
  /\ shut = "cleared" => \A w \in Worker : wpc[w] = "exit"

PoolInv == PoolTypes /\ PendingInv /\ HeldInv /\ RunsInv /\ EndInv

(* Every kind of step of the pool, those that only move workers and        *)
(* callers between places together.                                        *)
PoolWakes == \* notify_one, notify_all, a spurious wake-up
  /\ \E W \in SUBSET Pool!Waiting : Pool!Wake(W)
  /\ UNCHANGED <<jobs, stop, pending, held, runs>>
  /\ \/ \E r \in Heavy : /\ spc[r] = "notify" /\ spc' = [spc EXCEPT ![r] = "returned"]
                         /\ shut' = shut
     \/ spc' = spc /\ shut' = shut
     \/ spc' = spc /\ shut = "notify" /\ shut' = "join"

LEMMA PoolWaking ==
  ASSUME PoolTypes,
         \/ \E r \in Heavy : Pool!NotifyOne(r)
         \/ \E w \in Worker : Pool!SpuriousWake(w)
         \/ Pool!NotifyAll
  PROVE  PoolWakes
<1>1. UNCHANGED wpc => Pool!Wake({})
  BY DEF PoolTypes, Pool!Wake
<1>2. ASSUME NEW r \in Heavy, Pool!NotifyOne(r)
      PROVE  PoolWakes
  <2>1. \E W \in SUBSET Pool!Waiting : Pool!Wake(W)
    BY <1>1, <1>2 DEF Pool!NotifyOne, Pool!NotifyWaiter
  <2>. QED  BY <1>2, <2>1 DEF Pool!NotifyOne, PoolWakes
<1>3. ASSUME NEW w \in Worker, Pool!SpuriousWake(w)
      PROVE  PoolWakes
  <2>1. \E W \in SUBSET Pool!Waiting : Pool!Wake(W)
    BY <1>3 DEF Pool!SpuriousWake
  <2>. QED  BY <1>3, <2>1 DEF Pool!SpuriousWake, PoolWakes
<1>4. CASE Pool!NotifyAll
  <2>1. \E W \in SUBSET Pool!Waiting : Pool!Wake(W)
    BY <1>4 DEF Pool!NotifyAll, Pool!NotifyEvery
  <2>. QED  BY <1>4, <2>1 DEF Pool!NotifyAll, PoolWakes
<1>. QED  BY <1>2, <1>3, <1>4

(* A step of the pool, by kind. *)
LEMMA PoolSteps ==
  ASSUME PoolTypes, Pool!Next
  PROVE  \/ \E r \in Heavy : Pool!Submit(r)
         \/ \E w \in Worker : \/ Pool!WorkerWait(w) \/ Pool!WorkerExit(w) \/ Pool!WorkerTake(w)
                              \/ Pool!WorkerRun(w) \/ Pool!WorkerCount(w)
         \/ Pool!Shutdown \/ Pool!Join \/ PoolWakes
BY PoolWaking DEF Pool!Next, Pool!CallerStep, Pool!WorkerStep, Pool!ShutdownStep

LEMMA PoolTypesStep ==
  ASSUME PoolTypes, HeldInv, Pool!Next
  PROVE  PoolTypes'
<1>1. ASSUME NEW r \in Heavy, Pool!Submit(r) PROVE PoolTypes'
  <2>1. jobs' \in Seq(Heavy)
    <3>1. jobs' = jobs \/ jobs' = Append(jobs, r)
      BY <1>1 DEF Pool!Submit, Pool!Enqueue
    <3>2. jobs \in Seq(Heavy)
      BY DEF PoolTypes
    <3>. QED  BY <3>1, <3>2, AppendQueue
  <2>2. spc' \in [Heavy -> {"new", "notify", "returned", "refused"}]
    BY <1>1 DEF Pool!Submit, PoolTypes
  <2>. QED  BY <1>1, <2>1, <2>2 DEF Pool!Submit, Pool!workerVars, PoolTypes
<1>2. ASSUME NEW w \in Worker, Pool!WorkerWait(w) \/ Pool!WorkerExit(w) PROVE PoolTypes'
  BY <1>2 DEF Pool!WorkerWait, Pool!WorkerExit, PoolTypes
<1>3. ASSUME NEW w \in Worker, Pool!WorkerTake(w) PROVE PoolTypes'
  <2>1. Head(jobs) \in Heavy /\ Tail(jobs) \in Seq(Heavy)
    BY <1>3, TakeQueue DEF Pool!WorkerTake, PoolTypes
  <2>. QED  BY <1>3, <2>1 DEF Pool!WorkerTake, PoolTypes
<1>4. ASSUME NEW w \in Worker, Pool!WorkerRun(w) PROVE PoolTypes'
  <2>1. held[w] \in Heavy
    BY <1>4 DEF Pool!WorkerRun, PoolTypes, HeldInv
  <2>2. runs' \in [Heavy -> Nat]
    BY <1>4, <2>1 DEF Pool!WorkerRun, PoolTypes
  <2>. QED  BY <1>4, <2>2 DEF Pool!WorkerRun, PoolTypes
<1>5. ASSUME NEW w \in Worker, Pool!WorkerCount(w) PROVE PoolTypes'
  BY <1>5 DEF Pool!WorkerCount, PoolTypes
<1>6. CASE Pool!Shutdown \/ Pool!Join
  BY <1>6 DEF Pool!Shutdown, Pool!Join, Pool!workerVars, PoolTypes
<1>7. CASE PoolWakes
  BY <1>7 DEF PoolWakes, Pool!Wake, PoolTypes
<1>. QED  BY <1>1, <1>2, <1>3, <1>4, <1>5, <1>6, <1>7, PoolSteps

(* pending() through the step: the queue and the busy workers change       *)
(* together with the counter.                                              *)
LEMMA PendingStep ==
  ASSUME PoolTypes, PendingInv, Pool!Next
  PROVE  PendingInv'
<1>0. /\ IsFiniteSet(Pool!Busy) /\ Cardinality(Pool!Busy) \in Nat
      /\ jobs \in Seq(Heavy) /\ Len(jobs) \in Nat
  BY ProcessAssumption, FS_Subset, FS_CardinalityType, LenProperties DEF Pool!Busy, PoolTypes
<1>1. ASSUME NEW r \in Heavy, Pool!Submit(r) PROVE PendingInv'
  <2>1. Pool!Busy' = Pool!Busy
    BY <1>1 DEF Pool!Submit, Pool!workerVars, Pool!Busy
  <2>2. CASE stop
    BY <1>1, <2>1, <2>2 DEF Pool!Submit, PendingInv
  <2>3. CASE ~stop
    <3>1. Len(jobs') = Len(jobs) + 1 /\ pending' = pending + 1
      BY <1>0, <1>1, <2>3, AppendQueue DEF Pool!Submit, Pool!Enqueue
    <3>. QED  BY <1>0, <2>1, <3>1 DEF PendingInv
  <2>. QED  BY <2>2, <2>3
<1>2. ASSUME NEW w \in Worker, Pool!WorkerTake(w) PROVE PendingInv'
  <2>1. Pool!Busy' = Pool!Busy \cup {w} /\ w \notin Pool!Busy
    BY <1>2 DEF Pool!WorkerTake, Pool!Busy, PoolTypes
  <2>2. Cardinality(Pool!Busy') = Cardinality(Pool!Busy) + 1
    BY <1>0, <2>1, FS_AddElement
  <2>3. Len(jobs') = Len(jobs) - 1 /\ pending' = pending
    BY <1>0, <1>2, TakeQueue DEF Pool!WorkerTake
  <2>. QED  BY <1>0, <2>2, <2>3 DEF PendingInv
<1>3. ASSUME NEW w \in Worker, Pool!WorkerCount(w) PROVE PendingInv'
  <2>1. Pool!Busy' = Pool!Busy \ {w} /\ w \in Pool!Busy
    BY <1>3 DEF Pool!WorkerCount, Pool!Busy, PoolTypes
  <2>2. Cardinality(Pool!Busy') = Cardinality(Pool!Busy) - 1
    BY <1>0, <2>1, FS_RemoveElement
  <2>3. jobs' = jobs /\ pending' = pending - 1
    BY <1>3 DEF Pool!WorkerCount
  <2>. QED  BY <1>0, <2>2, <2>3 DEF PendingInv
<1>4. ASSUME UNCHANGED <<jobs, pending>>, Pool!Busy' = Pool!Busy PROVE PendingInv'
  BY <1>4 DEF PendingInv
<1>5. ASSUME NEW w \in Worker,
             Pool!WorkerWait(w) \/ Pool!WorkerExit(w) \/ Pool!WorkerRun(w)
      PROVE  UNCHANGED <<jobs, pending>> /\ Pool!Busy' = Pool!Busy
  BY <1>5 DEF Pool!WorkerWait, Pool!WorkerExit, Pool!WorkerRun, Pool!Busy, PoolTypes
<1>6. CASE Pool!Shutdown \/ Pool!Join
  BY <1>4, <1>6 DEF Pool!Shutdown, Pool!Join, Pool!workerVars, Pool!Busy
<1>7. CASE PoolWakes
  <2>1. Pool!Busy' = Pool!Busy
    BY <1>7 DEF PoolWakes, Pool!Wake, Pool!Waiting, Pool!Busy, PoolTypes
  <2>. QED  BY <1>4, <1>7, <2>1 DEF PoolWakes
<1>. QED  BY <1>1, <1>2, <1>3, <1>4, <1>5, <1>6, <1>7, PoolSteps

-----------------------------------------------------------------------------
(* The pool: each job in one place, and run once. *)

(* submit() either refuses, or accepts a job that nobody has seen.         *)
LEMMA Submits ==
  ASSUME PoolTypes, RunsInv, NEW r \in Heavy, Pool!Submit(r)
  PROVE  /\ UNCHANGED <<stop, shut, wpc, held, runs>>
         /\ r \notin Pool!Accepted /\ ~InQueue(jobs, r)
         /\ \A w \in Worker : held[w] # r
         /\ \/ stop /\ jobs' = jobs /\ Pool!Accepted' = Pool!Accepted
            \/ /\ ~stop /\ jobs' = Append(jobs, r)
               /\ Pool!Accepted' = Pool!Accepted \cup {r}
<1>1. /\ spc[r] = "new" /\ UNCHANGED <<stop, shut, wpc, held, runs>>
      /\ spc \in [Heavy -> {"new", "notify", "returned", "refused"}]
  BY DEF Pool!Submit, Pool!workerVars, PoolTypes
<1>2. r \notin Pool!Accepted
  BY <1>1 DEF Pool!Accepted
<1>3. ~InQueue(jobs, r) /\ \A w \in Worker : held[w] # r
  BY <1>2, ProcessAssumption DEF RunsInv
<1>4. CASE stop
  <2>1. jobs' = jobs /\ spc' = [spc EXCEPT ![r] = "refused"]
    BY <1>4 DEF Pool!Submit
  <2>2. Pool!Accepted' = Pool!Accepted
    BY <1>1, <2>1 DEF Pool!Accepted
  <2>. QED  BY <1>1, <1>2, <1>3, <1>4, <2>1, <2>2
<1>5. CASE ~stop
  <2>1. jobs' = Append(jobs, r) /\ spc' = [spc EXCEPT ![r] = "notify"]
    BY <1>5 DEF Pool!Submit, Pool!Enqueue
  <2>2. Pool!Accepted' = Pool!Accepted \cup {r}
    BY <1>1, <2>1 DEF Pool!Accepted
  <2>. QED  BY <1>1, <1>2, <1>3, <1>5, <2>1, <2>2
<1>. QED  BY <1>4, <1>5

(* A wake-up changes none of what a job's place is read from. *)
LEMMA WakesKeep ==
  ASSUME PoolTypes, PoolWakes
  PROVE  /\ UNCHANGED <<jobs, stop, held, runs>>
         /\ \A w \in Worker : /\ wpc'[w] \in {"run", "count"} <=> wpc[w] \in {"run", "count"}
                              /\ wpc'[w] = "run" <=> wpc[w] = "run"
                              /\ wpc'[w] = "exit" <=> wpc[w] = "exit"
         /\ Pool!Accepted' = Pool!Accepted
         /\ shut' = shut \/ (shut = "notify" /\ shut' = "join")
<1>1. PICK W \in SUBSET Pool!Waiting : Pool!Wake(W)
  BY DEF PoolWakes
<1>2. \A w \in Worker : wpc'[w] = IF w \in W THEN "check" ELSE wpc[w]
  BY <1>1 DEF Pool!Wake
<1>3. \A w \in W : wpc[w] = "wait"
  BY DEF Pool!Waiting
<1>4. Pool!Accepted' = Pool!Accepted
  <2>1. CASE spc' = spc
    BY <2>1 DEF Pool!Accepted
  <2>2. CASE \E r \in Heavy : spc[r] = "notify" /\ spc' = [spc EXCEPT ![r] = "returned"]
    BY <2>2 DEF Pool!Accepted, PoolTypes
  <2>. QED  BY <2>1, <2>2 DEF PoolWakes
<1>. QED  BY <1>2, <1>3, <1>4 DEF PoolWakes

LEMMA HeldStep ==
  ASSUME PoolTypes, HeldInv, RunsInv, Pool!Next
  PROVE  HeldInv'
<1>0. /\ jobs \in Seq(Heavy) /\ NoJob \notin Heavy
      /\ held \in [Worker -> Heavy \cup {NoJob}]
      /\ wpc \in [Worker -> {"check", "wait", "run", "count", "exit"}]
  BY ProcessAssumption DEF PoolTypes
<1>1. ASSUME NEW r \in Heavy, Pool!Submit(r) PROVE HeldInv'
  <2>1. /\ UNCHANGED <<wpc, held>> /\ ~InQueue(jobs, r)
        /\ \A w \in Worker : held[w] # r
        /\ jobs' = jobs \/ jobs' = Append(jobs, r)
    BY <1>1, Submits
  <2>2. NoneTwice(jobs')
    <3>1. NoneTwice(jobs)
      BY DEF HeldInv
    <3>2. CASE jobs' = Append(jobs, r)
      BY <1>0, <2>1, <3>1, <3>2, AppendQueue
    <3>. QED  BY <2>1, <3>1, <3>2
  <2>3. \A w \in Worker : ~InQueue(jobs', held[w])
    <3>1. CASE jobs' = jobs
      BY <3>1 DEF HeldInv
    <3>2. CASE jobs' = Append(jobs, r)
      <4>1. \A x : InQueue(jobs', x) <=> InQueue(jobs, x) \/ x = r
        BY <1>0, <3>2, AppendQueue
      <4>. QED  BY <2>1, <4>1 DEF HeldInv
    <3>. QED  BY <2>1, <3>1, <3>2
  <2>. QED  BY <2>1, <2>2, <2>3 DEF HeldInv
<1>2. ASSUME NEW w \in Worker, Pool!WorkerTake(w) PROVE HeldInv'
  <2>1. /\ wpc[w] = "check" /\ jobs # << >> /\ jobs' = Tail(jobs)
        /\ held' = [held EXCEPT ![w] = Head(jobs)] /\ wpc' = [wpc EXCEPT ![w] = "run"]
    BY <1>2 DEF Pool!WorkerTake
  <2>2. /\ Head(jobs) \in Heavy /\ InQueue(jobs, Head(jobs))
        /\ \A x : InQueue(jobs, x) <=> InQueue(jobs', x) \/ x = Head(jobs)
        /\ NoneTwice(jobs') /\ ~InQueue(jobs', Head(jobs))
    BY <1>0, <2>1, TakeQueue DEF HeldInv
  <2>3. \A v \in Worker : held[v] # Head(jobs)
    BY <2>2 DEF HeldInv
  <2>4. /\ held'[w] = Head(jobs) /\ wpc'[w] = "run"
        /\ \A v \in Worker : v # w => held'[v] = held[v] /\ wpc'[v] = wpc[v]
    BY <1>0, <2>1
  <2>. QED  BY <1>0, <2>2, <2>3, <2>4 DEF HeldInv
<1>3. ASSUME NEW w \in Worker, Pool!WorkerCount(w) PROVE HeldInv'
  <2>1. /\ jobs' = jobs /\ held'[w] = NoJob /\ wpc'[w] = "check"
        /\ \A v \in Worker : v # w => held'[v] = held[v] /\ wpc'[v] = wpc[v]
    BY <1>0, <1>3 DEF Pool!WorkerCount
  <2>2. ~InQueue(jobs, NoJob)
    BY <1>0, QueueElements
  <2>. QED  BY <2>1, <2>2 DEF HeldInv
<1>4. ASSUME UNCHANGED <<jobs, held>>,
             \A w \in Worker : wpc'[w] \in {"run", "count"} <=> wpc[w] \in {"run", "count"}
      PROVE  HeldInv'
  BY <1>4 DEF HeldInv
<1>5. ASSUME NEW w \in Worker, Pool!WorkerWait(w) \/ Pool!WorkerExit(w) \/ Pool!WorkerRun(w)
      PROVE  HeldInv'
  <2>1. UNCHANGED <<jobs, held>>
    BY <1>5 DEF Pool!WorkerWait, Pool!WorkerExit, Pool!WorkerRun
  <2>2. \A v \in Worker : wpc'[v] \in {"run", "count"} <=> wpc[v] \in {"run", "count"}
    BY <1>0, <1>5 DEF Pool!WorkerWait, Pool!WorkerExit, Pool!WorkerRun
  <2>. QED  BY <1>4, <2>1, <2>2
<1>6. CASE Pool!Shutdown \/ Pool!Join
  BY <1>4, <1>6 DEF Pool!Shutdown, Pool!Join, Pool!workerVars
<1>7. CASE PoolWakes
  BY <1>4, <1>7, WakesKeep
<1>. QED  BY <1>1, <1>2, <1>3, <1>5, <1>6, <1>7, PoolSteps

LEMMA RunsStep ==
  ASSUME PoolTypes, HeldInv, RunsInv, Pool!Next
  PROVE  RunsInv'
<1>0. /\ jobs \in Seq(Heavy) /\ NoJob \notin Heavy
      /\ held \in [Worker -> Heavy \cup {NoJob}]
      /\ wpc \in [Worker -> {"check", "wait", "run", "count", "exit"}]
      /\ runs \in [Heavy -> Nat]
  BY ProcessAssumption DEF PoolTypes
<1>1. ASSUME NEW r \in Heavy, Pool!Submit(r) PROVE RunsInv'
  <2>1. /\ UNCHANGED <<wpc, held, runs>> /\ r \notin Pool!Accepted
    BY <1>1, Submits
  <2>2. CASE jobs' = jobs /\ Pool!Accepted' = Pool!Accepted
    BY <2>1, <2>2 DEF RunsInv, Ahead
  <2>3. CASE jobs' = Append(jobs, r) /\ Pool!Accepted' = Pool!Accepted \cup {r}
    <3>1. \A x : InQueue(jobs', x) <=> InQueue(jobs, x) \/ x = r
      BY <1>0, <2>3, AppendQueue
    <3>2. \A x \in Heavy : Ahead(x)' <=> Ahead(x) \/ x = r
      BY <2>1, <3>1 DEF Ahead
    <3>3. runs[r] = 0
      BY <2>1 DEF RunsInv
    <3>. QED  BY <2>1, <2>3, <3>1, <3>2, <3>3 DEF RunsInv
  <2>. QED  BY <1>1, <2>2, <2>3, Submits
<1>2. ASSUME NEW w \in Worker, Pool!WorkerTake(w) PROVE RunsInv'
  <2>1. /\ wpc[w] = "check" /\ jobs # << >> /\ jobs' = Tail(jobs)
        /\ held' = [held EXCEPT ![w] = Head(jobs)] /\ wpc' = [wpc EXCEPT ![w] = "run"]
        /\ UNCHANGED <<spc, runs>>
    BY <1>2 DEF Pool!WorkerTake
  <2>2. /\ Head(jobs) \in Heavy /\ InQueue(jobs, Head(jobs))
        /\ \A x : InQueue(jobs, x) <=> InQueue(jobs', x) \/ x = Head(jobs)
    BY <1>0, <2>1, TakeQueue
  <2>3. /\ held'[w] = Head(jobs) /\ wpc'[w] = "run"
        /\ \A v \in Worker : v # w => held'[v] = held[v] /\ wpc'[v] = wpc[v]
    BY <1>0, <2>1
  <2>4. \A x \in Heavy : Ahead(x)' <=> Ahead(x)
    BY <2>1, <2>2, <2>3 DEF Ahead
  <2>5. Pool!Accepted' = Pool!Accepted
    BY <2>1 DEF Pool!Accepted
  <2>. QED  BY <2>1, <2>2, <2>3, <2>4, <2>5 DEF RunsInv
<1>3. ASSUME NEW w \in Worker, Pool!WorkerRun(w) PROVE RunsInv'
  <2>1. /\ wpc[w] = "run" /\ UNCHANGED <<jobs, held>> /\ Pool!Accepted' = Pool!Accepted
        /\ runs' = [runs EXCEPT ![held[w]] = @ + 1] /\ wpc' = [wpc EXCEPT ![w] = "count"]
    BY <1>3 DEF Pool!WorkerRun, Pool!Accepted
  <2>2. /\ held[w] \in Heavy /\ held[w] \in Pool!Accepted /\ ~InQueue(jobs, held[w])
        /\ \A v \in Worker : held[v] = held[w] => v = w
    BY <1>0, <2>1 DEF HeldInv, RunsInv
  <2>3. wpc'[w] = "count" /\ \A v \in Worker : v # w => wpc'[v] = wpc[v]
    BY <1>0, <2>1
  <2>4. \A x \in Heavy : Ahead(x)' <=> Ahead(x) /\ x # held[w]
    BY <2>1, <2>2, <2>3 DEF Ahead
  <2>5. runs[held[w]] = 0
    BY <2>1, <2>2 DEF RunsInv, Ahead
  <2>6. /\ runs'[held[w]] = 1
        /\ \A x \in Heavy : x # held[w] => runs'[x] = runs[x]
    BY <1>0, <2>1, <2>2, <2>5
  <2>. QED  BY <2>1, <2>2, <2>4, <2>6 DEF RunsInv
<1>4. ASSUME NEW w \in Worker, Pool!WorkerCount(w) PROVE RunsInv'
  <2>1. /\ wpc[w] = "count" /\ UNCHANGED <<jobs, runs>> /\ Pool!Accepted' = Pool!Accepted
        /\ held'[w] = NoJob /\ wpc'[w] = "check"
        /\ \A v \in Worker : v # w => held'[v] = held[v] /\ wpc'[v] = wpc[v]
    BY <1>0, <1>4 DEF Pool!WorkerCount, Pool!Accepted
  <2>2. \A x \in Heavy : Ahead(x)' <=> Ahead(x)
    BY <1>0, <2>1 DEF Ahead
  <2>. QED  BY <2>1, <2>2 DEF RunsInv
<1>5. ASSUME UNCHANGED <<jobs, held, runs>>, Pool!Accepted' = Pool!Accepted,
             \A w \in Worker : wpc'[w] = "run" <=> wpc[w] = "run"
      PROVE  RunsInv'
  BY <1>5 DEF RunsInv, Ahead
<1>6. ASSUME NEW w \in Worker, Pool!WorkerWait(w) \/ Pool!WorkerExit(w) PROVE RunsInv'
  <2>1. UNCHANGED <<jobs, held, runs>> /\ Pool!Accepted' = Pool!Accepted
    BY <1>6 DEF Pool!WorkerWait, Pool!WorkerExit, Pool!Accepted
  <2>2. \A v \in Worker : wpc'[v] = "run" <=> wpc[v] = "run"
    BY <1>0, <1>6 DEF Pool!WorkerWait, Pool!WorkerExit
  <2>. QED  BY <1>5, <2>1, <2>2
<1>7. CASE Pool!Shutdown \/ Pool!Join
  BY <1>5, <1>7 DEF Pool!Shutdown, Pool!Join, Pool!workerVars, Pool!Accepted
<1>8. CASE PoolWakes
  BY <1>5, <1>8, WakesKeep
<1>. QED  BY <1>1, <1>2, <1>3, <1>4, <1>6, <1>7, <1>8, PoolSteps

LEMMA EndStep ==
  ASSUME PoolTypes, RunsInv, EndInv, Pool!Next
  PROVE  EndInv'
<1>0. wpc \in [Worker -> {"check", "wait", "run", "count", "exit"}]
  BY DEF PoolTypes
<1>1. ASSUME UNCHANGED <<jobs, stop>>,
             shut' = shut \/ (shut = "notify" /\ shut' = "join"),
             \A w \in Worker : wpc'[w] = "exit" <=> wpc[w] = "exit"
      PROVE  EndInv'
  BY <1>1 DEF EndInv
<1>2. ASSUME NEW r \in Heavy, Pool!Submit(r) PROVE EndInv'
  <2>1. UNCHANGED <<stop, shut, wpc>> /\ (stop => jobs' = jobs)
    BY <1>2, Submits
  <2>. QED  BY <2>1 DEF EndInv
<1>3. ASSUME NEW w \in Worker, Pool!WorkerExit(w) PROVE EndInv'
  BY <1>0, <1>3 DEF Pool!WorkerExit, Pool!MayLeave, EndInv
<1>4. ASSUME NEW w \in Worker, Pool!WorkerTake(w) PROVE EndInv'
  <2>1. /\ wpc[w] = "check" /\ jobs # << >> /\ UNCHANGED <<stop, shut>>
        /\ wpc' = [wpc EXCEPT ![w] = "run"]
    BY <1>4 DEF Pool!WorkerTake
  <2>. QED  BY <1>0, <2>1 DEF EndInv
<1>5. ASSUME NEW w \in Worker,
             Pool!WorkerWait(w) \/ Pool!WorkerRun(w) \/ Pool!WorkerCount(w)
      PROVE  EndInv'
  <2>1. UNCHANGED <<jobs, stop, shut>>
    BY <1>5 DEF Pool!WorkerWait, Pool!WorkerRun, Pool!WorkerCount
  <2>2. \A v \in Worker : wpc'[v] = "exit" <=> wpc[v] = "exit"
    BY <1>0, <1>5 DEF Pool!WorkerWait, Pool!WorkerRun, Pool!WorkerCount
  <2>. QED  BY <1>1, <2>1, <2>2
<1>6. CASE Pool!Shutdown
  BY <1>6 DEF Pool!Shutdown, Pool!workerVars, EndInv
<1>7. CASE Pool!Join
  BY <1>7 DEF Pool!Join, Pool!workerVars, EndInv
<1>8. CASE PoolWakes
  BY <1>1, <1>8, WakesKeep
<1>. QED  BY <1>2, <1>3, <1>4, <1>5, <1>6, <1>7, <1>8, PoolSteps

LEMMA PoolInit == Pool!Init => PoolInv
<1>. SUFFICES ASSUME Pool!Init PROVE PoolInv
  OBVIOUS
<1>1. PoolTypes
  BY EmptySeq DEF Pool!Init, PoolTypes
<1>2. jobs = << >> /\ Pool!Busy = {} /\ Pool!Accepted = {}
  BY DEF Pool!Init, Pool!Busy, Pool!Accepted
<1>3. PendingInv
  BY <1>2, EmptySeq, FS_EmptySet DEF Pool!Init, PendingInv
<1>4. HeldInv
  BY <1>2, EmptyQueue DEF Pool!Init, HeldInv
<1>5. RunsInv
  BY <1>2, EmptyQueue DEF Pool!Init, RunsInv
<1>6. EndInv
  BY DEF Pool!Init, EndInv
<1>. QED  BY <1>1, <1>3, <1>4, <1>5, <1>6 DEF PoolInv

LEMMA PoolStep == ASSUME PoolInv, [Pool!Next]_(Pool!vars) PROVE PoolInv'
<1>1. CASE Pool!Next
  BY <1>1, PoolTypesStep, PendingStep, HeldStep, RunsStep, EndStep DEF PoolInv
<1>2. CASE UNCHANGED Pool!vars
  BY <1>2 DEF Pool!vars, PoolInv, PoolTypes, PendingInv, Pool!Busy, HeldInv, RunsInv,
              Ahead, Pool!Accepted, EndInv
<1>. QED  BY <1>1, <1>2
-----------------------------------------------------------------------------
(* The pool: its steps are those of TaskPool. *)

Phase == IF ~stop THEN "open" ELSE IF shut = "cleared" THEN "closed" ELSE "closing"

LEMMA TasksInit == Pool!Init => Pool!Tasks!Init
BY DEF Pool!Init, Pool!Tasks!Init, Pool!Accepted

LEMMA TasksStep ==
  ASSUME PoolInv, [Pool!Next]_(Pool!vars)
  PROVE  [Pool!Tasks!Next]_(Pool!Tasks!vars)
<1>. USE DEF PoolInv
<1>0. /\ NoJob \notin Heavy /\ Worker # {}
      /\ jobs \in Seq(Heavy)
      /\ wpc \in [Worker -> {"check", "wait", "run", "count", "exit"}]
      /\ held \in [Worker -> Heavy \cup {NoJob}]
      /\ runs \in [Heavy -> Nat]
      /\ stop \in BOOLEAN
  BY ProcessAssumption DEF PoolTypes
<1>1. ASSUME UNCHANGED <<stop, runs>>, Pool!Accepted' = Pool!Accepted,
             shut' = shut \/ (shut' # "cleared" /\ shut # "cleared")
      PROVE  UNCHANGED Pool!Tasks!vars
  <2>1. Phase' = Phase
    BY <1>1 DEF Phase
  <2>. QED  BY <1>1, <2>1 DEF Pool!Tasks!vars, Phase
<1>2. ASSUME NEW r \in Heavy, Pool!Submit(r) PROVE [Pool!Tasks!Next]_(Pool!Tasks!vars)
  <2>1. CASE stop
    BY <1>1, <1>2, <2>1, Submits
  <2>2. CASE ~stop
    <3>1. /\ UNCHANGED <<stop, shut, runs>> /\ r \notin Pool!Accepted
          /\ Pool!Accepted' = Pool!Accepted \cup {r}
      BY <1>2, <2>2, Submits
    <3>2. Pool!Tasks!Accept(r)
      BY <2>2, <3>1 DEF Pool!Tasks!Accept
    <3>. QED  BY <3>2 DEF Pool!Tasks!Next
  <2>. QED  BY <2>1, <2>2
<1>3. ASSUME NEW w \in Worker,
             Pool!WorkerWait(w) \/ Pool!WorkerExit(w) \/ Pool!WorkerTake(w)
               \/ Pool!WorkerCount(w)
      PROVE  UNCHANGED Pool!Tasks!vars
  <2>1. UNCHANGED <<stop, shut, spc, runs>>
    BY <1>3 DEF Pool!WorkerWait, Pool!WorkerExit, Pool!WorkerTake, Pool!WorkerCount
  <2>2. Pool!Accepted' = Pool!Accepted
    BY <2>1 DEF Pool!Accepted
  <2>. QED  BY <1>1, <2>1, <2>2
<1>4. ASSUME NEW w \in Worker, Pool!WorkerRun(w) PROVE [Pool!Tasks!Next]_(Pool!Tasks!vars)
  <2>1. /\ wpc[w] = "run" /\ UNCHANGED <<stop, shut, spc>>
        /\ runs' = [runs EXCEPT ![held[w]] = @ + 1]
    BY <1>4 DEF Pool!WorkerRun
  <2>2. held[w] \in Heavy /\ held[w] \in Pool!Accepted /\ Ahead(held[w])
    BY <1>0, <2>1 DEF HeldInv, RunsInv, Ahead
  <2>3. runs[held[w]] = 0
    BY <2>2 DEF RunsInv
  <2>4. runs' = [runs EXCEPT ![held[w]] = 1]
    BY <1>0, <2>1, <2>2, <2>3
  <2>5. shut # "cleared"
    BY <2>1 DEF EndInv
  <2>6. Pool!Accepted' = Pool!Accepted
    BY <2>1 DEF Pool!Accepted
  <2>7. Pool!Tasks!Run(held[w])
    BY <2>1, <2>2, <2>3, <2>5, <2>6, <2>4 DEF Pool!Tasks!Run
  <2>. QED  BY <2>2, <2>7 DEF Pool!Tasks!Next
<1>5. CASE Pool!Shutdown
  <2>1. /\ shut = "no" /\ stop' = TRUE /\ shut' = "notify" /\ UNCHANGED <<spc, runs>>
    BY <1>5 DEF Pool!Shutdown, Pool!workerVars
  <2>2. ~stop /\ Pool!Accepted' = Pool!Accepted
    BY <2>1 DEF EndInv, Pool!Accepted
  <2>3. Pool!Tasks!Close
    BY <2>1, <2>2 DEF Pool!Tasks!Close
  <2>. QED  BY <2>3 DEF Pool!Tasks!Next
<1>6. CASE Pool!Join
  <2>1. /\ shut = "join" /\ shut' = "cleared" /\ \A w \in Worker : wpc[w] = "exit"
        /\ UNCHANGED <<stop, spc, runs>>
    BY <1>6 DEF Pool!Join, Pool!workerVars
  <2>2. stop /\ jobs = << >>
    BY <1>0, <2>1 DEF EndInv
  <2>3. \A r \in Heavy : ~Ahead(r)
    BY <2>1, <2>2, EmptyQueue DEF Ahead
  <2>4. \A r \in Pool!Accepted : r \in Heavy /\ runs[r] = 1
    BY <2>3 DEF RunsInv, Pool!Accepted
  <2>5. Pool!Accepted' = Pool!Accepted
    BY <2>1 DEF Pool!Accepted
  <2>6. Pool!Tasks!Finish
    BY <2>1, <2>2, <2>4, <2>5 DEF Pool!Tasks!Finish
  <2>. QED  BY <2>6 DEF Pool!Tasks!Next
<1>7. CASE PoolWakes
  <2>1. /\ UNCHANGED <<stop, runs>> /\ Pool!Accepted' = Pool!Accepted
        /\ shut' = shut \/ (shut = "notify" /\ shut' = "join")
    BY <1>7, WakesKeep
  <2>. QED  BY <1>1, <2>1
<1>8. CASE UNCHANGED Pool!vars
  BY <1>1, <1>8 DEF Pool!vars, Pool!Accepted
<1>. QED  BY <1>2, <1>3, <1>4, <1>5, <1>6, <1>7, <1>8, PoolSteps

-----------------------------------------------------------------------------
(* The pool in the process. *)

Quiet == UNCHANGED poolVars

LEMMA MainKeepsPool == MainStep \/ SyncStep => Quiet
BY DEF MainStep, Start, Connected, ConnectDeadline, GiveUp, UpstreamOk, UpstreamBad, GaveUp,
       Listen, Unwound, Joined, Exit, SyncStep, SyncStops, SyncAsks, SyncAnswered, SyncFailed,
       SyncResyncs, SyncKeeps, Quiet

LEMMA OthersKeepPool ==
  ASSUME NEW n \in Net, NEW a, NEW q,
         \/ Signal \/ SyncJoined \/ ApplyJoined \/ ApplyDrains \/ ApplyLeaves
         \/ StreamMessage(n) \/ SignalTaken(n) \/ Dial(n) \/ Dialed(n) \/ LinkLost(n)
         \/ NodeStops(n) \/ IoStops(n) \/ NetLeaves(n)
         \/ Reply(n, a) \/ Timeout(a) \/ Proxy(n, q) \/ ProxyAnswers(q)
  PROVE  Quiet
BY DEF Signal, SyncJoined, ApplyJoined, ApplyDrains, ApplyLeaves, StreamMessage, ApplyTo,
       SignalTaken, Dial, Dialed, LinkLost, NodeStops, IoStops, NetLeaves, Reply, Timeout,
       Proxy, ProxyAnswers, Quiet

(* What the apply thread does before it is joined changes nothing else. *)
LEMMA ApplyKeeps ==
  ASSUME NEW n \in Net, ApplyDrains \/ ApplyLeaves \/ StreamMessage(n)
  PROVE  /\ UNCHANGED <<poolVars, mainVars, link, pend, sync, ready, net, place>>
         /\ apply \in {"idle", "queued"} /\ apply' \in {"idle", "queued", "gone"}
BY DEF ApplyDrains, ApplyLeaves, StreamMessage, ApplyTo

(* A step of the process is one of the pool or leaves it alone. *)
LEMMA PoolMoves == [Next]_vars => [Pool!Next]_(Pool!vars)
<1>. SUFFICES ASSUME Next PROVE Pool!Next \/ Quiet
  BY DEF vars, poolVars, Pool!vars, Quiet
<1>1. CASE MainStep \/ SyncStep \/ Signal
  BY <1>1, MainKeepsPool DEF Signal, Quiet
<1>2. CASE StopStep
  <2>1. CASE PoolStops \/ PoolJoined
    BY <2>1 DEF PoolStops, PoolJoined, Pool!Next, Pool!ShutdownStep
  <2>2. CASE SyncJoined \/ ApplyJoined
    BY <2>2 DEF SyncJoined, ApplyJoined, Quiet
  <2>. QED  BY <1>2, <2>1, <2>2 DEF StopStep
<1>a. CASE ApplyDrains \/ ApplyLeaves
  BY <1>a DEF ApplyDrains, ApplyLeaves, ApplyTo, Quiet
<1>3. ASSUME NEW n \in Net,
             \/ NetStep(n) \/ SignalTaken(n) \/ Dial(n) \/ LinkLost(n) \/ StreamMessage(n)
             \/ \E a \in Asker : Reply(n, a)
             \/ \E r \in Heavy : Dispatch(n, r)
             \/ \E q \in Proxied : Proxy(n, q)
      PROVE  Pool!Next \/ Quiet
  <2>1. CASE DispatchEnds(n)
    BY <2>1 DEF DispatchEnds, Pool!Next, Pool!CallerStep
  <2>2. ASSUME NEW r \in Heavy, Dispatch(n, r) PROVE Pool!Next
    BY <2>2 DEF Dispatch, Pool!Next, Pool!CallerStep
  <2>. QED  BY <1>3, <2>1, <2>2, OthersKeepPool DEF NetStep
<1>4. ASSUME NEW w \in Worker, WorkerMoves(w) \/ SpuriousWake(w) PROVE Pool!Next
  BY <1>4 DEF WorkerMoves, SpuriousWake, Pool!Next, Pool!WorkerStep
<1>5. CASE (\E a \in Asker : Timeout(a)) \/ \E q \in Proxied : ProxyAnswers(q)
  BY <1>5 DEF Timeout, ProxyAnswers, Quiet
<1>. QED  BY <1>1, <1>2, <1>a, <1>3, <1>4, <1>5 DEF Next

LEMMA PoolAlways == Spec => []PoolInv
<1>1. Init => PoolInv
  BY PoolInit DEF Init
<1>2. PoolInv /\ [Next]_vars => PoolInv'
  BY PoolMoves, PoolStep
<1>. QED  BY <1>1, <1>2, PTL DEF Spec

(* RunsEachOnce: the pool in the process implements TaskPool, whatever     *)
(* stops it and whenever: every request that submit() accepts is run       *)
(* exactly once, none is accepted after the stop, and shutdown() returns   *)
(* only when all of them have been run (thread_pool.hpp).                  *)
THEOREM PoolRefines == Spec => RunsEachOnce
<1>1. Init => Pool!Tasks!Init
  BY TasksInit DEF Init
<1>2. PoolInv /\ [Next]_vars => [Pool!Tasks!Next]_(Pool!Tasks!vars)
  BY PoolMoves, TasksStep
<1>. QED  BY <1>1, <1>2, PoolAlways, PTL DEF Spec, RunsEachOnce, Pool!RunsEachOnce, Pool!Tasks!Spec
-----------------------------------------------------------------------------
(* The threads: types. *)

ThreadTypes ==
  /\ main \in {"new", "dial", "ask", "quit", "listen", "serve", "unwind", "torn",
               "exited", "fatal", "aborted"}
  /\ net \in [Net -> Heavy \cup {"none", "free", "dialing", "signal", "last", "gone"}]
  /\ io \in BOOLEAN /\ sig \in BOOLEAN
  /\ link \in {"idle", "dial", "up"}
  /\ sync \in {"none", "link", "ask", "ready", "gone"}
  /\ apply \in {"none", "runs", "fed", "idle", "queued", "gone"} /\ ready \in BOOLEAN
  /\ engine \in {"no", "pool", "sync", "apply", "done"}

AskTypes ==
  /\ pend \in [Asker -> Unsettled \cup {"none", "value", "error"}]
  /\ place \in [Request -> {"new", "in", "answered"}]

LEMMA TypeParts == TypeOK <=> PoolTypes /\ PendingInv /\ ThreadTypes /\ AskTypes
BY PoolTypeParts DEF TypeOK, ThreadTypes, AskTypes

(* Where main is decides what there is: network threads from its start on  *)
(* until it has joined them, the engine's threads once it was made, a stop *)
(* of the engine only by a signal in service or by ~Engine().              *)
MainInv ==
  /\ sync # "none" <=> main \in {"listen", "serve", "unwind", "torn", "exited", "aborted"}
  /\ sync = "none" <=> apply = "none"
  /\ main = "new" => \A n \in Net : net[n] = "none"
  /\ main \notin {"new", "fatal"} => \E n \in Net : net[n] # "none"
  /\ main \in {"torn", "exited", "fatal"} => NetGone
  /\ main \in {"new", "dial", "ask", "quit", "listen", "fatal"} => engine = "no" /\ ~sig

(* The io_context is stopped when the engine is, or by a start that gave   *)
(* up; the network threads leave after that.  Engine::stop() goes past a   *)
(* join when what it joins is gone, and main past a stop when it is done.  *)
StopInv ==
  /\ io => \A n \in Net : net[n] # "gone"
  /\ ~io => engine = "done" \/ main \in {"quit", "fatal"}
  /\ \A n \in Net : net[n] = "last" => engine = "done"
  /\ engine \in {"sync", "apply", "done"} => shut = "cleared"
  /\ engine \in {"apply", "done"} => sync = "gone"
  /\ engine = "done" => apply = "gone"
  /\ main \in {"torn", "exited", "aborted"} => engine = "done"

ThreadInv == ThreadTypes /\ MainInv /\ StopInv

LEMMA ThreadInit == Init => ThreadInv /\ AskTypes
BY ProcessAssumption DEF Init, ThreadInv, ThreadTypes, MainInv, StopInv, NetGone, AskTypes

(* The steps of main. *)
LEMMA MainMoves == ASSUME ThreadInv, MainStep PROVE ThreadInv'
<1>. USE DEF ThreadInv
<1>0. shut' = shut
  BY MainKeepsPool DEF Quiet, poolVars
<1>1. CASE Start
  <2>1. CASE main' = "fatal" /\ UNCHANGED <<link, net>>
    BY <1>0, <1>1, <2>1 DEF Start, syncVars, ThreadTypes, MainInv, StopInv, NetGone
  <2>2. CASE /\ main' = "dial" /\ link' = "dial"
             /\ \E started \in SUBSET Net :
                  /\ First \in started
                  /\ net' = [n \in Net |-> IF n \in started THEN "free" ELSE "none"]
    <3>1. First \in Net
      BY ProcessAssumption DEF First
    <3>2. /\ net' \in [Net -> {"free", "none"}] /\ \E n \in Net : net'[n] # "none"
      BY <2>2, <3>1
    <3>. QED  BY <1>0, <1>1, <2>2, <3>2
              DEF Start, syncVars, ThreadTypes, MainInv, StopInv, NetGone
  <2>. QED  BY <1>1, <2>1, <2>2 DEF Start
<1>2. CASE Connected
  BY <1>0, <1>2 DEF Connected, syncVars, ThreadTypes, MainInv, StopInv, NetGone
<1>3. CASE ConnectDeadline
  BY <1>0, <1>3 DEF ConnectDeadline, GiveUp, syncVars, ThreadTypes, MainInv, StopInv, NetGone
<1>4. CASE UpstreamOk
  BY <1>0, <1>4 DEF UpstreamOk, ThreadTypes, MainInv, StopInv, NetGone
<1>5. CASE UpstreamBad
  BY <1>0, <1>5 DEF UpstreamBad, GiveUp, syncVars, ThreadTypes, MainInv, StopInv, NetGone
<1>6. CASE GaveUp
  BY <1>0, <1>6 DEF GaveUp, nodeVars, syncVars, ThreadTypes, MainInv, StopInv, NetGone
<1>7. CASE Listen
  BY <1>0, <1>7 DEF Listen, nodeVars, syncVars, ThreadTypes, MainInv, StopInv, NetGone
<1>8. CASE Unwound
  BY <1>0, <1>8 DEF Unwound, nodeVars, syncVars, ThreadTypes, MainInv, StopInv, NetGone
<1>9. CASE Joined
  <2>1. engine = "done"
    BY <1>9 DEF Joined, ThreadTypes, MainInv, StopInv, NetGone
  <2>. QED  BY <1>0, <1>9, <2>1 DEF Joined, nodeVars, syncVars, ThreadTypes, MainInv, StopInv, NetGone
<1>10. CASE Exit
  BY <1>0, <1>10 DEF Exit, nodeVars, syncVars, ThreadTypes, MainInv, StopInv, NetGone
<1>. QED  BY <1>1, <1>2, <1>3, <1>4, <1>5, <1>6, <1>7, <1>8, <1>9, <1>10 DEF MainStep

(* The steps of the sync thread: it never starts again once it is gone. *)
LEMMA SyncMoves == ASSUME ThreadInv, SyncStep PROVE ThreadInv'
<1>1. /\ UNCHANGED <<main, io, engine, sig, net, shut>>
      /\ sync \notin {"none", "gone"} /\ sync' \in {"link", "ask", "ready", "gone"}
      /\ link' \in {link, "dial"} /\ apply' \in {apply, "fed"} /\ ready' \in BOOLEAN
  BY DEF SyncStep, SyncStops, SyncAsks, SyncAnswered, SyncFailed, SyncResyncs, Redial, SyncTo,
         SyncKeeps, mainVars, poolVars
<1>. QED  BY <1>1 DEF ThreadInv, ThreadTypes, MainInv, StopInv, NetGone

(* A step of a network thread: one that is not "none" or "gone" goes from  *)
(* one place to another, and only to "gone" once the io_context is stopped.*)
LEMMA NetMoves ==
  ASSUME ThreadInv, NEW n \in Net,
         NEW to \in Heavy \cup {"free", "dialing", "signal", "last", "gone"},
         net[n] \notin {"none", "gone"}, net' = [net EXCEPT ![n] = to],
         to = "gone" => ~io, to = "last" => engine = "done",
         UNCHANGED <<main, syncVars, shut, sig>>, link' \in {"idle", "dial", "up"},
         \/ UNCHANGED <<io, engine>>
         \/ engine' = engine /\ io' = FALSE /\ engine = "done"
         \/ io' = io /\ engine = "no" /\ engine' = "pool" /\ sig
  PROVE  ThreadInv'
<1>. USE DEF ThreadInv
<1>1. /\ net'[n] = to /\ \A m \in Net : m # n => net'[m] = net[m]
      /\ net' \in [Net -> Heavy \cup {"none", "free", "dialing", "signal", "last", "gone"}]
  BY DEF ThreadTypes
<1>2. main \notin {"new", "torn", "exited", "fatal"}
  BY DEF MainInv, NetGone
<1>3. to # "none"
  BY ProcessAssumption
<1>a. UNCHANGED <<main, sync, apply, ready, sig>> /\ io' \in BOOLEAN /\ ready \in BOOLEAN
  BY DEF ThreadTypes, syncVars
<1>b. ready' \in BOOLEAN /\ sig' \in BOOLEAN
  BY <1>a DEF ThreadTypes
<1>4. ThreadTypes'
  BY <1>1, <1>a, <1>b DEF ThreadTypes
<1>5. MainInv'
  BY <1>1, <1>2, <1>3 DEF MainInv, NetGone, syncVars
<1>6. StopInv'
  BY <1>1, <1>2 DEF StopInv, MainInv, ThreadTypes, syncVars
<1>. QED  BY <1>4, <1>5, <1>6

(* The other steps leave the network threads, main and the sync thread     *)
(* where they are.                                                         *)
LEMMA EngineMoves ==
  ASSUME ThreadInv,
         UNCHANGED <<main, io, net, sync>>, link' \in {link, "idle"},
         sig' = sig \/ main = "serve", sig' \in BOOLEAN, ready' \in BOOLEAN,
         \/ /\ engine' = engine /\ (shut = "cleared" => shut' = "cleared")
            /\ \/ apply' = apply
               \/ apply \in {"idle", "queued"} /\ apply' \in {"idle", "queued", "gone"}
         \/ engine = "pool" /\ engine' = "sync" /\ shut' = "cleared" /\ apply' = apply
         \/ /\ engine = "sync" /\ engine' = "apply" /\ sync = "gone" /\ shut' = shut
            /\ apply' \in {"idle", "queued"}
         \/ /\ engine = "apply" /\ engine' = "done" /\ apply = "gone"
            /\ UNCHANGED <<apply, shut>>
  PROVE  ThreadInv'
BY DEF ThreadInv, ThreadTypes, MainInv, StopInv, NetGone

(* Nothing makes the pool's shutdown() return again. *)
LEMMA ClearedStays == PoolInv /\ [Next]_vars => (shut = "cleared" => shut' = "cleared")
<1>. SUFFICES ASSUME PoolInv, Pool!Next, shut = "cleared" PROVE shut' = "cleared"
  BY PoolMoves DEF Pool!vars
<1>1. PoolTypes
  BY DEF PoolInv
<1>2. ASSUME NEW w \in Worker,
             \/ Pool!WorkerWait(w) \/ Pool!WorkerExit(w) \/ Pool!WorkerTake(w)
             \/ Pool!WorkerRun(w) \/ Pool!WorkerCount(w)
      PROVE  shut' = shut
  BY <1>2 DEF Pool!WorkerWait, Pool!WorkerExit, Pool!WorkerTake, Pool!WorkerRun, Pool!WorkerCount
<1>3. ASSUME NEW r \in Heavy, Pool!Submit(r) PROVE shut' = shut
  BY <1>3 DEF Pool!Submit
<1>4. CASE Pool!Shutdown \/ Pool!Join
  BY <1>4 DEF Pool!Shutdown, Pool!Join
<1>5. CASE PoolWakes
  BY <1>1, <1>5, WakesKeep
<1>. QED  BY <1>1, <1>2, <1>3, <1>4, <1>5, PoolSteps

LEMMA ThreadStep == PoolInv /\ ThreadInv /\ [Next]_vars => ThreadInv'
<1>. SUFFICES ASSUME PoolInv, ThreadInv, [Next]_vars PROVE ThreadInv'
  OBVIOUS
<1>0. shut = "cleared" => shut' = "cleared"
  BY ClearedStays
<1>a. /\ main \in {"new", "dial", "ask", "quit", "listen", "serve", "unwind", "torn",
                   "exited", "fatal", "aborted"}
      /\ net \in [Net -> Heavy \cup {"none", "free", "dialing", "signal", "last", "gone"}]
      /\ sig \in BOOLEAN /\ ready \in BOOLEAN /\ link \in {"idle", "dial", "up"}
  BY DEF ThreadInv, ThreadTypes
<1>b. Heavy \cap {"none", "free", "dialing", "signal", "last", "gone"} = {}
  BY ProcessAssumption
<1>1. CASE MainStep \/ SyncStep
  BY <1>1, MainMoves, SyncMoves
<1>2. CASE StopStep
  <2>1. CASE PoolStops
    BY <1>0, <2>1, <1>a, EngineMoves DEF PoolStops, mainVars, nodeVars, syncVars
  <2>2. CASE PoolJoined
    <3>1. engine = "pool" /\ engine' = "sync" /\ shut' = "cleared"
      BY <2>2 DEF PoolJoined, Pool!Join
    <3>2. UNCHANGED <<main, io, sig, link, sync, apply, ready, net>>
      BY <2>2 DEF PoolJoined, nodeVars, syncVars
    <3>. QED  BY <1>a, <3>1, <3>2, EngineMoves
  <2>3. CASE SyncJoined
    <3>1. /\ engine = "sync" /\ engine' = "apply" /\ sync = "gone"
          /\ apply' \in {"idle", "queued"}
          /\ UNCHANGED <<main, io, sig, link, sync, ready, net, shut>>
      BY <2>3 DEF SyncJoined, StockTaken, poolVars
    <3>. QED  BY <1>a, <3>1, EngineMoves
  <2>4. CASE ApplyJoined
    <3>1. /\ engine = "apply" /\ engine' = "done" /\ apply = "gone"
          /\ UNCHANGED <<main, io, sig, link, sync, apply, ready, net, shut>>
      BY <2>4 DEF ApplyJoined, poolVars, nodeVars, syncVars
    <3>. QED  BY <1>a, <3>1, EngineMoves
  <2>. QED  BY <1>2, <2>1, <2>2, <2>3, <2>4 DEF StopStep
<1>3. CASE Signal
  BY <1>3, <1>a, EngineMoves DEF Signal, Serving, poolVars, nodeVars, syncVars
<1>4. ASSUME NEW n \in Net, NetStep(n) PROVE ThreadInv'
  <2>1. CASE Dialed(n)
    <3>1. /\ net[n] = "dialing" /\ net' = [net EXCEPT ![n] = "free"] /\ link' \in {link, "up"}
          /\ UNCHANGED <<main, syncVars, shut, sig, io, engine>>
      BY <2>1 DEF Dialed, Go, poolVars, mainVars
    <3>. QED  BY <1>a, <3>1, NetMoves
  <2>2. CASE DispatchEnds(n)
    <3>1. /\ net[n] \in Heavy /\ net' = [net EXCEPT ![n] = "free"]
          /\ UNCHANGED <<main, syncVars, shut, sig, io, engine, link>>
      BY <2>2 DEF DispatchEnds, Go, Pool!NotifyOne, mainVars, nodeVars
    <3>. QED  BY <1>a, <1>b, <3>1, NetMoves
  <2>3. CASE NodeStops(n)
    <3>1. /\ net[n] = "signal" /\ engine = "done" /\ net' = [net EXCEPT ![n] = "last"]
          /\ link' = "idle" /\ UNCHANGED <<main, syncVars, shut, sig, io, engine>>
      BY <2>3 DEF NodeStops, Go, poolVars, mainVars
    <3>. QED  BY <1>a, <3>1, NetMoves
  <2>4. CASE IoStops(n)
    <3>1. /\ net[n] = "last" /\ net' = [net EXCEPT ![n] = "free"] /\ io' = FALSE
          /\ UNCHANGED <<main, syncVars, shut, sig, engine, link>>
      BY <2>4 DEF IoStops, Go, poolVars, nodeVars
    <3>2. engine = "done"
      BY <3>1 DEF ThreadInv, StopInv
    <3>. QED  BY <1>a, <3>1, <3>2, NetMoves
  <2>5. CASE NetLeaves(n)
    <3>1. /\ net[n] = "free" /\ ~io /\ net' = [net EXCEPT ![n] = "gone"]
          /\ UNCHANGED <<main, syncVars, shut, sig, io, engine, link>>
      BY <2>5 DEF NetLeaves, Go, poolVars, mainVars, nodeVars
    <3>. QED  BY <1>a, <3>1, NetMoves
  <2>. QED  BY <1>4, <2>1, <2>2, <2>3, <2>4, <2>5 DEF NetStep
<1>5. ASSUME NEW n \in Net, SignalTaken(n) \/ Dial(n) PROVE ThreadInv'
  <2>1. CASE SignalTaken(n)
    <3>1. /\ net[n] = "free" /\ net' = [net EXCEPT ![n] = "signal"]
          /\ sig /\ engine = "no" /\ engine' = "pool"
          /\ UNCHANGED <<main, syncVars, shut, sig, io, link>>
      BY <2>1 DEF SignalTaken, Free, Go, poolVars, nodeVars
    <3>. QED  BY <1>a, <3>1, NetMoves
  <2>2. CASE Dial(n)
    <3>1. /\ net[n] = "free" /\ net' = [net EXCEPT ![n] = "dialing"] /\ link' = "idle"
          /\ UNCHANGED <<main, syncVars, shut, sig, io, engine>>
      BY <2>2 DEF Dial, Free, Go, poolVars, mainVars
    <3>. QED  BY <1>a, <3>1, NetMoves
  <2>. QED  BY <1>5, <2>1, <2>2
<1>6. ASSUME NEW n \in Net, NEW r \in Heavy, Dispatch(n, r) PROVE ThreadInv'
  <2>1. /\ net[n] = "free" /\ (net' = net \/ net' = [net EXCEPT ![n] = r])
        /\ UNCHANGED <<main, syncVars, shut, sig, io, engine, link>>
    BY <1>6 DEF Dispatch, Free, Go, Pool!Submit, mainVars, nodeVars
  <2>2. CASE net' = net
    BY <1>a, <2>1, <2>2, EngineMoves DEF syncVars
  <2>3. CASE net' = [net EXCEPT ![n] = r]
    <3>1. r \notin {"none", "free", "dialing", "signal", "last", "gone"}
      BY <1>b
    <3>. QED  BY <1>a, <2>1, <2>3, <3>1, NetMoves
  <2>. QED  BY <2>1, <2>2, <2>3
<1>7. ASSUME NEW n \in Net, NEW a, NEW q,
             LinkLost(n) \/ Reply(n, a) \/ Timeout(a) \/ Proxy(n, q) \/ ProxyAnswers(q)
      PROVE  ThreadInv'
  <2>1. /\ UNCHANGED <<main, io, engine, sig, net, sync, apply, shut>>
        /\ link' \in {link, "idle"} /\ ready' \in {ready, FALSE}
    BY <1>7 DEF LinkLost, Reply, Timeout, Proxy, ProxyAnswers, poolVars, mainVars, syncVars
  <2>. QED  BY <1>a, <2>1, EngineMoves
<1>8. ASSUME NEW w \in Worker, WorkerMoves(w) \/ SpuriousWake(w) PROVE ThreadInv'
  <2>1. UNCHANGED <<main, io, engine, sig, net, sync, apply, ready, link>>
    BY <1>8 DEF WorkerMoves, SpuriousWake, mainVars, nodeVars, syncVars
  <2>. QED  BY <1>0, <1>a, <2>1, EngineMoves
<1>9. CASE UNCHANGED vars
  BY <1>a, <1>9, EngineMoves DEF vars, poolVars, mainVars, nodeVars, syncVars
<1>11. ASSUME NEW n \in Net, ApplyDrains \/ ApplyLeaves \/ StreamMessage(n)
       PROVE  ThreadInv'
  <2>1. /\ UNCHANGED <<main, io, engine, sig, net, sync, ready, shut, link>>
        /\ apply \in {"idle", "queued"} /\ apply' \in {"idle", "queued", "gone"}
    BY <1>11, ApplyKeeps DEF poolVars, mainVars
  <2>. QED  BY <1>a, <2>1, EngineMoves
<1>10. PICK n \in Net : TRUE
  BY ProcessAssumption
<1>. QED  BY <1>1, <1>2, <1>3, <1>4, <1>5, <1>6, <1>7, <1>8, <1>9, <1>10, <1>11 DEF Next
-----------------------------------------------------------------------------
(* The requests: types. *)

Settlement == Unsettled \cup {"none", "value", "error"}

LEMMA Asks ==
  ASSUME pend \in [Asker -> Settlement],
         \/ pend' = pend
         \/ pend' = Failed
         \/ \E a \in Asker : Ask(a)
         \/ \E a \in Asker : \E v \in Settlement :
              pend' = [pend EXCEPT ![a] = v] \/ pend' = [Failed EXCEPT ![a] = v]
  PROVE  pend' \in [Asker -> Settlement]
<1>1. Failed \in [Asker -> Settlement]
  BY DEF Failed, Settlement, Unsettled
<1>2. ASSUME NEW a \in Asker, Ask(a) PROVE pend' \in [Asker -> Settlement]
  BY <1>2 DEF Ask, Settlement, Unsettled
<1>. QED  BY <1>1, <1>2

LEMMA AskStep == ASSUME PoolInv, AskTypes, [Next]_vars PROVE AskTypes'
<1>1. /\ pend \in [Asker -> Settlement] /\ place \in [Request -> {"new", "in", "answered"}]
      /\ held \in [Worker -> Heavy \cup {NoJob}] /\ NoJob \notin Heavy
  BY ProcessAssumption DEF AskTypes, Settlement, PoolInv, PoolTypes
<1>2. {"none", "value", "error"} \subseteq Settlement /\ {Main, Sync} \subseteq Asker
      /\ Proxied \subseteq Asker /\ Proxied \subseteq Request /\ Heavy \subseteq Request
  BY DEF Settlement, Asker, Request
<1>3. ASSUME pend' \in [Asker -> Settlement], place' \in [Request -> {"new", "in", "answered"}]
      PROVE  AskTypes'
  BY <1>3 DEF AskTypes, Settlement, Unsettled
<1>4. CASE MainStep
  <2>1. place' = place
    BY <1>4 DEF MainStep, Start, Connected, ConnectDeadline, GiveUp, UpstreamOk, UpstreamBad,
                GaveUp, Listen, Unwound, Joined, Exit
  <2>2. pend' = pend \/ Ask(Main) \/ pend' = [pend EXCEPT ![Main] = "none"]
          \/ pend' = [Failed EXCEPT ![Main] = "none"]
    BY <1>4 DEF MainStep, Start, Connected, ConnectDeadline, GiveUp, UpstreamOk, UpstreamBad,
                GaveUp, Listen, Unwound, Joined, Exit, nodeVars
  <2>. QED  BY <1>1, <1>2, <1>3, <2>1, <2>2, Asks
<1>5. CASE SyncStep
  <2>1. place' = place
    BY <1>5 DEF SyncStep, SyncStops, SyncAsks, SyncAnswered, SyncFailed, SyncResyncs, SyncKeeps
  <2>2. pend' = pend \/ Ask(Sync) \/ pend' = [pend EXCEPT ![Sync] = "none"]
          \/ pend' = [Failed EXCEPT ![Sync] = "none"]
    BY <1>5 DEF SyncStep, SyncStops, SyncAsks, SyncAnswered, SyncFailed, SyncResyncs, Redial
  <2>. QED  BY <1>1, <1>2, <1>3, <2>1, <2>2, Asks
<1>6. CASE StopStep \/ Signal
  BY <1>1, <1>3, <1>6
     DEF StopStep, PoolStops, PoolJoined, SyncJoined, ApplyJoined, Signal, nodeVars
<1>7. ASSUME NEW n \in Net,
             NetStep(n) \/ SignalTaken(n) \/ Dial(n) \/ LinkLost(n)
      PROVE  AskTypes'
  <2>1. place' = place /\ (pend' = pend \/ pend' = Failed)
    BY <1>7 DEF NetStep, Dialed, DispatchEnds, NodeStops, IoStops, NetLeaves, SignalTaken,
                Dial, LinkLost, nodeVars
  <2>. QED  BY <1>1, <1>3, <2>1, Asks
<1>8. ASSUME NEW n \in Net, NEW a \in Asker, Reply(n, a) \/ Timeout(a)
      PROVE  AskTypes'
  <2>1. /\ place' = place
        /\ pend' = [pend EXCEPT ![a] = "value"] \/ pend' = [pend EXCEPT ![a] = "error"]
    BY <1>8 DEF Reply, Timeout
  <2>. QED  BY <1>1, <1>2, <1>3, <2>1, Asks
<1>9. ASSUME NEW n \in Net, NEW r \in Heavy, Dispatch(n, r) PROVE AskTypes'
  <2>1. pend' = pend
    BY <1>9 DEF Dispatch, nodeVars
  <2>2. \/ place' = [place EXCEPT ![r] = "answered"]
        \/ place' = [place EXCEPT ![r] = "in"]
    BY <1>9 DEF Dispatch, TakeOrRefuse, Answer, Take
  <2>. QED  BY <1>1, <1>3, <2>1, <2>2
<1>10. ASSUME NEW n \in Net, NEW q \in Proxied, Proxy(n, q) \/ ProxyAnswers(q) PROVE AskTypes'
  <2>1. Ask(q) \/ pend' = [pend EXCEPT ![q] = "none"]
    BY <1>10 DEF Proxy, ProxyAnswers
  <2>2. \/ place' = [place EXCEPT ![q] = "answered"]
        \/ place' = [place EXCEPT ![q] = "in"]
    BY <1>10 DEF Proxy, ProxyAnswers, Answer, Take
  <2>3. pend' \in [Asker -> Settlement]
    BY <1>1, <1>2, <2>1, Asks
  <2>. QED  BY <1>1, <1>3, <2>2, <2>3
<1>11. ASSUME NEW w \in Worker, WorkerMoves(w) \/ SpuriousWake(w) PROVE AskTypes'
  <2>1. pend' = pend /\ (place' = place \/ place' = [place EXCEPT ![held[w]] = "answered"])
    BY <1>11 DEF WorkerMoves, SpuriousWake, Answer, nodeVars
  <2>. QED  BY <1>1, <1>3, <2>1
<1>12. CASE UNCHANGED vars
  BY <1>1, <1>3, <1>12 DEF vars, nodeVars
<1>13. ASSUME NEW n \in Net, ApplyDrains \/ ApplyLeaves \/ StreamMessage(n)
       PROVE  AskTypes'
  BY <1>1, <1>3, <1>13, ApplyKeeps
<1>14. PICK n \in Net : TRUE
  BY ProcessAssumption
<1>. QED  BY <1>4, <1>5, <1>6, <1>7, <1>8, <1>9, <1>10, <1>11, <1>12, <1>13, <1>14 DEF Next

-----------------------------------------------------------------------------
(* NobodyWaitsInVain, from five invariants.                                *)

(* A network thread that is in a submit() has still to notify, and no      *)
(* other thread is in the same one.                                        *)
CallerInv ==
  \A n \in Net : net[n] \in Heavy =>
    /\ spc[net[n]] = "notify"
    /\ \A m \in Net : net[m] = net[n] => m = n

(* A queued job has an awake worker or a caller that is still to notify,   *)
(* and no worker sleeps once shutdown() has notified all.                  *)
Awake(w) == wpc[w] \in {"check", "run", "count"}

WakeInv ==
  /\ jobs # << >> => \/ \E w \in Worker : Awake(w)
                     \/ \E n \in Net : net[n] \in Heavy
  /\ \A w \in Worker : wpc[w] = "wait" /\ stop => shut = "notify"

(* A path request that is in was accepted and has not been run; one that   *)
(* was not submitted is not in.                                            *)
InInv ==
  \A r \in Heavy : place[r] = "in" => spc[r] \in {"notify", "returned"} /\ runs[r] = 0

(* Who waits for the node has asked it. *)
AskedInv ==
  /\ \A q \in Proxied : place[q] = "in" => pend[q] # "none"
  /\ main = "ask" => pend[Main] # "none"
  /\ sync = "ask" => pend[Sync] # "none"

(* A start that gave up has stopped the io_context, and a stop in service  *)
(* has its handler on a network thread until it has.                       *)
HandlerInv ==
  /\ main = "quit" => ~io
  /\ main = "serve" => \/ engine = "no" \/ ~io
                       \/ \E n \in Net : net[n] \in {"signal", "last"}

WaitInv == CallerInv /\ WakeInv /\ InInv /\ AskedInv /\ HandlerInv

LEMMA WaitInit == Init => WaitInv
<1>. SUFFICES ASSUME Init PROVE WaitInv
  OBVIOUS
<1>1. /\ \A n \in Net : net[n] \notin Heavy
      /\ jobs = << >> /\ stop = FALSE /\ main = "new" /\ sync = "none"
  BY ProcessAssumption DEF Init, Pool!Init
<1>2. \A r \in Heavy \cup Proxied : place[r] = "new"
  BY DEF Init, Request
<1>. QED  BY <1>1, <1>2 DEF WaitInv, CallerInv, WakeInv, InInv, AskedInv, HandlerInv

(* What is ahead of a job, read off its caller and its runs. *)
LEMMA AheadOf ==
  ASSUME PoolInv, NEW r \in Heavy, spc[r] \in {"notify", "returned"}, runs[r] = 0
  PROVE  Ahead(r)
BY DEF PoolInv, RunsInv, Pool!Accepted

LEMMA WaitMeans == PoolInv /\ ThreadInv /\ WaitInv => NobodyWaitsInVain
<1>. SUFFICES ASSUME PoolInv, ThreadInv, WaitInv PROVE NobodyWaitsInVain
  OBVIOUS
<1>1. jobs # << >> =>
        \/ \E w \in Worker : wpc[w] \in {"check", "run", "count"}
        \/ \E n \in Net : net[n] \in Heavy /\ spc[net[n]] = "notify"
  BY DEF WaitInv, CallerInv, WakeInv, Awake
<1>2. ASSUME NEW r \in Heavy, place[r] = "in"
      PROVE  \/ \E i \in 1 .. Len(jobs) : jobs[i] = r
             \/ \E w \in Worker : held[w] = r /\ wpc[w] = "run"
  <2>1. Ahead(r)
    BY <1>2, AheadOf DEF WaitInv, InInv
  <2>. QED  BY <2>1 DEF Ahead, InQueue
<1>3. engine # "no" => sync # "none" /\ apply # "none"
  BY DEF ThreadInv, MainInv, ThreadTypes
<1>4. shut \in {"join", "cleared"} => \A w \in Worker : wpc[w] # "wait"
  BY DEF PoolInv, EndInv, WaitInv, WakeInv
<1>. QED  BY <1>1, <1>2, <1>3, <1>4 DEF NobodyWaitsInVain, WaitInv, WakeInv, AskedInv, HandlerInv

(* The steps that leave the pool alone leave the callers of submit() where *)
(* they are.                                                               *)
CallersStay == \A n \in Net : net[n] \in Heavy \/ net'[n] \in Heavy => net'[n] = net[n]

LEMMA Moved ==
  ASSUME ThreadTypes, NEW n \in Net, NEW to, to \notin Heavy, net[n] \notin Heavy,
         net' = [net EXCEPT ![n] = to]
  PROVE  CallersStay
BY DEF ThreadTypes, CallersStay

LEMMA OthersStay ==
  ASSUME ThreadInv, [Next]_vars
  PROVE  \/ Quiet /\ CallersStay
         \/ /\ net' = net
            /\ \/ PoolStops \/ PoolJoined
               \/ \E w \in Worker : WorkerMoves(w) \/ SpuriousWake(w)
         \/ \E n \in Net, r \in Heavy : Dispatch(n, r)
         \/ \E n \in Net : DispatchEnds(n)
<1>0. /\ ThreadTypes
      /\ \A to \in {"none", "free", "dialing", "signal", "last", "gone"} : to \notin Heavy
  BY ProcessAssumption DEF ThreadInv
<1>1. ASSUME net' = net PROVE CallersStay
  BY <1>1 DEF CallersStay
<1>2. CASE MainStep
  <2>1. CASE Start
    <3>1. CASE net' = net
      BY <1>1, <1>2, <3>1, MainKeepsPool
    <3>2. CASE \E started \in SUBSET Net :
                 net' = [n \in Net |-> IF n \in started THEN "free" ELSE "none"]
      <4>1. \A n \in Net : net[n] = "none"
        BY <2>1 DEF Start, ThreadInv, MainInv
      <4>2. \A n \in Net : net'[n] \in {"free", "none"}
        BY <3>2
      <4>3. CallersStay
        BY <1>0, <4>1, <4>2 DEF CallersStay
      <4>. QED  BY <1>2, <4>3, MainKeepsPool
    <3>. QED  BY <2>1, <3>1, <3>2 DEF Start
  <2>2. CASE ~Start
    <3>1. net' = net
      BY <1>2, <2>2 DEF MainStep, Connected, ConnectDeadline, GiveUp, UpstreamOk,
                        UpstreamBad, GaveUp, Listen, Unwound, Joined, Exit
    <3>. QED  BY <1>1, <1>2, <3>1, MainKeepsPool
  <2>. QED  BY <2>1, <2>2
<1>3. CASE SyncStep
  <2>1. net' = net
    BY <1>3 DEF SyncStep, SyncStops, SyncAsks, SyncAnswered, SyncFailed, SyncResyncs, SyncKeeps
  <2>. QED  BY <1>1, <1>3, <2>1, MainKeepsPool
<1>4. CASE StopStep
  BY <1>1, <1>4 DEF StopStep, PoolStops, PoolJoined, SyncJoined, ApplyJoined, Quiet
<1>5. CASE Signal \/ (\E a \in Asker : Timeout(a)) \/ \E q \in Proxied : ProxyAnswers(q)
  BY <1>1, <1>5 DEF Signal, Timeout, ProxyAnswers, Quiet
<1>6. ASSUME NEW n \in Net,
             \/ LinkLost(n)
             \/ \E a \in Asker : Reply(n, a)
             \/ \E q \in Proxied : Proxy(n, q)
      PROVE  Quiet /\ CallersStay
  BY <1>1, <1>6 DEF LinkLost, Reply, Proxy, Quiet
<1>7. ASSUME NEW n \in Net,
             \/ SignalTaken(n) \/ Dial(n) \/ Dialed(n) \/ NodeStops(n) \/ IoStops(n)
             \/ NetLeaves(n)
      PROVE  Quiet /\ CallersStay
  <2>1. Quiet
    BY <1>7, OthersKeepPool
  <2>2. \E to \in {"none", "free", "dialing", "signal", "last", "gone"} :
          net' = [net EXCEPT ![n] = to]
    BY <1>7 DEF SignalTaken, Dial, Dialed, NodeStops, IoStops, NetLeaves, Go
  <2>3. net[n] \in {"none", "free", "dialing", "signal", "last", "gone"}
    BY <1>7 DEF SignalTaken, Dial, Dialed, NodeStops, IoStops, NetLeaves, Free
  <2>. QED  BY <1>0, <2>1, <2>2, <2>3, Moved
<1>8. ASSUME NEW w \in Worker, WorkerMoves(w) \/ SpuriousWake(w) PROVE net' = net
  BY <1>8 DEF WorkerMoves, SpuriousWake
<1>9. CASE UNCHANGED vars
  BY <1>1, <1>9 DEF vars, Quiet
<1>10. ASSUME NEW n \in Net, ApplyDrains \/ ApplyLeaves \/ StreamMessage(n)
       PROVE  Quiet /\ CallersStay
  BY <1>1, <1>10, ApplyKeeps DEF Quiet
<1>11. PICK n \in Net : TRUE
  BY ProcessAssumption
<1>. QED  BY <1>2, <1>3, <1>4, <1>5, <1>6, <1>7, <1>8, <1>9, <1>10, <1>11 DEF Next, NetStep

LEMMA CallerStep ==
  ASSUME PoolInv, ThreadInv, CallerInv, [Next]_vars PROVE CallerInv'
<1>0. /\ net \in [Net -> Heavy \cup {"none", "free", "dialing", "signal", "last", "gone"}]
      /\ spc \in [Heavy -> {"new", "notify", "returned", "refused"}]
      /\ "free" \notin Heavy
  BY ProcessAssumption DEF PoolInv, PoolTypes, ThreadInv, ThreadTypes
<1>1. ASSUME CallersStay, spc' = spc PROVE CallerInv'
  BY <1>1 DEF CallersStay, CallerInv
<1>2. CASE Quiet /\ CallersStay
  BY <1>1, <1>2 DEF Quiet, poolVars
<1>3. ASSUME net' = net,
             \/ PoolStops \/ PoolJoined
             \/ \E w \in Worker : WorkerMoves(w) \/ SpuriousWake(w)
      PROVE  CallerInv'
  <2>1. spc' = spc
    BY <1>3 DEF PoolStops, PoolJoined, Pool!Shutdown, Pool!NotifyAll, Pool!Join, WorkerMoves,
                SpuriousWake, Pool!WorkerWait, Pool!WorkerExit, Pool!WorkerTake,
                Pool!WorkerRun, Pool!WorkerCount, Pool!SpuriousWake
  <2>. QED  BY <1>1, <1>3, <2>1 DEF CallersStay
<1>4. ASSUME NEW n \in Net, NEW r \in Heavy, Dispatch(n, r) PROVE CallerInv'
  <2>1. /\ spc[r] = "new" /\ net[n] = "free"
        /\ IF stop THEN spc' = [spc EXCEPT ![r] = "refused"] /\ net' = net
           ELSE spc' = [spc EXCEPT ![r] = "notify"] /\ net' = [net EXCEPT ![n] = r]
    BY <1>4 DEF Dispatch, Free, Go, Pool!Submit
  <2>2. \A m \in Net : net[m] # r
    BY <2>1 DEF CallerInv
  <2>3. CASE stop
    BY <1>0, <2>1, <2>2, <2>3 DEF CallerInv
  <2>4. CASE ~stop
    <3>1. /\ spc'[r] = "notify" /\ \A x \in Heavy : x # r => spc'[x] = spc[x]
          /\ net'[n] = r /\ \A m \in Net : m # n => net'[m] = net[m]
      BY <1>0, <2>1, <2>4
    <3>. QED  BY <2>2, <3>1 DEF CallerInv
  <2>. QED  BY <2>3, <2>4
<1>5. ASSUME NEW n \in Net, DispatchEnds(n) PROVE CallerInv'
  <2>1. /\ net[n] \in Heavy /\ spc' = [spc EXCEPT ![net[n]] = "returned"]
        /\ net' = [net EXCEPT ![n] = "free"]
    BY <1>5 DEF DispatchEnds, Go, Pool!NotifyOne
  <2>2. /\ \A x \in Heavy : x # net[n] => spc'[x] = spc[x]
        /\ net'[n] = "free" /\ \A m \in Net : m # n => net'[m] = net[m]
    BY <1>0, <2>1
  <2>3. \A m \in Net : m # n => net[m] # net[n]
    BY <2>1 DEF CallerInv
  <2>. QED  BY <1>0, <2>2, <2>3 DEF CallerInv
<1>. QED  BY <1>2, <1>3, <1>4, <1>5, OthersStay

(* notify_one finds a waiter, or everybody is awake while there is a job.  *)
LEMMA WakeStep ==
  ASSUME PoolInv, ThreadInv, CallerInv, WakeInv, [Next]_vars PROVE WakeInv'
<1>0. /\ wpc \in [Worker -> {"check", "wait", "run", "count", "exit"}]
      /\ net \in [Net -> Heavy \cup {"none", "free", "dialing", "signal", "last", "gone"}]
      /\ \A w \in Worker : wpc[w] = "exit" => stop /\ jobs = << >>
      /\ Worker # {} /\ PoolTypes
  BY ProcessAssumption DEF PoolInv, PoolTypes, EndInv, ThreadInv, ThreadTypes
<1>1. ASSUME CallersStay, jobs' = jobs \/ jobs' = << >>,
             \A w \in Worker : Awake(w) => Awake(w)',
             \A w \in Worker : wpc'[w] = "wait" /\ stop' => shut' = "notify"
      PROVE  WakeInv'
  BY <1>1 DEF CallersStay, WakeInv
<1>2. CASE Quiet /\ CallersStay
  <2>1. UNCHANGED <<jobs, stop, wpc, shut>> /\ CallersStay
    BY <1>2 DEF Quiet, poolVars
  <2>2. \A w \in Worker : Awake(w) => Awake(w)'
    BY <2>1 DEF Awake
  <2>. QED  BY <1>1, <2>1, <2>2 DEF WakeInv
<1>3. ASSUME net' = net, PoolStops \/ PoolJoined PROVE WakeInv'
  <2>1. CASE Pool!Shutdown \/ Pool!Join
    <3>1. /\ UNCHANGED <<jobs, wpc>>
          /\ shut' = "notify" \/ (shut = "join" /\ stop' = stop)
      BY <2>1 DEF Pool!Shutdown, Pool!Join, Pool!workerVars
    <3>2. \A w \in Worker : Awake(w) => Awake(w)'
      BY <3>1 DEF Awake
    <3>. QED  BY <1>1, <1>3, <3>1, <3>2 DEF WakeInv, CallersStay
  <2>2. CASE Pool!NotifyAll
    <3>1. /\ jobs' = jobs
          /\ \A w \in Worker : wpc'[w] = IF wpc[w] = "wait" THEN "check" ELSE wpc[w]
      BY <2>2 DEF Pool!NotifyAll, Pool!NotifyEvery, Pool!Wake, Pool!Waiting
    <3>2. \A w \in Worker : (Awake(w) => Awake(w)') /\ wpc'[w] # "wait"
      BY <3>1 DEF Awake
    <3>. QED  BY <1>1, <1>3, <3>1, <3>2 DEF CallersStay
  <2>. QED  BY <1>3, <2>1, <2>2 DEF PoolStops, PoolJoined
<1>4. ASSUME NEW w \in Worker, net' = net, WorkerMoves(w) \/ SpuriousWake(w)
      PROVE  WakeInv'
  <2>1. CallersStay /\ UNCHANGED <<stop, shut>>
    BY <1>4 DEF CallersStay, WorkerMoves, SpuriousWake, Pool!WorkerWait, Pool!WorkerExit,
                Pool!WorkerTake, Pool!WorkerRun, Pool!WorkerCount, Pool!SpuriousWake
  <2>2. CASE Pool!WorkerWait(w)
    <3>1. jobs = << >> /\ jobs' = jobs /\ ~stop /\ wpc' = [wpc EXCEPT ![w] = "wait"]
      BY <2>2 DEF Pool!WorkerWait
    <3>. QED  BY <2>1, <3>1 DEF WakeInv
  <2>3. CASE Pool!WorkerExit(w)
    <3>1. jobs = << >> /\ jobs' = jobs /\ wpc' = [wpc EXCEPT ![w] = "exit"]
      BY <2>3 DEF Pool!WorkerExit, Pool!MayLeave
    <3>2. \A v \in Worker : wpc'[v] = "wait" => wpc[v] = "wait"
      BY <1>0, <3>1
    <3>. QED  BY <2>1, <3>1, <3>2 DEF WakeInv
  <2>4. CASE Pool!WorkerTake(w) \/ Pool!WorkerRun(w) \/ Pool!WorkerCount(w)
    <3>1. wpc'[w] \in {"check", "run", "count"}
          /\ \A v \in Worker : v # w => wpc'[v] = wpc[v]
      BY <1>0, <2>4 DEF Pool!WorkerTake, Pool!WorkerRun, Pool!WorkerCount
    <3>2. Awake(w)'
      BY <3>1 DEF Awake
    <3>3. \A v \in Worker : wpc'[v] = "wait" => wpc[v] = "wait"
      BY <3>1
    <3>. QED  BY <2>1, <3>2, <3>3 DEF WakeInv
  <2>5. CASE Pool!SpuriousWake(w)
    <3>1. /\ jobs' = jobs
          /\ \A v \in Worker : wpc'[v] = IF v = w THEN "check" ELSE wpc[v]
      BY <2>5 DEF Pool!SpuriousWake, Pool!Wake
    <3>2. \A v \in Worker : (Awake(v) => Awake(v)') /\ (wpc'[v] = "wait" => wpc[v] = "wait")
      BY <3>1 DEF Awake
    <3>. QED  BY <1>1, <2>1, <3>1, <3>2 DEF WakeInv
  <2>. QED  BY <1>4, <2>2, <2>3, <2>4, <2>5 DEF WorkerMoves, SpuriousWake
<1>5. ASSUME NEW n \in Net, NEW r \in Heavy, Dispatch(n, r) PROVE WakeInv'
  <2>1. /\ net[n] = "free" /\ UNCHANGED <<stop, shut, wpc>>
        /\ IF stop THEN jobs' = jobs /\ net' = net ELSE net' = [net EXCEPT ![n] = r]
    BY <1>5 DEF Dispatch, Free, Go, Pool!Submit, Pool!workerVars
  <2>2. CASE stop
    <3>1. \A w \in Worker : Awake(w) => Awake(w)'
      BY <2>1 DEF Awake
    <3>. QED  BY <1>1, <2>1, <2>2, <3>1 DEF WakeInv, CallersStay
  <2>3. CASE ~stop
    <3>1. net'[n] \in Heavy
      BY <1>0, <2>1, <2>3
    <3>. QED  BY <2>1, <3>1 DEF WakeInv
  <2>. QED  BY <2>2, <2>3
<1>6. ASSUME NEW n \in Net, DispatchEnds(n) PROVE WakeInv'
  <2>1. UNCHANGED <<jobs, stop, shut>> /\ Pool!NotifyWaiter(net[n])
    BY <1>6 DEF DispatchEnds, Pool!NotifyOne
  <2>2. CASE Pool!Waiting = {}
    <3>1. wpc' = wpc
      BY <2>1, <2>2 DEF Pool!NotifyWaiter
    <3>2. \A w \in Worker : wpc[w] # "wait"
      BY <2>2 DEF Pool!Waiting
    <3>3. jobs # << >> => \A w \in Worker : Awake(w)'
      BY <1>0, <3>1, <3>2 DEF Awake
    <3>. QED  BY <1>0, <2>1, <3>1, <3>2, <3>3 DEF WakeInv
  <2>3. CASE Pool!Waiting # {}
    <3>1. PICK w \in Pool!Waiting : Pool!Wake({w})
      BY <2>1, <2>3 DEF Pool!NotifyWaiter
    <3>2. w \in Worker /\ \A v \in Worker : wpc'[v] = IF v = w THEN "check" ELSE wpc[v]
      BY <3>1 DEF Pool!Wake, Pool!Waiting
    <3>3. Awake(w)' /\ \A v \in Worker : wpc'[v] = "wait" => wpc[v] = "wait"
      BY <3>2 DEF Awake
    <3>. QED  BY <2>1, <3>2, <3>3 DEF WakeInv
  <2>. QED  BY <2>2, <2>3
<1>. QED  BY <1>2, <1>3, <1>4, <1>5, <1>6, OthersStay

LEMMA InStep ==
  ASSUME PoolInv, AskTypes, InInv, [Next]_vars PROVE InInv'
<1>0. /\ spc \in [Heavy -> {"new", "notify", "returned", "refused"}]
      /\ runs \in [Heavy -> Nat] /\ held \in [Worker -> Heavy \cup {NoJob}]
      /\ NoJob \notin Heavy /\ Heavy \cap Proxied = {}
      /\ place \in [Request -> {"new", "in", "answered"}]
      /\ Heavy \subseteq Request /\ Proxied \subseteq Request
  BY ProcessAssumption DEF PoolInv, PoolTypes, AskTypes, Request
<1>1. ASSUME \A r \in Heavy :
               place'[r] = "in" =>
                 /\ place[r] = "in" /\ runs'[r] = runs[r]
                 /\ spc'[r] = spc[r] \/ spc'[r] = "returned"
      PROVE  InInv'
  BY <1>1 DEF InInv
<1>2. CASE Quiet /\ place' = place
  BY <1>1, <1>2 DEF Quiet, poolVars
<1>3. CASE MainStep \/ SyncStep
  <2>1. place' = place
    BY <1>3 DEF MainStep, Start, Connected, ConnectDeadline, GiveUp, UpstreamOk, UpstreamBad,
                GaveUp, Listen, Unwound, Joined, Exit, SyncStep, SyncStops, SyncAsks,
                SyncAnswered, SyncFailed, SyncResyncs, SyncKeeps
  <2>. QED  BY <1>2, <1>3, <2>1, MainKeepsPool
<1>4. CASE StopStep \/ Signal
  <2>1. UNCHANGED <<place, spc, runs>>
    BY <1>4 DEF StopStep, PoolStops, PoolJoined, SyncJoined, ApplyJoined, Signal, poolVars,
                Pool!Shutdown, Pool!NotifyAll, Pool!Join, Pool!workerVars
  <2>. QED  BY <1>1, <2>1
<1>5. ASSUME NEW n \in Net,
             \/ SignalTaken(n) \/ Dial(n) \/ Dialed(n) \/ LinkLost(n) \/ NodeStops(n)
             \/ IoStops(n) \/ NetLeaves(n) \/ \E a \in Asker : Reply(n, a) \/ Timeout(a)
      PROVE  InInv'
  <2>1. UNCHANGED <<place, spc, runs>>
    BY <1>5 DEF SignalTaken, Dial, Dialed, LinkLost, NodeStops, IoStops, NetLeaves, Reply,
                Timeout, poolVars
  <2>. QED  BY <1>1, <2>1
<1>6. ASSUME NEW n \in Net, DispatchEnds(n) PROVE InInv'
  <2>1. /\ net[n] \in Heavy /\ spc' = [spc EXCEPT ![net[n]] = "returned"]
        /\ UNCHANGED <<place, runs>>
    BY <1>6 DEF DispatchEnds, Pool!NotifyOne
  <2>. QED  BY <1>0, <1>1, <2>1
<1>7. ASSUME NEW n \in Net, NEW r \in Heavy, Dispatch(n, r) PROVE InInv'
  <2>1. /\ runs' = runs /\ runs[r] = 0
        /\ IF stop THEN /\ spc' = [spc EXCEPT ![r] = "refused"]
                        /\ place' = [place EXCEPT ![r] = "answered"]
           ELSE spc' = [spc EXCEPT ![r] = "notify"] /\ place' = [place EXCEPT ![r] = "in"]
    BY <1>7 DEF Dispatch, Pool!Submit, Pool!workerVars, TakeOrRefuse, Answer, Take, PoolInv,
                RunsInv, Pool!Accepted
  <2>2. \A x \in Heavy : x # r => spc'[x] = spc[x] /\ place'[x] = place[x]
    BY <1>0, <2>1
  <2>3. place'[r] = "in" => spc'[r] = "notify"
    BY <1>0, <2>1
  <2>. QED  BY <2>1, <2>2, <2>3 DEF InInv
<1>8. ASSUME NEW q \in Proxied, (\E n \in Net : Proxy(n, q)) \/ ProxyAnswers(q)
      PROVE  InInv'
  <2>1. UNCHANGED <<spc, runs>> /\ \E x : place' = [place EXCEPT ![q] = x]
    BY <1>8 DEF Proxy, ProxyAnswers, Answer, Take, poolVars
  <2>2. \A r \in Heavy : place'[r] = place[r]
    BY <1>0, <2>1
  <2>. QED  BY <1>1, <2>1, <2>2
<1>9. ASSUME NEW w \in Worker, WorkerMoves(w) \/ SpuriousWake(w) PROVE InInv'
  <2>1. CASE Pool!WorkerRun(w) /\ Answer(held[w])
    <3>1. /\ spc' = spc /\ held[w] \in Heavy
          /\ runs' = [runs EXCEPT ![held[w]] = @ + 1]
          /\ place' = [place EXCEPT ![held[w]] = "answered"]
      BY <1>0, <2>1 DEF Pool!WorkerRun, Answer, PoolInv, HeldInv
    <3>2. place'[held[w]] = "answered"
      BY <1>0, <3>1
    <3>3. \A r \in Heavy : r # held[w] => runs'[r] = runs[r] /\ place'[r] = place[r]
      BY <1>0, <3>1
    <3>. QED  BY <1>1, <3>1, <3>2, <3>3
  <2>2. CASE ~Pool!WorkerRun(w)
    <3>1. UNCHANGED <<place, spc, runs>>
      BY <1>9, <2>2 DEF WorkerMoves, SpuriousWake, Pool!WorkerWait, Pool!WorkerExit,
                        Pool!WorkerTake, Pool!WorkerCount, Pool!SpuriousWake
    <3>. QED  BY <1>1, <3>1
  <2>3. CASE Pool!WorkerRun(w) /\ ~Answer(held[w])
    <3>1. wpc[w] = "run" /\ wpc'[w] = "count"
      BY <2>3 DEF Pool!WorkerRun, PoolInv, PoolTypes
    <3>2. UNCHANGED <<place, spc, runs>>
      BY <1>9, <2>3, <3>1
         DEF WorkerMoves, SpuriousWake, Pool!WorkerWait, Pool!WorkerExit, Pool!WorkerTake,
             Pool!WorkerCount, Pool!SpuriousWake, Pool!Waiting
    <3>. QED  BY <1>1, <3>2
  <2>. QED  BY <2>1, <2>2, <2>3
<1>10. CASE UNCHANGED vars
  BY <1>2, <1>10 DEF vars, Quiet
<1>11. ASSUME NEW n \in Net, ApplyDrains \/ ApplyLeaves \/ StreamMessage(n)
       PROVE  InInv'
  BY <1>2, <1>11, ApplyKeeps DEF Quiet
<1>12. PICK n \in Net : TRUE
  BY ProcessAssumption
<1>. QED  BY <1>3, <1>4, <1>5, <1>6, <1>7, <1>8, <1>9, <1>10, <1>11, <1>12 DEF Next, NetStep

(* Only who has an answer puts its request away, and goes on.              *)
LEMMA AskedStep ==
  ASSUME PoolInv, AskTypes, AskedInv, [Next]_vars PROVE AskedInv'
<1>0. /\ pend \in [Asker -> Settlement] /\ place \in [Request -> {"new", "in", "answered"}]
      /\ held \in [Worker -> Heavy \cup {NoJob}] /\ Heavy \cap Proxied = {} /\ NoJob \notin Heavy
      /\ Main \in Asker /\ Sync \in Asker /\ Main # Sync /\ {Main, Sync} \cap Proxied = {}
      /\ Heavy \subseteq Request /\ Proxied \subseteq Request /\ Proxied \subseteq Asker
  BY ProcessAssumption DEF AskTypes, Settlement, PoolInv, PoolTypes, Asker, Request
<1>1. \A a \in Asker : pend[a] # "none" => Failed[a] # "none"
  BY DEF Failed
<1>2. Failed \in [Asker -> Settlement]
  BY <1>0 DEF Failed, Settlement, Unsettled
<1>3. ASSUME NEW a \in Asker, Ask(a)
      PROVE  pend'[a] # "none" /\ \A b \in Asker : b # a => pend'[b] = pend[b]
  BY <1>0, <1>3 DEF Ask
<1>4. ASSUME \A a \in Asker : pend[a] # "none" => pend'[a] # "none",
             \A q \in Proxied : place'[q] = "in" => place[q] = "in",
             main' = "ask" => main = "ask", sync' = "ask" => sync = "ask"
      PROVE  AskedInv'
  BY <1>0, <1>4 DEF AskedInv
<1>5. CASE MainStep
  <2>0. UNCHANGED <<place>> /\ (sync' = "ask" => sync = "ask")
    BY <1>5 DEF MainStep, Start, Connected, ConnectDeadline, GiveUp, UpstreamOk, UpstreamBad,
                GaveUp, Listen, Unwound, Joined, Exit, nodeVars, syncVars
  <2>1. CASE Connected
    <3>1. Ask(Main)
      BY <2>1 DEF Connected
    <3>. QED  BY <1>0, <1>3, <2>0, <3>1 DEF AskedInv
  <2>2. CASE UpstreamOk \/ UpstreamBad
    <3>1. /\ main' # "ask"
          /\ pend' = [pend EXCEPT ![Main] = "none"] \/ pend' = [Failed EXCEPT ![Main] = "none"]
      BY <2>2 DEF UpstreamOk, UpstreamBad, GiveUp
    <3>2. \A a \in Asker : a # Main /\ pend[a] # "none" => pend'[a] # "none"
      BY <1>0, <1>1, <1>2, <3>1
    <3>. QED  BY <1>0, <2>0, <3>1, <3>2 DEF AskedInv
  <2>3. CASE /\ MainStep /\ ~Connected /\ ~UpstreamOk /\ ~UpstreamBad
    <3>1. pend' = pend /\ main' # "ask"
      BY <2>3 DEF MainStep, Start, ConnectDeadline, GiveUp, GaveUp, Listen, Unwound, Joined,
                  Exit, nodeVars
    <3>. QED  BY <1>4, <2>0, <3>1
  <2>. QED  BY <1>5, <2>1, <2>2, <2>3
<1>6. CASE SyncStep
  <2>0. UNCHANGED <<place, main>>
    BY <1>6 DEF SyncStep, SyncStops, SyncAsks, SyncAnswered, SyncFailed, SyncResyncs, SyncKeeps,
                mainVars
  <2>1. \/ Ask(Sync)
        \/ /\ sync' # "ask"
           /\ \/ pend' = pend \/ pend' = [pend EXCEPT ![Sync] = "none"]
              \/ pend' = [Failed EXCEPT ![Sync] = "none"]
    BY <1>6 DEF SyncStep, SyncStops, SyncAsks, SyncAnswered, SyncFailed, SyncResyncs, Redial,
                SyncTo
  <2>2. CASE Ask(Sync)
    BY <1>0, <1>3, <2>0, <2>2 DEF AskedInv
  <2>3. CASE ~Ask(Sync)
    <3>1. \A a \in Asker : a # Sync /\ pend[a] # "none" => pend'[a] # "none"
      BY <1>0, <1>1, <1>2, <2>1, <2>3
    <3>. QED  BY <1>0, <2>0, <2>1, <2>3, <3>1 DEF AskedInv
  <2>. QED  BY <2>2, <2>3
<1>7. CASE StopStep \/ Signal
  BY <1>4, <1>7 DEF StopStep, PoolStops, PoolJoined, SyncJoined, ApplyJoined, Signal, mainVars,
                          nodeVars, syncVars
<1>8. ASSUME NEW n \in Net, NetStep(n) \/ SignalTaken(n) \/ Dial(n) \/ LinkLost(n)
      PROVE  AskedInv'
  <2>1. UNCHANGED <<place, main, sync>> /\ (pend' = pend \/ pend' = Failed)
    BY <1>8 DEF NetStep, Dialed, DispatchEnds, NodeStops, IoStops, NetLeaves, SignalTaken,
                Dial, LinkLost, mainVars, nodeVars, syncVars
  <2>. QED  BY <1>1, <1>4, <2>1
<1>9. ASSUME NEW n \in Net, NEW a \in Asker, Reply(n, a) \/ Timeout(a) PROVE AskedInv'
  <2>1. /\ UNCHANGED <<place, main, sync>>
        /\ pend' = [pend EXCEPT ![a] = "value"] \/ pend' = [pend EXCEPT ![a] = "error"]
    BY <1>9 DEF Reply, Timeout, mainVars, syncVars
  <2>2. \A b \in Asker : pend[b] # "none" => pend'[b] # "none"
    BY <1>0, <2>1
  <2>. QED  BY <1>4, <2>1, <2>2
<1>10. ASSUME NEW n \in Net, NEW r \in Heavy, Dispatch(n, r) PROVE AskedInv'
  <2>1. UNCHANGED <<main, sync, pend>> /\ \E x : place' = [place EXCEPT ![r] = x]
    BY <1>10 DEF Dispatch, TakeOrRefuse, Answer, Take, mainVars, nodeVars, syncVars
  <2>2. \A q \in Proxied : place'[q] = place[q]
    BY <1>0, <2>1
  <2>. QED  BY <1>4, <2>1, <2>2
<1>11. ASSUME NEW n \in Net, NEW q \in Proxied, Proxy(n, q) PROVE AskedInv'
  <2>1. UNCHANGED <<main, sync>> /\ Ask(q) /\ place' = [place EXCEPT ![q] = "in"]
    BY <1>11 DEF Proxy, Take, mainVars, syncVars
  <2>2. \A x \in Proxied : x # q => place'[x] = place[x]
    BY <1>0, <2>1
  <2>. QED  BY <1>0, <1>3, <2>1, <2>2 DEF AskedInv
<1>12. ASSUME NEW q \in Proxied, ProxyAnswers(q) PROVE AskedInv'
  <2>1. /\ UNCHANGED <<main, sync>> /\ pend' = [pend EXCEPT ![q] = "none"]
        /\ place' = [place EXCEPT ![q] = "answered"]
    BY <1>12 DEF ProxyAnswers, Answer, mainVars, syncVars
  <2>2. /\ place'[q] = "answered" /\ \A x \in Proxied : x # q => place'[x] = place[x]
        /\ \A a \in Asker : a # q => pend'[a] = pend[a]
    BY <1>0, <2>1
  <2>. QED  BY <1>0, <2>1, <2>2 DEF AskedInv
<1>13. ASSUME NEW w \in Worker, WorkerMoves(w) \/ SpuriousWake(w) PROVE AskedInv'
  <2>1. /\ UNCHANGED <<main, sync, pend>>
        /\ place' = place \/ place' = [place EXCEPT ![held[w]] = "answered"]
    BY <1>13 DEF WorkerMoves, SpuriousWake, Answer, mainVars, nodeVars, syncVars
  <2>2. \A q \in Proxied : place'[q] = "in" => place[q] = "in"
    BY <1>0, <2>1
  <2>. QED  BY <1>4, <2>1, <2>2
<1>14. CASE UNCHANGED vars
  BY <1>4, <1>14 DEF vars, mainVars, nodeVars, syncVars
<1>15. ASSUME NEW n \in Net, ApplyDrains \/ ApplyLeaves \/ StreamMessage(n)
       PROVE  AskedInv'
  BY <1>4, <1>15, ApplyKeeps DEF mainVars
<1>16. PICK n \in Net : TRUE
  BY ProcessAssumption
<1>. QED  BY <1>5, <1>6, <1>7, <1>8, <1>9, <1>10, <1>11, <1>12, <1>13, <1>14, <1>15, <1>16 DEF Next

(* Only the handler itself leaves its place, and io_context::stop() is the *)
(* last thing it does.                                                     *)
LEMMA HandlerStep ==
  ASSUME ThreadInv, HandlerInv, [Next]_vars PROVE HandlerInv'
<1>0. /\ net \in [Net -> Heavy \cup {"none", "free", "dialing", "signal", "last", "gone"}]
      /\ Heavy \cap {"none", "free", "dialing", "signal", "last", "gone"} = {}
  BY ProcessAssumption DEF ThreadInv, ThreadTypes
<1>1. ASSUME \A n \in Net : net[n] \in {"signal", "last"} => net'[n] \in {"signal", "last"},
             main' \in {"quit", "serve"} => main' = main,
             io' = io, engine' = engine \/ engine # "no"
      PROVE  HandlerInv'
  BY <1>1 DEF HandlerInv
<1>2. CASE MainStep
  <2>1. CASE ConnectDeadline \/ UpstreamBad
    BY <2>1 DEF ConnectDeadline, UpstreamBad, GiveUp, HandlerInv
  <2>2. CASE Listen
    <3>1. engine = "no" /\ (main' = "serve" => engine' = "no") /\ main' # "quit"
      BY <2>2 DEF Listen, ThreadInv, MainInv
    <3>. QED  BY <3>1 DEF HandlerInv
  <2>3. CASE ~ConnectDeadline /\ ~UpstreamBad /\ ~Listen
    <3>1. main' \notin {"quit", "serve"}
      BY <1>2, <2>3 DEF MainStep, Start, Connected, UpstreamOk, GaveUp, Unwound, Joined, Exit
    <3>. QED  BY <3>1 DEF HandlerInv
  <2>. QED  BY <2>1, <2>2, <2>3
<1>3. CASE SyncStep
  BY <1>1, <1>3 DEF SyncStep, SyncStops, SyncAsks, SyncAnswered, SyncFailed, SyncResyncs,
                    SyncKeeps, mainVars
<1>4. CASE StopStep \/ Signal
  BY <1>1, <1>4 DEF StopStep, PoolStops, PoolJoined, SyncJoined, ApplyJoined, Signal, mainVars
<1>5. ASSUME NEW n \in Net,
             \/ Dial(n) \/ Dialed(n) \/ DispatchEnds(n) \/ NetLeaves(n)
             \/ \E r \in Heavy : Dispatch(n, r)
      PROVE  HandlerInv'
  <2>1. UNCHANGED <<main, io, engine>>
    BY <1>5 DEF Dial, Dialed, DispatchEnds, NetLeaves, Dispatch, mainVars
  <2>2. net[n] \in Heavy \cup {"free", "dialing"}
    BY <1>5 DEF Dial, Dialed, DispatchEnds, NetLeaves, Dispatch, Free
  <2>3. \E to : net' = [net EXCEPT ![n] = to]
    <3>1. CASE net' = net
      <4>1. net' = [net EXCEPT ![n] = net[n]]
        BY <1>0, <3>1
      <4>. QED  BY <4>1
    <3>2. CASE net' # net
      BY <1>5, <3>2 DEF Dial, Dialed, DispatchEnds, NetLeaves, Dispatch, Go
    <3>. QED  BY <3>1, <3>2
  <2>4. \A m \in Net : m # n => net'[m] = net[m]
    BY <1>0, <2>3
  <2>. QED  BY <1>0, <1>1, <2>1, <2>2, <2>4
<1>6. ASSUME NEW n \in Net, LinkLost(n) \/ (\E a \in Asker : Reply(n, a))
                              \/ \E q \in Proxied : Proxy(n, q)
      PROVE  HandlerInv'
  BY <1>1, <1>6 DEF LinkLost, Reply, Proxy, mainVars
<1>7. ASSUME NEW n \in Net, SignalTaken(n) \/ NodeStops(n) PROVE HandlerInv'
  <2>1. UNCHANGED <<main, io>> /\ net'[n] \in {"signal", "last"}
    BY <1>0, <1>7 DEF SignalTaken, NodeStops, Go, mainVars
  <2>. QED  BY <2>1 DEF HandlerInv
<1>8. ASSUME NEW n \in Net, IoStops(n) PROVE HandlerInv'
  BY <1>8 DEF IoStops, HandlerInv
<1>9. CASE (\E a \in Asker : Timeout(a)) \/ \E q \in Proxied : ProxyAnswers(q)
  BY <1>1, <1>9 DEF Timeout, ProxyAnswers, mainVars
<1>10. ASSUME NEW w \in Worker, WorkerMoves(w) \/ SpuriousWake(w) PROVE HandlerInv'
  BY <1>1, <1>10 DEF WorkerMoves, SpuriousWake, mainVars
<1>11. CASE UNCHANGED vars
  BY <1>1, <1>11 DEF vars, mainVars
<1>12. ASSUME NEW n \in Net, ApplyDrains \/ ApplyLeaves \/ StreamMessage(n)
       PROVE  HandlerInv'
  BY <1>1, <1>12, ApplyKeeps DEF mainVars
<1>13. PICK n \in Net : TRUE
  BY ProcessAssumption
<1>. QED  BY <1>2, <1>3, <1>4, <1>5, <1>6, <1>7, <1>8, <1>9, <1>10, <1>11, <1>12, <1>13 DEF Next, NetStep

LEMMA ThreadsAlways == Spec => [](ThreadInv /\ AskTypes)
<1>1. Init => ThreadInv /\ AskTypes
  BY ThreadInit
<1>2. PoolInv /\ ThreadInv /\ AskTypes /\ [Next]_vars => (ThreadInv /\ AskTypes)'
  BY ThreadStep, AskStep
<1>. QED  BY <1>1, <1>2, PoolAlways, PTL DEF Spec

(* NobodyWaitsInVain: whoever waits in the process has somebody left to    *)
(* end it, whatever was stopped, lost or refused and in whatever order.  A *)
(* queued request has an awake worker or a caller that is still to notify  *)
(* one (thread_pool.hpp); a request that is in is queued, run or asked of  *)
(* the node (server.cpp); and the joins of Engine::stop() and main wait    *)
(* for threads that are awake (engine.cpp, main.cpp).                      *)
THEOREM EveryWaitIsBacked == Spec => []NobodyWaitsInVain
<1>1. Init => WaitInv
  BY WaitInit
<1>2. PoolInv /\ ThreadInv /\ AskTypes /\ WaitInv /\ [Next]_vars => WaitInv'
  BY CallerStep, WakeStep, InStep, AskedStep, HandlerStep DEF WaitInv
<1>3. PoolInv /\ ThreadInv /\ WaitInv => NobodyWaitsInVain
  BY WaitMeans
<1>. QED  BY <1>1, <1>2, <1>3, PoolAlways, ThreadsAlways, PTL DEF Spec

-----------------------------------------------------------------------------
(* NobodyLeft: when main destroys its objects, however it got there, no    *)
(* network thread is left, and neither are the sync thread, the apply      *)
(* thread and the pool's workers (main.cpp, Engine::stop()); and every     *)
(* variable keeps its type, with the pool's pending() what is queued or    *)
(* running.                                                                *)
THEOREM NothingOutlives == Spec => []NobodyLeft
<1>1. PoolInv /\ ThreadInv /\ AskTypes => NobodyLeft
  <2>. SUFFICES ASSUME PoolInv, ThreadInv, AskTypes PROVE NobodyLeft
    OBVIOUS
  <2>1. TypeOK
    BY TypeParts DEF PoolInv, ThreadInv
  <2>2. main \in {"torn", "exited", "fatal"} => NetGone
    BY DEF ThreadInv, MainInv
  <2>3. main = "fatal" => sync = "none" /\ apply = "none"
    BY DEF ThreadInv, MainInv
  <2>4. main \in {"torn", "exited", "aborted"} =>
          sync = "gone" /\ apply = "gone" /\ shut = "cleared"
    BY DEF ThreadInv, StopInv
  <2>5. shut = "cleared" => \A w \in Worker : wpc[w] = "exit"
    BY DEF PoolInv, EndInv
  <2>. QED  BY <2>1, <2>2, <2>3, <2>4, <2>5 DEF NobodyLeft
<1>. QED  BY <1>1, PoolAlways, ThreadsAlways, PTL
=============================================================================
