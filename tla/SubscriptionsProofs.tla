------------------------- MODULE SubscriptionsProofs -------------------------
(***************************************************************************)
(* Proofs about Subscriptions for every set of connections, sessions and   *)
(* workers: its types and the bound of the pool's queue, that one update   *)
(* of a session is in flight and a create is unanswered just while a job   *)
(* of it is there, and that the registry's two tables agree.               *)
(***************************************************************************)
EXTENDS Subscriptions, SharedLemmas, FiniteSetTheorems

-----------------------------------------------------------------------------
(* Jobs. *)

(* A job is the create or the update of its session, and says which. *)
LEMMA JobShape ==
  /\ \A s \in Session : CreateJob(s) \in JobRec /\ UpdateJob(s) \in JobRec
  /\ \A s \in Session : CreateJob(s) # Idle /\ UpdateJob(s) # Idle
  /\ \A s, t \in Session : CreateJob(s) # UpdateJob(t)
  /\ \A s, t \in Session : CreateJob(s) = CreateJob(t) => s = t
  /\ \A s, t \in Session : UpdateJob(s) = UpdateJob(t) => s = t
  /\ \A j \in JobRec : j.session \in Session /\ j.kind \in {"create", "update"}
  /\ \A j \in JobRec : j.kind = "create" => j = CreateJob(j.session)
  /\ \A j \in JobRec : j.kind = "update" => j = UpdateJob(j.session)
  /\ \A s \in Session : CreateJob(s).kind = "create" /\ CreateJob(s).session = s
  /\ \A s \in Session : UpdateJob(s).kind = "update" /\ UpdateJob(s).session = s
<1>1. \A s \in Session : CreateJob(s) \in JobRec /\ UpdateJob(s) \in JobRec
  BY DEF CreateJob, UpdateJob, JobRec
<1>2. \A j \in JobRec : /\ j.session \in Session /\ j.kind \in {"create", "update"}
                        /\ j = [kind |-> j.kind, session |-> j.session]
  BY DEF JobRec
<1>3. Idle \notin JobRec
  BY SubscriptionAssumption
<1>. QED  BY <1>1, <1>2, <1>3 DEF CreateJob, UpdateJob

(* A queue without repetitions is no longer than there are jobs, two of    *)
(* each session.                                                           *)
LEMMA QueueBound ==
  ASSUME NEW q \in Seq(JobRec), NoneTwice(q)
  PROVE  Len(q) <= 2 * Cardinality(Session)
<1>. DEFINE Creates == {CreateJob(s) : s \in Session}
            Updates == {UpdateJob(s) : s \in Session}
<1>0. IsFiniteSet(Session) /\ Cardinality(Session) \in Nat
  BY SubscriptionAssumption, FS_CardinalityType
<1>1. IsFiniteSet(Creates) /\ Cardinality(Creates) = Cardinality(Session)
  <2>1. [s \in Session |-> CreateJob(s)] \in Bijection(Session, Creates)
    BY JobShape DEF Bijection, Injection, Surjection, IsInjective
  <2>. QED  BY <2>1, <1>0, FS_Bijection DEF ExistsBijection
<1>2. IsFiniteSet(Updates) /\ Cardinality(Updates) = Cardinality(Session)
  <2>1. [s \in Session |-> UpdateJob(s)] \in Bijection(Session, Updates)
    BY JobShape DEF Bijection, Injection, Surjection, IsInjective
  <2>. QED  BY <2>1, <1>0, FS_Bijection DEF ExistsBijection
<1>3. /\ IsFiniteSet(Creates \cup Updates)
      /\ Cardinality(Creates \cup Updates) <= 2 * Cardinality(Session)
  <2>1. Creates \cap Updates = {}
    BY JobShape
  <2>. HIDE DEF Creates, Updates
  <2>2. /\ IsFiniteSet(Creates \cup Updates)
        /\ Cardinality(Creates \cup Updates)
             = Cardinality(Creates) + Cardinality(Updates) - Cardinality({})
    BY <2>1, <1>1, <1>2, FS_Union
  <2>. QED  BY <2>2, <1>0, <1>1, <1>2, FS_EmptySet
<1>4. JobRec \subseteq Creates \cup Updates
  BY JobShape
<1>5. Len(q) \in Nat /\ \A i \in 1 .. Len(q) : q[i] \in JobRec
  BY LenProperties, ElementOfSeq
<1>6. IsFiniteSet(1 .. Len(q)) /\ Cardinality(1 .. Len(q)) = Len(q)
  <2>1. \A n \in Nat : /\ IsFiniteSet(1 .. n)
                       /\ Cardinality(1 .. n) = IF 1 > n THEN 0 ELSE n - 1 + 1
    BY FS_Interval
  <2>2. \A n \in Nat : (IF 1 > n THEN 0 ELSE n - 1 + 1) = n
    OBVIOUS
  <2>3. \A n \in Nat : IsFiniteSet(1 .. n) /\ Cardinality(1 .. n) = n
    BY <2>1, <2>2
  <2>. QED  BY <1>5, <2>3
<1>7. [i \in 1 .. Len(q) |-> q[i]] \in Injection(1 .. Len(q), Creates \cup Updates)
  BY <1>4, <1>5 DEF Injection, IsInjective, NoneTwice
<1>. HIDE DEF Creates, Updates
<1>8. Cardinality(1 .. Len(q)) <= Cardinality(Creates \cup Updates)
  BY <1>3, <1>7, FS_Injection
<1>9. Cardinality(Creates \cup Updates) \in Nat
  BY <1>3, FS_CardinalityType
<1>. QED  BY <1>0, <1>3, <1>5, <1>6, <1>8, <1>9

-----------------------------------------------------------------------------
(* Types.  The queue's bound follows from what is in it, so it is left out *)
(* of the parts that are inductive by themselves.                          *)

ClientType ==
  /\ socket \in [Conn -> {"open", "broken", "dropped"}]
  /\ asked \in [Session -> Conn \cup {NoConn}]
  /\ sent \in [Session -> SUBSET {"reply", "update"}]

RegistryType ==
  /\ subs \subseteq Session /\ connToSession \subseteq Conn \X Session
  /\ closing \in [Session -> BOOLEAN] /\ updating \in [Session -> BOOLEAN]

PoolType ==
  /\ queue \in Seq(JobRec)
  /\ job \in [Worker -> JobRec \cup {Idle}]
  /\ at \in [Worker -> {"idle", "begin", "register", "reply", "search", "end"}]
  /\ \A w \in Worker : job[w] = Idle <=> at[w] = "idle"

RoundType ==
  /\ round \in {"none", "tick", "close"} /\ live \subseteq Session
  /\ deepenLeft \in 0 .. DeepenMax

Types == ClientType /\ RegistryType /\ PoolType /\ RoundType

LEMMA TypeParts == TypeOK <=> Types /\ Len(queue) <= 2 * Cardinality(Session)
BY DEF TypeOK, Types, ClientType, RegistryType, PoolType, RoundType

(* The place of a worker says what kind of job it has.                     *)
PlacesInv ==
  \A w \in Worker :
    /\ at[w] \in {"register", "reply"} => job[w].kind = "create"
    /\ at[w] = "search" => job[w].kind = "update"

Running(j) == \E w \in Worker : job[w] = j
InHand(j) == InQueue(queue, j) \/ Running(j)

(* No job is twice in the pool, and a session's flag is up exactly when an *)
(* update of it is there.                                                  *)
JobsInv ==
  /\ NoneTwice(queue)
  /\ \A v, w \in Worker : job[v] = job[w] /\ job[v] # Idle => v = w
  /\ \A w \in Worker : job[w] # Idle => ~InQueue(queue, job[w])
  /\ \A s \in Session : updating[s] <=> InHand(UpdateJob(s))

(* A session that a client asked for and that is not registered yet.       *)
Unregistered(s) == asked[s] \in Conn /\ s \notin subs /\ ~closing[s]

(* Only sessions that were asked for are in the pool or were registered,   *)
(* and one whose create is still to register it is new to the registry.    *)
CreatesInv ==
  /\ \A s \in Session : InHand(CreateJob(s)) => asked[s] \in Conn
  /\ \A s \in Session : s \in subs \/ closing[s] => asked[s] \in Conn
  /\ \A s \in Session : InQueue(queue, CreateJob(s)) => Unregistered(s)
  /\ \A w \in Worker, s \in Session :
       job[w] = CreateJob(s) /\ at[w] \in {"begin", "register"} => Unregistered(s)

SubsInv == Types /\ PlacesInv /\ JobsInv /\ CreatesInv /\ RegistryAgrees

LEMMA InitSubs == Init => SubsInv
<1>. SUFFICES ASSUME Init PROVE SubsInv
  OBVIOUS
<1>. USE DEF Init
<1>1. Types
  <2>1. ClientType /\ RegistryType
    BY DEF ClientType, RegistryType
  <2>2. PoolType
    BY EmptySeq DEF PoolType
  <2>3. RoundType
    BY SubscriptionAssumption DEF RoundType
  <2>. QED  BY <2>1, <2>2, <2>3 DEF Types
<1>2. \A j : ~InQueue(queue, j)
  BY EmptySeq DEF InQueue
<1>3. \A j \in JobRec : ~InHand(j)
  BY <1>2, SubscriptionAssumption DEF InHand, Running
<1>4. PlacesInv
  BY DEF PlacesInv
<1>5. JobsInv
  BY <1>2, <1>3, JobShape, EmptySeq DEF JobsInv, NoneTwice
<1>6. CreatesInv
  BY <1>2, <1>3, JobShape, SubscriptionAssumption DEF CreatesInv
<1>7. RegistryAgrees
  BY DEF RegistryAgrees
<1>. QED  BY <1>1, <1>4, <1>5, <1>6, <1>7 DEF SubsInv

(* What a worker that is not idle works on. *)
LEMMA WorksOn ==
  ASSUME Types, NEW w \in Worker, at[w] # "idle"
  PROVE  /\ job[w] \in JobRec /\ job[w].session \in Session
         /\ job[w].kind \in {"create", "update"}
         /\ job[w].kind = "create" => job[w] = CreateJob(job[w].session)
         /\ job[w].kind = "update" => job[w] = UpdateJob(job[w].session)
<1>1. job[w] \in JobRec
  BY DEF Types, PoolType
<1>. QED  BY <1>1, JobShape

(* A create about to be registered is of a session new to the registry.    *)
LEMMA Registers ==
  ASSUME Types, PlacesInv, CreatesInv, NEW w \in Worker, at[w] = "register"
  PROVE  /\ job[w].session \in Session /\ job[w] = CreateJob(job[w].session)
         /\ Unregistered(job[w].session)
BY WorksOn DEF PlacesInv, CreatesInv

(* A worker that goes on with its job keeps the pool's types. *)
LEMMA GoesType ==
  ASSUME Types, NEW w \in Worker, NEW from, NEW to \in {"register", "reply", "search", "end"},
         from # "idle", Goes(w, from, to), UNCHANGED <<queue, job>>
  PROVE  PoolType'
BY DEF Types, PoolType, Goes

LEMMA StepTypes ==
  ASSUME Types, PlacesInv, CreatesInv, [Next]_vars
  PROVE  Types'
<1>. USE DEF Types
<1>1. ASSUME NEW c \in Conn, NEW s \in Session, Create(c, s)
      PROVE  Types'
  <2>1. ClientType' /\ RegistryType' /\ RoundType'
    BY <1>1 DEF Create, ClientType, RegistryType, RoundType, regVars, roundVars
  <2>2. PoolType'
    BY <1>1, AppendQueue, JobShape DEF Create, PoolType
  <2>. QED  BY <2>1, <2>2
<1>2. ASSUME NEW c \in Conn, NEW N \in SUBSET Session, ForgetConnSessions(c, N),
             UNCHANGED updating
      PROVE  RegistryType'
  <2>1. connToSession' \subseteq Conn \X Session /\ subs' \subseteq Session
    BY <1>2 DEF RegistryType, ForgetConnSessions
  <2>2. closing' \in [Session -> BOOLEAN]
    BY <1>2 DEF RegistryType, ForgetConnSessions
  <2>. QED  BY <2>1, <2>2, <1>2 DEF RegistryType
<1>3. ASSUME NEW c \in Conn, Close(c) \/ DropConnection(c) PROVE Types'
  <2>1. RegistryType'
    BY <1>2, <1>3 DEF Close, DropConnection
  <2>2. ClientType' /\ PoolType' /\ RoundType'
    BY <1>3 DEF Close, DropConnection, ClientType, PoolType, RoundType, poolVars, roundVars
  <2>. QED  BY <2>1, <2>2
<1>4. ASSUME NEW c \in Conn, Break(c) PROVE Types'
  <2>1. ClientType'
    BY <1>4 DEF Break, ClientType
  <2>2. RegistryType' /\ PoolType' /\ RoundType'
    BY <1>4 DEF Break, RegistryType, PoolType, RoundType, regVars, poolVars, roundVars
  <2>. QED  BY <2>1, <2>2
<1>5. ASSUME NEW w \in Worker, Take(w) PROVE Types'
  <2>1. PoolType'
    <3>1. /\ Head(queue) \in JobRec /\ Tail(queue) \in Seq(JobRec)
          /\ Head(queue) # Idle
      BY <1>5, TakeQueue, SubscriptionAssumption DEF Take, PoolType
    <3>. QED  BY <1>5, <3>1 DEF Take, Goes, PoolType
  <2>2. ClientType' /\ RegistryType' /\ RoundType'
    BY <1>5 DEF Take, ClientType, RegistryType, RoundType, regVars, roundVars
  <2>. QED  BY <2>1, <2>2
<1>6. ASSUME NEW w \in Worker, CreateSearch(w) \/ UpdateBegin(w) PROVE Types'
  <2>1. PoolType'
    <3>1. UNCHANGED <<queue, job>>
      BY <1>6 DEF CreateSearch, UpdateBegin
    <3>2. \E to \in {"register", "reply", "search", "end"} : Goes(w, "begin", to)
      BY <1>6 DEF CreateSearch, FirstSearch, UpdateBegin
    <3>. QED  BY <3>1, <3>2, GoesType
  <2>2. ClientType' /\ RegistryType' /\ RoundType'
    BY <1>6 DEF CreateSearch, UpdateBegin, ClientType, RegistryType, RoundType,
                regVars, roundVars
  <2>. QED  BY <2>1, <2>2
<1>7. ASSUME NEW w \in Worker, CreateRegister(w) PROVE Types'
  <2>1. PoolType'
    BY <1>7, GoesType DEF CreateRegister
  <2>2. ClientType' /\ RoundType'
    BY <1>7 DEF CreateRegister, ClientType, RoundType, roundVars
  <2>3. RegistryType'
    <3>1. at[w] = "register"
      BY <1>7 DEF CreateRegister, Goes
    <3>2. job[w].session \in Session /\ asked[job[w].session] \in Conn
      BY <3>1, Registers DEF Unregistered
    <3>. QED  BY <1>2, <1>7, <3>2 DEF CreateRegister
  <2>. QED  BY <2>1, <2>2, <2>3
<1>8. ASSUME NEW w \in Worker, CreateReply(w) PROVE Types'
  <2>1. PoolType'
    BY <1>8, GoesType DEF CreateReply
  <2>2. RegistryType' /\ RoundType'
    BY <1>8 DEF CreateReply, RegistryType, RoundType, regVars, roundVars
  <2>3. ClientType'
    BY <1>8 DEF CreateReply, Send, ClientType
  <2>. QED  BY <2>1, <2>2, <2>3
<1>9. ASSUME NEW w \in Worker, UpdateSearch(w) PROVE Types'
  <2>1. PoolType'
    BY <1>9, GoesType DEF UpdateSearch, SearchEnds
  <2>2. RegistryType' /\ RoundType'
    BY <1>9 DEF UpdateSearch, RegistryType, RoundType, regVars, roundVars
  <2>3. ClientType'
    BY <1>9 DEF UpdateSearch, SearchEnds, Send, ClientType
  <2>. QED  BY <2>1, <2>2, <2>3
<1>10. ASSUME NEW w \in Worker, JobEnds(w) PROVE Types'
  <2>1. PoolType'
    BY <1>10 DEF JobEnds, Goes, PoolType
  <2>2. ClientType' /\ RoundType'
    BY <1>10 DEF JobEnds, ClientType, RoundType, roundVars
  <2>3. RegistryType'
    BY <1>10 DEF JobEnds, RegistryType, regVars
  <2>. QED  BY <2>1, <2>2, <2>3
<1>11. ASSUME NEW kind \in {"tick", "close"}, StartRound(kind) PROVE Types'
  <2>1. ClientType' /\ RegistryType' /\ PoolType'
    BY <1>11 DEF StartRound, ClientType, RegistryType, PoolType, regVars, poolVars
  <2>2. RoundType'
    BY <1>11, SubscriptionAssumption DEF StartRound, Open, RoundType, RegistryType
  <2>. QED  BY <2>1, <2>2
<1>12. ASSUME NEW s \in Session, Visit(s) PROVE Types'
  <2>1. ClientType' /\ RegistryType'
    BY <1>12 DEF Visit, ClientType, RegistryType, regVars
  <2>2. PoolType'
    <3>1. queue' \in Seq(JobRec)
      BY <1>12, AppendQueue, JobShape DEF Visit, PoolType
    <3>. QED  BY <1>12, <3>1 DEF Visit, PoolType
  <2>3. RoundType'
    BY <1>12, SubscriptionAssumption DEF Visit, MayDeepen, RoundType
  <2>. QED  BY <2>1, <2>2, <2>3
<1>13. CASE EndRound
  <2>1. ClientType' /\ RegistryType' /\ PoolType'
    BY <1>13 DEF EndRound, ClientType, RegistryType, PoolType, regVars, poolVars
  <2>2. RoundType'
    BY <1>13, SubscriptionAssumption DEF EndRound, RoundType
  <2>. QED  BY <2>1, <2>2
<1>14. CASE UNCHANGED vars
  <2>1. ClientType' /\ RegistryType'
    BY <1>14 DEF vars, ClientType, RegistryType, regVars
  <2>2. PoolType' /\ RoundType'
    BY <1>14 DEF vars, PoolType, RoundType, poolVars, roundVars
  <2>. QED  BY <2>1, <2>2
<1>. QED
  BY <1>1, <1>3, <1>4, <1>5, <1>6, <1>7, <1>8, <1>9, <1>10, <1>11, <1>12, <1>13, <1>14
  DEF Next, ConnStep, WorkerStep, RoundStep, Tick, LedgerClose

-----------------------------------------------------------------------------
(* What is in the pool. *)

LEMMA StepPlaces ==
  ASSUME Types, PlacesInv, [Next]_vars
  PROVE  PlacesInv'
<1>. USE DEF Types, PoolType, PlacesInv
<1>1. CASE UNCHANGED <<job, at>>
  BY <1>1
<1>2. ASSUME NEW w \in Worker, Take(w) PROVE PlacesInv'
  BY <1>2 DEF Take, Goes
<1>3. ASSUME NEW w \in Worker, CreateSearch(w) \/ UpdateBegin(w) PROVE PlacesInv'
  <2>1. CASE CreateSearch(w)
    BY <2>1 DEF CreateSearch, FirstSearch, Goes
  <2>2. CASE UpdateBegin(w)
    BY <2>2 DEF UpdateBegin, Goes
  <2>. QED  BY <1>3, <2>1, <2>2
<1>4. ASSUME NEW w \in Worker, CreateRegister(w) PROVE PlacesInv'
  BY <1>4 DEF CreateRegister, Goes
<1>5. ASSUME NEW w \in Worker, CreateReply(w) PROVE PlacesInv'
  BY <1>5 DEF CreateReply, Goes
<1>6. ASSUME NEW w \in Worker, UpdateSearch(w) PROVE PlacesInv'
  BY <1>6 DEF UpdateSearch, SearchEnds, Goes
<1>7. ASSUME NEW w \in Worker, JobEnds(w) PROVE PlacesInv'
  BY <1>7 DEF JobEnds, Goes
<1>8. ASSUME NEW c \in Conn, ConnStep(c) PROVE UNCHANGED <<job, at>>
  BY <1>8 DEF ConnStep, Create, Close, Break, DropConnection, poolVars
<1>9. CASE Tick \/ LedgerClose \/ RoundStep
  BY <1>1, <1>9 DEF Tick, LedgerClose, RoundStep, StartRound, Visit, EndRound, poolVars
<1>10. CASE UNCHANGED vars
  BY <1>1, <1>10 DEF vars, poolVars
<1>. QED
  BY <1>1, <1>2, <1>3, <1>4, <1>5, <1>6, <1>7, <1>8, <1>9, <1>10 DEF Next, WorkerStep

(* Only four steps move jobs: a create and a visit bring one, a worker     *)
(* takes one, and ends it.                                                 *)
LEMMA JobsMove ==
  ASSUME [Next]_vars
  PROVE  \/ \E c \in Conn, s \in Session : Create(c, s)
         \/ \E s \in Session : Visit(s)
         \/ \E w \in Worker : Take(w) \/ JobEnds(w)
         \/ UNCHANGED <<queue, job, updating>>
<1>1. CASE Next
  <2>1. ASSUME NEW c \in Conn, ConnStep(c), \A s \in Session : ~Create(c, s)
        PROVE  UNCHANGED <<queue, job, updating>>
    BY <2>1 DEF ConnStep, Close, Break, DropConnection, poolVars
  <2>2. ASSUME NEW w \in Worker, WorkerStep(w), ~Take(w), ~JobEnds(w)
        PROVE  UNCHANGED <<queue, job, updating>>
    BY <2>2 DEF WorkerStep, CreateSearch, CreateRegister, CreateReply, UpdateBegin,
                UpdateSearch, SearchEnds, regVars, roundVars
  <2>3. CASE Tick \/ LedgerClose \/ EndRound
    BY <2>3 DEF Tick, LedgerClose, StartRound, EndRound, poolVars
  <2>. QED  BY <1>1, <2>1, <2>2, <2>3 DEF Next, RoundStep
<1>. QED  BY <1>1 DEF vars, poolVars

(* A job joins the pool that is not in it. *)
LEMMA Joins ==
  ASSUME Types, JobsInv, NEW j \in JobRec, ~InHand(j),
         queue' = Append(queue, j), UNCHANGED job,
         \A s \in Session : updating'[s] <=> updating[s] \/ j = UpdateJob(s)
  PROVE  JobsInv'
<1>. queue \in Seq(JobRec)
  BY DEF Types, PoolType
<1>1. /\ \A x : InQueue(queue', x) <=> InQueue(queue, x) \/ x = j
      /\ NoneTwice(queue')
  BY AppendQueue DEF JobsInv, InHand
<1>2. \A w \in Worker : job[w] # j
  BY DEF InHand, Running
<1>3. \A s \in Session : InHand(UpdateJob(s))' <=> InHand(UpdateJob(s)) \/ j = UpdateJob(s)
  BY <1>1 DEF InHand, Running
<1>. QED  BY <1>1, <1>2, <1>3 DEF JobsInv

LEMMA StepJobs ==
  ASSUME Types, PlacesInv, JobsInv, CreatesInv, [Next]_vars
  PROVE  JobsInv'
<1>1. ASSUME NEW c \in Conn, NEW s \in Session, Create(c, s)
      PROVE  JobsInv'
  <2>1. ~InHand(CreateJob(s))
    BY <1>1, SubscriptionAssumption DEF Create, CreatesInv
  <2>. QED  BY <1>1, <2>1, Joins, JobShape DEF Create
<1>2. ASSUME NEW s \in Session, Visit(s)
      PROVE  JobsInv'
  <2>1. CASE ~TryBeginUpdate(s)
    <3>1. UNCHANGED <<queue, job, updating>>
      BY <1>2, <2>1 DEF Visit
    <3>. QED  BY <3>1 DEF JobsInv, InHand, Running
  <2>2. CASE TryBeginUpdate(s)
    <3>1. ~InHand(UpdateJob(s))
      BY <2>2 DEF TryBeginUpdate, JobsInv
    <3>2. /\ queue' = Append(queue, UpdateJob(s)) /\ UNCHANGED job
          /\ updating' = [updating EXCEPT ![s] = TRUE]
      BY <1>2, <2>2 DEF Visit
    <3>3. \A t \in Session : updating'[t] <=> updating[t] \/ UpdateJob(s) = UpdateJob(t)
      BY <3>2, JobShape DEF Types, RegistryType
    <3>. QED  BY <3>1, <3>2, <3>3, Joins, JobShape
  <2>. QED  BY <2>1, <2>2
<1>3. ASSUME NEW w \in Worker, Take(w)
      PROVE  JobsInv'
  <2>1. /\ queue \in Seq(JobRec) /\ queue # << >> /\ queue' = Tail(queue)
        /\ job' = [job EXCEPT ![w] = Head(queue)] /\ updating' = updating
        /\ job[w] = Idle /\ job \in [Worker -> JobRec \cup {Idle}]
    BY <1>3 DEF Take, Goes, Types, PoolType
  <2>2. /\ Head(queue) \in JobRec /\ InQueue(queue, Head(queue))
        /\ \A x : InQueue(queue, x) <=> InQueue(queue', x) \/ x = Head(queue)
        /\ NoneTwice(queue') /\ ~InQueue(queue', Head(queue))
    BY <2>1, TakeQueue DEF JobsInv
  <2>3. \A v \in Worker : job[v] # Head(queue)
    BY <2>2, SubscriptionAssumption DEF JobsInv
  <2>4. \A s \in Session : InHand(UpdateJob(s))' <=> InHand(UpdateJob(s))
    BY <2>1, <2>2, JobShape DEF InHand, Running
  <2>. QED  BY <2>1, <2>2, <2>3, <2>4 DEF JobsInv
<1>4. ASSUME NEW w \in Worker, JobEnds(w)
      PROVE  JobsInv'
  <2>. DEFINE j == job[w]
  <2>1. /\ at[w] = "end" /\ job' = [job EXCEPT ![w] = Idle] /\ queue' = queue
        /\ updating' = IF j.kind = "update" THEN [updating EXCEPT ![j.session] = FALSE]
                       ELSE updating
        /\ job \in [Worker -> JobRec \cup {Idle}]
        /\ updating \in [Session -> BOOLEAN]
    BY <1>4 DEF JobEnds, Goes, Types, PoolType, RegistryType
  <2>2. /\ j \in JobRec /\ j # Idle
        /\ j.kind = "create" => j = CreateJob(j.session)
        /\ j.kind = "update" => j = UpdateJob(j.session)
        /\ j.kind \in {"create", "update"} /\ j.session \in Session
    BY <2>1, WorksOn, SubscriptionAssumption
  <2>3. \A s \in Session : InHand(UpdateJob(s))' <=> InHand(UpdateJob(s)) /\ j # UpdateJob(s)
    BY <2>1, <2>2, JobShape DEF InHand, Running, JobsInv
  <2>4. \A s \in Session : updating'[s] <=> updating[s] /\ j # UpdateJob(s)
    BY <2>1, <2>2, JobShape
  <2>. QED  BY <2>1, <2>3, <2>4 DEF JobsInv
<1>5. CASE UNCHANGED <<queue, job, updating>>
  BY <1>5 DEF JobsInv, InHand, Running
<1>. QED  BY <1>1, <1>2, <1>3, <1>4, <1>5, JobsMove

-----------------------------------------------------------------------------
(* The registry. *)

(* What forgetConnSessions and a registration under the same lock come to: *)
(* the connection's sessions go and are closed, and at most one new one is *)
(* entered for it.                                                         *)
LEMMA Forgets ==
  ASSUME Types, RegistryAgrees, NEW c \in Conn, NEW N \in SUBSET Session,
         \A s \in N : asked[s] = c /\ Unregistered(s),
         \A s, t \in N : s = t,
         ForgetConnSessions(c, N), UNCHANGED asked
  PROVE  /\ RegistryAgrees'
         /\ \A s \in Session : s \in subs' <=> (s \in subs /\ asked[s] # c) \/ s \in N
         /\ \A s \in Session : closing'[s] <=> closing[s] \/ (s \in subs /\ asked[s] = c)
<1>1. \A s \in Session : s \in Owned(c) <=> s \in subs /\ asked[s] = c
  BY DEF RegistryAgrees, Owned
<1>2. subs \subseteq Session /\ subs' = (subs \ Owned(c)) \cup N
  BY DEF ForgetConnSessions, Types, RegistryType
<1>3. \A s \in Session : s \in subs' <=> (s \in subs /\ asked[s] # c) \/ s \in N
  BY <1>1, <1>2
<1>4. \A s \in Session : closing'[s] <=> closing[s] \/ (s \in subs /\ asked[s] = c)
  BY <1>1 DEF ForgetConnSessions, Types, RegistryType
<1>5. connToSession' = {<<asked[s], s>> : s \in subs'}
  <2>1. {p \in connToSession : p[1] # c}
          = {<<asked[s], s>> : s \in {t \in subs : asked[t] # c}}
    BY DEF RegistryAgrees
  <2>2. {<<c, s>> : s \in N} = {<<asked[s], s>> : s \in N}
    OBVIOUS
  <2>3. subs' = {t \in subs : asked[t] # c} \cup N
    BY <1>2, <1>3
  <2>. QED  BY <2>1, <2>2, <2>3 DEF ForgetConnSessions
<1>6. \A s, t \in subs' : asked[s] = asked[t] => s = t
  BY <1>2, <1>3 DEF RegistryAgrees
<1>7. \A s \in subs' : ~closing'[s]
  BY <1>2, <1>3, <1>4 DEF RegistryAgrees, Unregistered
<1>. QED  BY <1>3, <1>4, <1>5, <1>6, <1>7 DEF RegistryAgrees

(* Jobs that only leave, or are updates, tell nothing new of creates. *)
LEMMA CreatesKept ==
  ASSUME CreatesInv, UNCHANGED <<asked, subs, closing>>,
         \A s \in Session : InHand(CreateJob(s))' => InHand(CreateJob(s)),
         \A s \in Session : InQueue(queue', CreateJob(s)) => Unregistered(s),
         \A w \in Worker, s \in Session :
           job'[w] = CreateJob(s) /\ at'[w] \in {"begin", "register"} => Unregistered(s)
  PROVE  CreatesInv'
BY DEF CreatesInv, Unregistered

LEMMA StepRegistry ==
  ASSUME SubsInv, [Next]_vars
  PROVE  CreatesInv' /\ RegistryAgrees'
<1>. USE DEF SubsInv
<1>0. /\ queue \in Seq(JobRec)
      /\ job \in [Worker -> JobRec \cup {Idle}]
      /\ at \in [Worker -> {"idle", "begin", "register", "reply", "search", "end"}]
      /\ subs \subseteq Session
  BY DEF Types, PoolType, RegistryType
<1>. DEFINE regKept == UNCHANGED <<asked, subs, connToSession, closing>>
<1>1. regKept => RegistryAgrees'
  BY DEF RegistryAgrees
<1>2. ASSUME NEW c \in Conn, NEW s \in Session, Create(c, s)
      PROVE  CreatesInv' /\ RegistryAgrees'
  <2>1. /\ asked[s] \notin Conn /\ UNCHANGED <<subs, connToSession, closing, job, at>>
        /\ asked' = [asked EXCEPT ![s] = c] /\ asked \in [Session -> Conn \cup {NoConn}]
        /\ queue' = Append(queue, CreateJob(s))
    BY <1>2, SubscriptionAssumption DEF Create, regVars, Types, ClientType
  <2>2. s \notin subs /\ ~closing[s]
    BY <2>1 DEF CreatesInv
  <2>3. RegistryAgrees'
    BY <2>1, <2>2, <1>0 DEF RegistryAgrees
  <2>4. \A x : InQueue(queue', x) <=> InQueue(queue, x) \/ x = CreateJob(s)
    BY <2>1, <1>0, AppendQueue, JobShape
  <2>5. \A t \in Session : t # s => CreateJob(t) # CreateJob(s) /\ asked'[t] = asked[t]
    BY <2>1, JobShape
  <2>6. asked'[s] = c /\ Unregistered(s)'
    BY <2>1, <2>2 DEF Unregistered
  <2>7. \A t \in Session : Unregistered(t) => Unregistered(t)'
    BY <2>1, <2>2 DEF Unregistered
  <2>8. \A t \in Session : InHand(CreateJob(t))' => InHand(CreateJob(t)) \/ t = s
    BY <2>1, <2>4, <2>5 DEF InHand, Running
  <2>9. CreatesInv'
    BY <2>1, <2>4, <2>5, <2>6, <2>7, <2>8 DEF CreatesInv
  <2>. QED  BY <2>3, <2>9
<1>3. ASSUME NEW c \in Conn, Close(c) \/ DropConnection(c)
      PROVE  CreatesInv' /\ RegistryAgrees'
  <2>1. ForgetConnSessions(c, {}) /\ UNCHANGED <<asked, queue, job, at>>
    BY <1>3 DEF Close, DropConnection, poolVars
  <2>2. /\ RegistryAgrees'
        /\ \A s \in Session : s \in subs' <=> s \in subs /\ asked[s] # c
        /\ \A s \in Session : closing'[s] <=> closing[s] \/ (s \in subs /\ asked[s] = c)
    BY <2>1, Forgets
  <2>3. \A t \in Session : Unregistered(t) => Unregistered(t)'
    BY <2>1, <2>2 DEF Unregistered
  <2>4. CreatesInv'
    BY <2>1, <2>2, <2>3 DEF CreatesInv, InHand, Running
  <2>. QED  BY <2>2, <2>4
<1>4. ASSUME NEW w \in Worker, CreateRegister(w)
      PROVE  CreatesInv' /\ RegistryAgrees'
  <2>. DEFINE s == job[w].session
  <2>1. /\ at[w] = "register" /\ at' = [at EXCEPT ![w] = "reply"]
        /\ ForgetConnSessions(asked[s], {s}) /\ UNCHANGED <<asked, queue, job>>
    BY <1>4 DEF CreateRegister, Goes
  <2>2. s \in Session /\ job[w] = CreateJob(s) /\ Unregistered(s)
    BY <2>1, Registers
  <2>3. asked[s] \in Conn
    BY <2>2 DEF Unregistered
  <2>. HIDE DEF s
  <2>4. /\ RegistryAgrees'
        /\ \A t \in Session : t \in subs' <=> (t \in subs /\ asked[t] # asked[s]) \/ t = s
        /\ \A t \in Session :
             closing'[t] <=> closing[t] \/ (t \in subs /\ asked[t] = asked[s])
    BY <2>1, <2>2, <2>3, Forgets
  <2>5. \A t \in Session : Unregistered(t) /\ t # s => Unregistered(t)'
    BY <2>1, <2>4 DEF Unregistered
  <2>6. /\ ~InQueue(queue, CreateJob(s))
        /\ \A v \in Worker : job[v] = CreateJob(s) => v = w
    BY <2>2, JobShape DEF JobsInv
  <2>7. at'[w] = "reply" /\ \A v \in Worker : v # w => at'[v] = at[v]
    BY <2>1, <1>0
  <2>8. \A t \in Session : InHand(CreateJob(t))' <=> InHand(CreateJob(t))
    BY <2>1 DEF InHand, Running
  <2>9. \A v \in Worker, t \in Session :
          job'[v] = CreateJob(t) /\ at'[v] \in {"begin", "register"} => Unregistered(t)'
    BY <2>1, <2>2, <2>5, <2>6, <2>7 DEF CreatesInv
  <2>10. CreatesInv'
    BY <2>1, <2>3, <2>4, <2>5, <2>6, <2>8, <2>9 DEF CreatesInv
  <2>. QED  BY <2>4, <2>10
<1>5. ASSUME NEW w \in Worker, Take(w)
      PROVE  CreatesInv' /\ regKept
  <2>1. /\ queue # << >> /\ queue' = Tail(queue) /\ regKept
        /\ job' = [job EXCEPT ![w] = Head(queue)] /\ at' = [at EXCEPT ![w] = "begin"]
        /\ job[w] = Idle
    BY <1>5 DEF Take, Goes, Types, PoolType, regVars
  <2>2. \A x : InQueue(queue, x) <=> InQueue(queue', x) \/ x = Head(queue)
    BY <2>1, <1>0, TakeQueue
  <2>3. \A s \in Session : InHand(CreateJob(s))' => InHand(CreateJob(s))
    BY <2>1, <2>2, <1>0 DEF InHand, Running
  <2>4. \A v \in Worker, s \in Session :
          job'[v] = CreateJob(s) /\ at'[v] \in {"begin", "register"} => Unregistered(s)
    BY <2>1, <2>2, <1>0 DEF CreatesInv
  <2>5. \A s \in Session : InQueue(queue', CreateJob(s)) => Unregistered(s)
    BY <2>2 DEF CreatesInv
  <2>. QED  BY <2>1, <2>3, <2>4, <2>5, CreatesKept
<1>6. ASSUME NEW w \in Worker, JobEnds(w)
      PROVE  CreatesInv' /\ regKept
  <2>1. /\ UNCHANGED queue /\ regKept
        /\ job' = [job EXCEPT ![w] = Idle] /\ at' = [at EXCEPT ![w] = "idle"]
    BY <1>6 DEF JobEnds, Goes, regVars
  <2>2. \A s \in Session : InHand(CreateJob(s))' => InHand(CreateJob(s))
    BY <2>1, <1>0, JobShape DEF InHand, Running
  <2>3. \A v \in Worker, s \in Session :
          job'[v] = CreateJob(s) /\ at'[v] \in {"begin", "register"} => Unregistered(s)
    BY <2>1, <1>0, JobShape DEF CreatesInv
  <2>. QED  BY <2>1, <2>2, <2>3, CreatesKept DEF CreatesInv
<1>7. ASSUME NEW w \in Worker,
             \/ CreateSearch(w) \/ CreateReply(w) \/ UpdateBegin(w) \/ UpdateSearch(w)
      PROVE  CreatesInv' /\ regKept
  <2>1. UNCHANGED <<queue, job>> /\ regKept
    BY <1>7 DEF CreateSearch, CreateReply, UpdateBegin, UpdateSearch, SearchEnds, regVars
  <2>2. \A v \in Worker : at'[v] \in {"begin", "register"} => at[v] \in {"begin", "register"}
    <3>1. CASE CreateSearch(w)
      BY <3>1, <1>0 DEF CreateSearch, FirstSearch, Goes
    <3>2. CASE CreateReply(w)
      BY <3>2, <1>0 DEF CreateReply, Goes
    <3>3. CASE UpdateBegin(w)
      BY <3>3, <1>0 DEF UpdateBegin, Goes
    <3>4. CASE UpdateSearch(w)
      BY <3>4, <1>0 DEF UpdateSearch, SearchEnds, Goes
    <3>. QED  BY <1>7, <3>1, <3>2, <3>3, <3>4
  <2>. QED  BY <2>1, <2>2, CreatesKept DEF CreatesInv, InHand, Running
<1>8. ASSUME NEW s \in Session, Visit(s)
      PROVE  CreatesInv' /\ regKept
  <2>1. UNCHANGED <<job, at>> /\ regKept
        /\ (queue' = queue \/ queue' = Append(queue, UpdateJob(s)))
    BY <1>8 DEF Visit, regVars
  <2>2. \A t \in Session : InQueue(queue', CreateJob(t)) => InQueue(queue, CreateJob(t))
    <3>1. CASE queue' = queue
      BY <3>1
    <3>2. CASE queue' = Append(queue, UpdateJob(s))
      <4>1. \A x : InQueue(queue', x) <=> InQueue(queue, x) \/ x = UpdateJob(s)
        BY <3>2, <1>0, AppendQueue, JobShape
      <4>. QED  BY <4>1, JobShape
    <3>. QED  BY <2>1, <3>1, <3>2
  <2>. QED  BY <2>1, <2>2, CreatesKept DEF CreatesInv, InHand, Running
<1>9. CASE UNCHANGED <<asked, subs, connToSession, closing, queue, job, at>>
  BY <1>9, <1>1 DEF CreatesInv, Unregistered, InHand, Running
<1>10. ASSUME NEW c \in Conn, Break(c)
       PROVE  UNCHANGED <<asked, subs, connToSession, closing, queue, job, at>>
  BY <1>10 DEF Break, regVars, poolVars
<1>11. CASE Tick \/ LedgerClose \/ EndRound \/ UNCHANGED vars
  BY <1>9, <1>11 DEF Tick, LedgerClose, StartRound, EndRound, vars, regVars, poolVars
<1>. QED
  BY <1>1, <1>2, <1>3, <1>4, <1>5, <1>6, <1>7, <1>8, <1>9, <1>10, <1>11
  DEF Next, ConnStep, WorkerStep, RoundStep

-----------------------------------------------------------------------------
LEMMA SubsInductive == Spec => []SubsInv
<1>1. SubsInv /\ [Next]_vars => SubsInv'
  BY StepTypes, StepPlaces, StepJobs, StepRegistry DEF SubsInv
<1>. QED  BY InitSubs, <1>1, PTL DEF Spec

(* A create is unanswered exactly while its job is queued or under way. *)
Unanswered(s) == asked[s] # NoConn /\ "reply" \notin sent[s]

UnderWay(s) ==
  InQueue(queue, CreateJob(s)) \/ \E w \in Worker : job[w] = CreateJob(s) /\ at[w] # "end"

AnswersInv ==
  \A s \in Session : /\ Unanswered(s) <=> UnderWay(s)
                     /\ "reply" \in sent[s] => asked[s] # NoConn

LEMMA StepAnswers ==
  ASSUME SubsInv, AnswersInv, [Next]_vars
  PROVE  AnswersInv'
<1>. USE DEF SubsInv
<1>0. /\ queue \in Seq(JobRec)
      /\ job \in [Worker -> JobRec \cup {Idle}]
      /\ at \in [Worker -> {"idle", "begin", "register", "reply", "search", "end"}]
      /\ \A w \in Worker : job[w] = Idle <=> at[w] = "idle"
      /\ asked \in [Session -> Conn \cup {NoConn}] /\ NoConn \notin Conn
      /\ sent \in [Session -> SUBSET {"reply", "update"}]
  BY SubscriptionAssumption DEF Types, PoolType, ClientType
<1>1. ASSUME asked' = asked,
             \A s \in Session : "reply" \in sent'[s] <=> "reply" \in sent[s],
             \A s \in Session : UnderWay(s)' <=> UnderWay(s)
      PROVE  AnswersInv'
  BY <1>1 DEF AnswersInv, Unanswered
<1>2. ASSUME UNCHANGED <<asked, sent, queue, job, at>> PROVE AnswersInv'
  BY <1>1, <1>2 DEF UnderWay
<1>3. ASSUME NEW c \in Conn, NEW s \in Session, Create(c, s) PROVE AnswersInv'
  <2>1. /\ asked[s] = NoConn /\ asked' = [asked EXCEPT ![s] = c]
        /\ queue' = Append(queue, CreateJob(s)) /\ UNCHANGED <<job, at, sent>>
    BY <1>3 DEF Create
  <2>2. \A x : InQueue(queue', x) <=> InQueue(queue, x) \/ x = CreateJob(s)
    BY <1>0, <2>1, AppendQueue, JobShape
  <2>3. \A t \in Session : UnderWay(t)' <=> UnderWay(t) \/ t = s
    BY <2>1, <2>2, JobShape DEF UnderWay
  <2>4. \A t \in Session : Unanswered(t)' <=> Unanswered(t) \/ t = s
    BY <1>0, <2>1 DEF AnswersInv, Unanswered
  <2>5. \A t \in Session : asked'[t] = NoConn => asked[t] = NoConn
    BY <1>0, <2>1
  <2>. QED  BY <2>1, <2>3, <2>4, <2>5 DEF AnswersInv
<1>4. ASSUME NEW w \in Worker, Take(w) PROVE AnswersInv'
  <2>1. /\ queue # << >> /\ queue' = Tail(queue) /\ UNCHANGED <<asked, sent>>
        /\ job' = [job EXCEPT ![w] = Head(queue)] /\ at' = [at EXCEPT ![w] = "begin"]
        /\ job[w] = Idle
    BY <1>0, <1>4 DEF Take, Goes
  <2>2. \A x : InQueue(queue, x) <=> InQueue(queue', x) \/ x = Head(queue)
    BY <2>1, <1>0, TakeQueue
  <2>3. /\ job'[w] = Head(queue) /\ at'[w] = "begin"
        /\ \A v \in Worker : v # w => job'[v] = job[v] /\ at'[v] = at[v]
    BY <2>1, <1>0
  <2>4. \A s \in Session : UnderWay(s)' <=> UnderWay(s)
    BY <2>1, <2>2, <2>3, JobShape DEF UnderWay
  <2>. QED  BY <1>1, <2>1, <2>4
<1>5. ASSUME NEW w \in Worker, CreateReply(w) PROVE AnswersInv'
  <2>. DEFINE s == job[w].session
  <2>1. /\ at[w] = "reply" /\ at' = [at EXCEPT ![w] = "end"]
        /\ sent' = [sent EXCEPT ![s] = @ \cup {"reply"}]
        /\ UNCHANGED <<asked, queue, job>>
    BY <1>5 DEF CreateReply, Goes, Send
  <2>2. s \in Session /\ job[w] = CreateJob(s)
    BY <2>1, WorksOn DEF PlacesInv
  <2>. HIDE DEF s
  <2>3. /\ ~InQueue(queue, CreateJob(s))
        /\ \A v \in Worker : job[v] = CreateJob(s) => v = w
    BY <2>2, JobShape DEF JobsInv
  <2>4. at'[w] = "end" /\ \A v \in Worker : v # w => at'[v] = at[v]
    BY <2>1, <1>0
  <2>5. \A t \in Session : UnderWay(t)' <=> UnderWay(t) /\ t # s
    BY <2>1, <2>2, <2>3, <2>4, JobShape DEF UnderWay
  <2>6. UnderWay(s)
    BY <2>1, <2>2 DEF UnderWay
  <2>7. /\ sent'[s] = sent[s] \cup {"reply"}
        /\ \A t \in Session : t # s => sent'[t] = sent[t]
    BY <2>1, <2>2, <1>0
  <2>8. \A t \in Session : Unanswered(t)' <=> Unanswered(t) /\ t # s
    BY <2>1, <2>7 DEF Unanswered
  <2>9. asked[s] # NoConn
    BY <2>2, <2>6 DEF AnswersInv, Unanswered
  <2>. QED  BY <2>1, <2>5, <2>7, <2>8, <2>9 DEF AnswersInv
<1>6. ASSUME NEW w \in Worker,
             CreateSearch(w) \/ CreateRegister(w) \/ UpdateBegin(w) \/ UpdateSearch(w)
      PROVE  AnswersInv'
  <2>1. /\ UNCHANGED <<asked, queue, job>> /\ at[w] \notin {"end", "idle"}
        /\ \E to \in {"register", "reply", "search", "end"} : at' = [at EXCEPT ![w] = to]
        /\ at'[w] = "end" => job[w].kind = "update"
    <3>1. CASE CreateSearch(w)
      BY <1>0, <3>1 DEF CreateSearch, FirstSearch, Goes
    <3>2. CASE CreateRegister(w)
      BY <1>0, <3>2 DEF CreateRegister, Goes
    <3>3. CASE UpdateBegin(w)
      BY <1>0, <3>3 DEF UpdateBegin, Goes
    <3>4. CASE UpdateSearch(w)
      BY <1>0, <3>4 DEF UpdateSearch, SearchEnds, Goes, PlacesInv
    <3>. QED  BY <1>6, <3>1, <3>2, <3>3, <3>4
  <2>2. \A v \in Worker : v # w => at'[v] = at[v]
    BY <1>0, <2>1
  <2>3. \A s \in Session, v \in Worker :
          job[v] = CreateJob(s) => (at'[v] # "end" <=> at[v] # "end")
    BY <2>1, <2>2, JobShape
  <2>4. \A s \in Session : UnderWay(s)' <=> UnderWay(s)
    BY <2>1, <2>3 DEF UnderWay
  <2>5. sent' = sent \/ \E s : sent' = [sent EXCEPT ![s] = @ \cup {"update"}]
    BY <1>6 DEF CreateSearch, CreateRegister, UpdateBegin, UpdateSearch, SearchEnds, Send
  <2>6. \A s \in Session : "reply" \in sent'[s] <=> "reply" \in sent[s]
    BY <1>0, <2>5
  <2>. QED  BY <1>1, <2>1, <2>4, <2>6
<1>7. ASSUME NEW w \in Worker, JobEnds(w) PROVE AnswersInv'
  <2>1. /\ at[w] = "end" /\ at' = [at EXCEPT ![w] = "idle"] /\ UNCHANGED <<asked, queue, sent>>
        /\ job' = [job EXCEPT ![w] = Idle]
    BY <1>7 DEF JobEnds, Goes
  <2>2. job'[w] = Idle /\ \A v \in Worker : v # w => job'[v] = job[v] /\ at'[v] = at[v]
    BY <1>0, <2>1
  <2>3. \A s \in Session : UnderWay(s)' <=> UnderWay(s)
    BY <2>1, <2>2, JobShape DEF UnderWay
  <2>. QED  BY <1>1, <2>1, <2>3
<1>8. ASSUME NEW s \in Session, Visit(s) PROVE AnswersInv'
  <2>1. /\ UNCHANGED <<asked, job, at, sent>>
        /\ queue' = queue \/ queue' = Append(queue, UpdateJob(s))
    BY <1>8 DEF Visit
  <2>2. \A t \in Session : InQueue(queue', CreateJob(t)) <=> InQueue(queue, CreateJob(t))
    <3>1. CASE queue' = Append(queue, UpdateJob(s))
      <4>1. \A x : InQueue(queue', x) <=> InQueue(queue, x) \/ x = UpdateJob(s)
        BY <3>1, <1>0, AppendQueue, JobShape
      <4>. QED  BY <4>1, JobShape
    <3>. QED  BY <2>1, <3>1
  <2>3. \A t \in Session : UnderWay(t)' <=> UnderWay(t)
    BY <2>1, <2>2 DEF UnderWay
  <2>. QED  BY <1>1, <2>1, <2>3
<1>9. ASSUME NEW c \in Conn, Close(c) \/ Break(c) \/ DropConnection(c) PROVE AnswersInv'
  BY <1>2, <1>9 DEF Close, Break, DropConnection, poolVars
<1>10. CASE Tick \/ LedgerClose \/ EndRound \/ UNCHANGED vars
  BY <1>2, <1>10 DEF Tick, LedgerClose, StartRound, EndRound, vars, poolVars
<1>. QED
  BY <1>3, <1>4, <1>5, <1>6, <1>7, <1>8, <1>9, <1>10
  DEF Next, ConnStep, WorkerStep, RoundStep

LEMMA AnswersAlways == Spec => []AnswersInv
<1>1. Init => AnswersInv
  <2>1. ASSUME Init PROVE AnswersInv
    BY <2>1, EmptyQueue, JobShape DEF Init, AnswersInv, Unanswered, UnderWay
  <2>. QED  BY <2>1
<1>2. SubsInv /\ AnswersInv /\ [Next]_vars => AnswersInv'
  BY StepAnswers
<1>. QED  BY <1>1, <1>2, SubsInductive, PTL DEF Spec

(* Every variable keeps its type, and the pool's queue, which has no limit *)
(* of its own, never holds more than a create and an update of each        *)
(* session that was ever asked for.                                        *)
THEOREM TypeCorrect == Spec => []TypeOK
<1>1. SubsInv => TypeOK
  BY TypeParts, QueueBound DEF SubsInv, Types, PoolType, JobsInv
<1>. QED  BY SubsInductive, <1>1, PTL

(* OneInFlight: a session's updating_ is up exactly when one update of it  *)
(* is queued or running, whatever rounds, closes, drops and failures come  *)
(* in between: no two workers search for one session, and none stays       *)
(* marked.  And a create is unanswered exactly while its job is queued or  *)
(* under way: none is lost without an answer, none answered twice.         *)
THEOREM UpdatesExclude == Spec => []OneInFlight
<1>1. ASSUME SubsInv, NEW s \in Session
      PROVE  UpdatesOf(s) = IF updating[s] THEN 1 ELSE 0
  <2>. DEFINE Q == {i \in DOMAIN queue : queue[i] = UpdateJob(s)}
              W == {w \in Worker : job[w] = UpdateJob(s)}
  <2>1. DOMAIN queue = 1 .. Len(queue) /\ UpdateJob(s) # Idle
    BY <1>1, JobShape DEF SubsInv, Types, PoolType
  <2>2. /\ Q # {} <=> InQueue(queue, UpdateJob(s))
        /\ W # {} <=> Running(UpdateJob(s))
        /\ updating[s] <=> Q # {} \/ W # {}
        /\ Q = {} \/ W = {}
    BY <1>1, <2>1 DEF SubsInv, JobsInv, InHand, InQueue, Running
  <2>3. ASSUME NEW i \in Q PROVE Q = {i}
    BY <1>1, <2>1, <2>3 DEF SubsInv, JobsInv, NoneTwice
  <2>4. ASSUME NEW w \in W PROVE W = {w}
    BY <1>1, <2>1, <2>4 DEF SubsInv, JobsInv
  <2>. HIDE DEF Q, W
  <2>5. Cardinality(Q) = IF Q = {} THEN 0 ELSE 1
    <3>1. CASE Q = {}
      BY <3>1, FS_EmptySet
    <3>2. CASE \E i : Q = {i}
      BY <3>2, FS_Singleton
    <3>. QED  BY <2>3, <3>1, <3>2
  <2>6. Cardinality(W) = IF W = {} THEN 0 ELSE 1
    <3>1. CASE W = {}
      BY <3>1, FS_EmptySet
    <3>2. CASE \E w : W = {w}
      BY <3>2, FS_Singleton
    <3>. QED  BY <2>4, <3>1, <3>2
  <2>7. Cardinality(Q) + Cardinality(W) = IF updating[s] THEN 1 ELSE 0
    BY <2>2, <2>5, <2>6
  <2>. QED  BY <2>7 DEF UpdatesOf, Q, W
<1>2. ASSUME SubsInv, AnswersInv, NEW s \in Session
      PROVE  asked[s] # NoConn /\ "reply" \notin sent[s] <=>
               \/ \E i \in DOMAIN queue : queue[i] = CreateJob(s)
               \/ \E w \in Worker : job[w] = CreateJob(s) /\ at[w] # "end"
  <2>1. DOMAIN queue = 1 .. Len(queue)
    BY <1>2 DEF SubsInv, Types, PoolType
  <2>. QED  BY <1>2, <2>1 DEF AnswersInv, Unanswered, UnderWay, InQueue
<1>3. SubsInv /\ AnswersInv /\ TypeOK => OneInFlight
  BY <1>1, <1>2 DEF OneInFlight
<1>. QED  BY SubsInductive, AnswersAlways, TypeCorrect, <1>3, PTL

(* subs_ and connToSession_ name the same sessions, one of a connection at *)
(* most and none that is closed, however the creates, closes and drops of  *)
(* the same connection interleave on the workers and the strand.           *)
THEOREM TablesAgree == Spec => []RegistryAgrees
<1>1. SubsInv => RegistryAgrees
  BY DEF SubsInv
<1>. QED  BY SubsInductive, <1>1, PTL
=============================================================================
