---------------------------- MODULE Subscriptions ----------------------------
(***************************************************************************)
(* path_find subscriptions (src/src/edgy/engine.cpp, session.hpp): clients *)
(* create and close sessions over their connections, the apply thread      *)
(* reprices every open session on each tick and each ledger close, and the *)
(* worker pool runs the searches of both.                                  *)
(*                                                                         *)
(* subMutex_ guards subs_ and connToSession_, so what is done under it is  *)
(* one step.  close and dropConnection run on the connection's strand;     *)
(* create and every update run as jobs of the pool, in any worker.         *)
(***************************************************************************)
EXTENDS Integers, Sequences, FiniteSets

CONSTANTS
  Conn,        \* client connections
  Session,     \* sessions, named in advance: nextId_ never repeats
  Worker,      \* workers of the pool
  DeepenMax,   \* 4 in the code: sessions one round lets search deeper
  NoConn,      \* the connection of a session nobody asked for
  Idle         \* the job of a worker that has none

JobRec == [kind : {"create", "update"}, session : Session]

ASSUME SubscriptionAssumption ==
  /\ DeepenMax \in Nat
  /\ Worker # {} /\ IsFiniteSet(Worker) /\ IsFiniteSet(Session)
  /\ NoConn \notin Conn /\ Idle \notin JobRec

VARIABLES
  socket,                 \* per connection: "open", "broken" or "dropped"
  asked,                  \* per session: the connection that asked for it
  subs, connToSession,    \* subs_ (its keys) and connToSession_ (its pairs)
  closing, updating,      \* closing_ and updating_ of each session
  queue, job, at,         \* the pool, each worker's job and place in it
  round, live,            \* a repricing in progress, sessions left to visit
  deepenLeft,             \* how many it may still let search deeper
  sent                    \* per session: kinds of frames sent to the client

regVars == <<subs, connToSession, closing>>
poolVars == <<queue, job, at>>
roundVars == <<round, live, deepenLeft>>
vars == <<socket, asked, regVars, updating, poolVars, roundVars, sent>>

CreateJob(s) == [kind |-> "create", session |-> s]
UpdateJob(s) == [kind |-> "update", session |-> s]

Init ==
  /\ socket = [c \in Conn |-> "open"]
  /\ asked = [s \in Session |-> NoConn]
  /\ subs = {} /\ connToSession = {}
  /\ closing = [s \in Session |-> FALSE]
  /\ updating = [s \in Session |-> FALSE]
  /\ queue = << >>
  /\ job = [w \in Worker |-> Idle] /\ at = [w \in Worker |-> "idle"]
  /\ round = "none" /\ live = {} /\ deepenLeft = 0
  /\ sent = [s \in Session |-> {}]

Send(s, frame) == sent' = [sent EXCEPT ![s] = @ \cup {frame}]

-----------------------------------------------------------------------------
(* The registry, under subMutex_. *)

Owned(c) == {s \in Session : <<c, s>> \in connToSession}

(* Slip: the older session is left in subs_ when its index entry goes. *)
ForgetIndexOnly(c, new) ==
  /\ connToSession' = {p \in connToSession : p[1] # c}
                        \cup {<<c, s>> : s \in new}
  /\ subs' = subs \cup new
  /\ UNCHANGED closing

(* forgetConnSessions, and the registration that may follow it under the   *)
(* same lock: every session of the connection is closed and taken out, and *)
(* the new ones are entered.                                               *)
ForgetConnSessions(c, new) ==
  /\ connToSession' = {p \in connToSession : p[1] # c}
                        \cup {<<c, s>> : s \in new}
  /\ subs' = (subs \ Owned(c)) \cup new
  /\ closing' = [s \in Session |-> closing[s] \/ s \in subs \cap Owned(c)]

-----------------------------------------------------------------------------
(* A connection's strand. *)

(* path_find create: a job for the pool. *)
Create(c, s) ==
  /\ socket[c] = "open" /\ asked[s] = NoConn
  /\ asked' = [asked EXCEPT ![s] = c]
  /\ queue' = Append(queue, CreateJob(s))
  /\ UNCHANGED <<socket, regVars, updating, job, at, roundVars, sent>>

(* path_find close, answered on the spot. *)
Close(c) ==
  /\ socket[c] = "open"
  /\ ForgetConnSessions(c, {})
  /\ UNCHANGED <<socket, asked, updating, poolVars, roundVars, sent>>

Break(c) ==
  /\ socket[c] = "open"
  /\ socket' = [socket EXCEPT ![c] = "broken"]
  /\ UNCHANGED <<asked, regVars, updating, poolVars, roundVars, sent>>

(* The strand's read fails, and dropConnection is its last act. *)
DropConnection(c) ==
  /\ socket[c] = "broken"
  /\ socket' = [socket EXCEPT ![c] = "dropped"]
  /\ ForgetConnSessions(c, {})
  /\ UNCHANGED <<asked, updating, poolVars, roundVars, sent>>

-----------------------------------------------------------------------------
(* The workers. *)

Goes(w, from, to) == at[w] = from /\ at' = [at EXCEPT ![w] = to]

Take(w) ==
  /\ Goes(w, "idle", "begin")
  /\ queue # << >>
  /\ job' = [job EXCEPT ![w] = Head(queue)]
  /\ queue' = Tail(queue)
  /\ UNCHANGED <<socket, asked, regVars, updating, roundVars, sent>>

(* Slip: what the first search throws is not answered. *)
FirstSearchEscapes(w) ==
  Goes(w, "begin", "register") \/ Goes(w, "begin", "reply") \/ Goes(w, "begin", "end")

(* The first search, on a session nobody else can reach yet.  The engine   *)
(* is not ready, or the request is not valid, or the search throws: the    *)
(* error is the answer.                                                    *)
FirstSearch(w) == Goes(w, "begin", "register") \/ Goes(w, "begin", "reply")

CreateSearch(w) ==
  /\ job[w] # Idle /\ job[w].kind = "create"
  /\ FirstSearch(w)
  /\ UNCHANGED <<socket, asked, regVars, updating, queue, job, roundVars, sent>>

CreateRegister(w) ==
  /\ Goes(w, "register", "reply")
  /\ ForgetConnSessions(asked[job[w].session], {job[w].session})
  /\ UNCHANGED <<socket, asked, updating, queue, job, roundVars, sent>>

CreateReply(w) ==
  /\ Goes(w, "reply", "end")
  /\ Send(job[w].session, "reply")
  /\ UNCHANGED <<socket, asked, regVars, updating, queue, job, roundVars>>

(* A session closed meanwhile is not searched for. *)
UpdateBegin(w) ==
  /\ job[w] # Idle /\ job[w].kind = "update"
  /\ Goes(w, "begin", IF closing[job[w].session] THEN "end" ELSE "search")
  /\ UNCHANGED <<socket, asked, regVars, updating, queue, job, roundVars, sent>>

(* Slip: a search that throws does not get to endUpdate. *)
SearchEscapes(w) ==
  \/ Goes(w, "search", "end") /\ Send(job[w].session, "update") /\ UNCHANGED job
  \/ Goes(w, "search", "idle") /\ job' = [job EXCEPT ![w] = Idle] /\ UNCHANGED sent

(* doUpdate and the push of its result; when it throws nothing is pushed.  *)
SearchEnds(w) ==
  /\ Goes(w, "search", "end")
  /\ Send(job[w].session, "update") \/ UNCHANGED sent
  /\ UNCHANGED job

UpdateSearch(w) ==
  /\ SearchEnds(w)
  /\ UNCHANGED <<socket, asked, regVars, updating, queue, roundVars>>

(* endUpdate, whatever became of the search. *)
JobEnds(w) ==
  /\ Goes(w, "end", "idle")
  /\ updating' = IF job[w].kind = "update"
                 THEN [updating EXCEPT ![job[w].session] = FALSE] ELSE updating
  /\ job' = [job EXCEPT ![w] = Idle]
  /\ UNCHANGED <<socket, asked, regVars, queue, roundVars, sent>>

-----------------------------------------------------------------------------
(* The apply thread. *)

Open == {s \in subs : ~closing[s]}
PoolPending == Len(queue) + Cardinality({w \in Worker : job[w] # Idle})

StartRound(kind) ==
  /\ round = "none"
  /\ round' = kind /\ live' = Open
  /\ deepenLeft' = DeepenMax
  /\ UNCHANGED <<socket, asked, regVars, updating, poolVars, sent>>

(* midCloseTick: not while the pool is behind, nor for nobody. *)
Tick ==
  /\ PoolPending <= Cardinality(Worker) /\ Open # {}
  /\ StartRound("tick")

(* applyLedgerClosed reprices without looking at the pool. *)
LedgerClose == StartRound("close")

MayDeepen == deepenLeft > 0

(* Slip: an update is submitted though one is in flight. *)
BeginAlways(s) == TRUE

(* The compare-and-swap of tryBeginUpdate succeeds. *)
TryBeginUpdate(s) == ~updating[s]

(* One session of notifySubscriptions: skipped while an update of it is in *)
(* flight.  It only revalidates its paths, unless it is due (shouldDeepen, *)
(* by its age) and the round has not let enough others go deeper.          *)
Visit(s) ==
  /\ round # "none" /\ s \in live
  /\ live' = live \ {s}
  /\ \/ /\ ~TryBeginUpdate(s)
        /\ UNCHANGED <<updating, queue, deepenLeft>>
     \/ /\ TryBeginUpdate(s)
        /\ updating' = [updating EXCEPT ![s] = TRUE]
        /\ queue' = Append(queue, UpdateJob(s))
        /\ \/ UNCHANGED deepenLeft
           \/ ~closing[s] /\ MayDeepen /\ deepenLeft' = deepenLeft - 1
  /\ UNCHANGED <<socket, asked, regVars, job, at, round, sent>>

EndRound ==
  /\ round # "none" /\ live = {}
  /\ round' = "none" /\ deepenLeft' = 0
  /\ UNCHANGED <<socket, asked, regVars, updating, poolVars, live, sent>>

-----------------------------------------------------------------------------
ConnStep(c) ==
  Close(c) \/ Break(c) \/ DropConnection(c) \/ \E s \in Session : Create(c, s)
WorkerStep(w) ==
  \/ Take(w) \/ CreateSearch(w) \/ CreateRegister(w) \/ CreateReply(w)
  \/ UpdateBegin(w) \/ UpdateSearch(w) \/ JobEnds(w)
RoundStep == EndRound \/ \E s \in Session : Visit(s)

Next ==
  \/ \E c \in Conn : ConnStep(c)
  \/ \E w \in Worker : WorkerStep(w)
  \/ Tick \/ LedgerClose \/ RoundStep

(* The workers run, the apply thread goes on and its interval elapses, and *)
(* a broken socket's strand sees the error.  No client has to do anything, *)
(* and no ledger has to close.                                             *)
Fairness ==
  /\ \A w \in Worker : WF_vars(WorkerStep(w))
  /\ WF_vars(Tick) /\ WF_vars(RoundStep)
  /\ \A c \in Conn : WF_vars(DropConnection(c))

Spec == Init /\ [][Next]_vars
FairSpec == Spec /\ Fairness

-----------------------------------------------------------------------------
(* Properties. *)

(* Every variable stays within its type, and the pool's queue, which has no *)
(* limit of its own, within a create and an update of every session.       *)
TypeOK ==
  /\ socket \in [Conn -> {"open", "broken", "dropped"}]
  /\ asked \in [Session -> Conn \cup {NoConn}]
  /\ subs \subseteq Session /\ connToSession \subseteq Conn \X Session
  /\ closing \in [Session -> BOOLEAN] /\ updating \in [Session -> BOOLEAN]
  /\ queue \in Seq(JobRec) /\ Len(queue) <= 2 * Cardinality(Session)
  /\ job \in [Worker -> JobRec \cup {Idle}]
  /\ at \in [Worker -> {"idle", "begin", "register", "reply", "search", "end"}]
  /\ \A w \in Worker : job[w] = Idle <=> at[w] = "idle"
  /\ round \in {"none", "tick", "close"} /\ live \subseteq Session
  /\ deepenLeft \in 0 .. DeepenMax
  /\ sent \in [Session -> SUBSET {"reply", "update"}]

UpdatesOf(s) ==
  Cardinality({i \in DOMAIN queue : queue[i] = UpdateJob(s)})
    + Cardinality({w \in Worker : job[w] = UpdateJob(s)})

(* One update is in flight per session: a session's flag is up exactly     *)
(* when one update of it is queued or running, so two workers never search *)
(* for the same session and no session is left marked for ever.  And a     *)
(* create is unanswered exactly while its job is queued or under way, so   *)
(* that none is dropped without an answer or answered twice.               *)
OneInFlight ==
  /\ TypeOK
  /\ \A s \in Session : UpdatesOf(s) = IF updating[s] THEN 1 ELSE 0
  /\ \A s \in Session :
       asked[s] # NoConn /\ "reply" \notin sent[s] <=>
         \/ \E i \in DOMAIN queue : queue[i] = CreateJob(s)
         \/ \E w \in Worker : job[w] = CreateJob(s) /\ at[w] # "end"

(* A connection has at most one session, the index and the table name the  *)
(* same ones, and none of them is closed, however creates, closes and      *)
(* drops of the same connection interleave on the workers and the strand.  *)
RegistryAgrees ==
  /\ connToSession = {<<asked[s], s>> : s \in subs}
  /\ \A s, t \in subs : asked[s] = asked[t] => s = t
  /\ \A s \in subs : ~closing[s]

(* A worker takes up a session that stays open again and again, whether    *)
(* its searches throw or not and however far the pool falls behind,        *)
(* although ticks are skipped while it is.                                 *)
Repriced ==
  \A s \in Session : []<>(s \notin subs \/ \E w \in Worker : job[w] = UpdateJob(s))

(* Every create is answered. *)
CreateAnswered == \A s \in Session : asked[s] # NoConn ~> "reply" \in sent[s]

-----------------------------------------------------------------------------
(* What the repository says and the code does not do. *)

(* README.md:35: a subscription deepens while the socket stays open.  A    *)
(* create that is still searching when its connection is dropped registers *)
(* the session afterwards, and nothing ever takes it out.                  *)
NoSessionWithoutSocket == \A s \in subs : socket[asked[s]] # "dropped"

(* README.md:200: create returns a first result, later frames are updates. *)
(* The session is open to the apply thread before its create is answered.  *)
ReplyFirst == \A s \in Session : "update" \in sent[s] => "reply" \in sent[s]
=============================================================================
