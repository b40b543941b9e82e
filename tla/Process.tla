------------------------------- MODULE Process -------------------------------
(***************************************************************************)
(* The process (src/src/app/main.cpp) from its start to its end: main, the *)
(* network threads that run the io_context, the engine's pool, sync and    *)
(* apply threads, the detached threads of proxied requests, and the signal *)
(* handler, which runs on a network thread and joins the others.           *)
(*                                                                         *)
(* The pool is the one of ThreadPool.  The link to the node is only up or  *)
(* not here (NodeClient has its detail); of the engine's two threads there *)
(* is where they wait (EngineSync has theirs).                             *)
(***************************************************************************)
EXTENDS Naturals, Sequences, FiniteSets

CONSTANTS
  Heavy,     \* path requests, run by the pool: ThreadPool's jobs
  Proxied,   \* requests passed on to the node
  Worker, NoJob,
  Net,       \* network threads
  Main, Sync \* the other two that ask the node

Request == Heavy \cup Proxied
Asker == Proxied \cup {Main, Sync}

ASSUME ProcessAssumption ==
  /\ IsFiniteSet(Worker) /\ Worker # {} /\ IsFiniteSet(Heavy)
  /\ Heavy \cap Proxied = {} /\ Net # {}
  /\ Heavy \cap {"none", "free", "dialing", "signal", "last", "gone"} = {}
  /\ NoJob \notin Heavy /\ Main # Sync /\ {Main, Sync} \cap Proxied = {}

VARIABLES
  jobs, stop, pending, wpc, held, spc, shut, runs,  \* ThreadPool's
  main,      \* where main is
  net,       \* each network thread: "free", or in a handler, or gone
  io,        \* the io_context runs
  link,      \* "idle", "dial" (a connect is posted) or "up"
  pend,      \* each asker's request to the node
  sync,      \* the engine's sync thread
  apply,     \* its apply thread, and what it has in its queue
  ready,     \* ready_: the apply thread may apply what is queued
  engine,    \* Engine::stop(): "no" until it is called, then its progress
  place,     \* each request: "new", "in" or "answered"
  sig        \* SIGINT or SIGTERM was received

poolVars == <<jobs, stop, pending, wpc, held, spc, shut, runs>>
mainVars == <<main, io, engine, sig>>
syncVars == <<sync, apply, ready>>
nodeVars == <<link, pend, syncVars>>
vars == <<poolVars, mainVars, nodeVars, net, place>>

Pool == INSTANCE ThreadPool WITH Job <- Heavy

Init ==
  /\ Pool!Init
  /\ main = "new" /\ io = TRUE /\ engine = "no" /\ sig = FALSE
  /\ link = "idle" /\ sync = "none" /\ apply = "none" /\ ready = FALSE
  /\ pend = [a \in Asker |-> "none"]
  /\ place = [r \in Request |-> "new"]
  /\ net = [n \in Net |-> "none"]

Over == main \in {"exited", "fatal", "aborted"}
Free(n) == net[n] = "free" /\ io
Go(n, where) == net' = [net EXCEPT ![n] = where]

-----------------------------------------------------------------------------
(* Requests to the node.  A request that finds no stream is thrown away    *)
(* and stays pending; one that was sent is answered on a network thread.   *)

Unsettled == {"sent", "lost"}
Failed == [a \in Asker |-> IF pend[a] \in Unsettled THEN "error" ELSE pend[a]]
Ask(a) == pend' = [pend EXCEPT ![a] = IF link = "up" THEN "sent" ELSE "lost"]

Reply(n, a) ==
  /\ Free(n) /\ link = "up" /\ pend[a] = "sent"
  /\ pend' = [pend EXCEPT ![a] = "value"]
  /\ UNCHANGED <<poolVars, mainVars, net, link, syncVars, place>>

(* Slip: the future is waited for without a limit.                         *)
WaitsForever(a) == FALSE

RunsOut(a) == pend[a] \in Unsettled

Timeout(a) ==
  /\ ~Over /\ RunsOut(a)
  /\ pend' = [pend EXCEPT ![a] = "error"]
  /\ UNCHANGED <<poolVars, mainVars, net, link, syncVars, place>>

(* The connect blocks the network thread that runs it. *)
Dial(n) ==
  /\ Free(n) /\ link = "dial"
  /\ link' = "idle" /\ Go(n, "dialing")
  /\ UNCHANGED <<poolVars, mainVars, pend, syncVars, place>>

Dialed(n) ==
  /\ net[n] = "dialing" /\ Go(n, "free")
  /\ link' \in {link, "up"}
  /\ UNCHANGED <<poolVars, mainVars, pend, syncVars, place>>

(* streamFailed(), which tells the engine. *)
LinkLost(n) ==
  /\ Free(n) /\ link = "up"
  /\ link' = "idle" /\ pend' = Failed /\ ready' = FALSE
  /\ UNCHANGED <<poolVars, mainVars, net, sync, apply, place>>

-----------------------------------------------------------------------------
(* main(). *)

(* node->run() throws on a URL it cannot read, before there is a thread;   *)
(* [net-threads] may be 1.                                                 *)
First == CHOOSE n \in Net : TRUE

Start ==
  /\ main = "new"
  /\ \/ main' = "fatal" /\ UNCHANGED <<link, net>>
     \/ /\ main' = "dial" /\ link' = "dial"
        /\ \E started \in SUBSET Net :
             /\ First \in started
             /\ net' = [n \in Net |-> IF n \in started THEN "free" ELSE "none"]
  /\ UNCHANGED <<poolVars, io, engine, sig, pend, syncVars, place>>

(* shutdownIo(), up to its joins. *)
GiveUp ==
  /\ main' = "quit" /\ io' = FALSE
  /\ link' = "idle"
  /\ UNCHANGED <<poolVars, engine, sig, syncVars, net, place>>

(* connected() within 30 s or not; nothing connects a second time. *)
Connected ==
  /\ main = "dial" /\ link = "up"
  /\ main' = "ask" /\ Ask(Main)
  /\ UNCHANGED <<poolVars, io, engine, sig, link, syncVars, net, place>>

ConnectDeadline == main = "dial" /\ link # "up" /\ GiveUp /\ UNCHANGED pend

(* server_info answers with a state that will do; the engine starts its    *)
(* two threads.                                                            *)
UpstreamOk ==
  /\ main = "ask" /\ pend[Main] = "value"
  /\ main' = "listen" /\ pend' = [pend EXCEPT ![Main] = "none"]
  /\ sync' = "link" /\ apply' = "runs"
  /\ UNCHANGED <<poolVars, io, engine, sig, link, ready, net, place>>

UpstreamBad ==
  /\ main = "ask" /\ pend[Main] \in {"value", "error"}
  /\ GiveUp /\ pend' = [Failed EXCEPT ![Main] = "none"]

NetGone == \A n \in Net : net[n] \in {"none", "gone"}

GaveUp ==
  /\ main = "quit" /\ NetGone /\ main' = "fatal"
  /\ UNCHANGED <<poolVars, io, engine, sig, nodeVars, net, place>>

(* server.start() throws when an address is taken: ~Engine() stops the     *)
(* engine, and then threads that are still joinable are destroyed, which   *)
(* calls std::terminate.                                                   *)
Listen ==
  /\ main = "listen"
  /\ \/ main' = "serve" /\ UNCHANGED engine
     \/ main' = "unwind" /\ engine' = "pool"
  /\ UNCHANGED <<poolVars, io, sig, nodeVars, net, place>>

Unwound ==
  /\ main = "unwind" /\ engine = "done" /\ main' = "aborted"
  /\ UNCHANGED <<poolVars, io, engine, sig, nodeVars, net, place>>

(* The network threads are joined, then main's objects are destroyed. *)
Joined ==
  /\ main = "serve" /\ NetGone /\ main' = "torn"
  /\ UNCHANGED <<poolVars, io, engine, sig, nodeVars, net, place>>

Exit ==
  /\ main = "torn" /\ main' = "exited"
  /\ UNCHANGED <<poolVars, io, engine, sig, nodeVars, net, place>>

MainStep ==
  \/ Start \/ Connected \/ ConnectDeadline \/ UpstreamOk \/ UpstreamBad
  \/ GaveUp \/ Listen \/ Unwound \/ Joined \/ Exit

-----------------------------------------------------------------------------
(* The sync thread, which looks at stop_ between any two of its waits. *)

(* ready_ is set at the end of a snapshot and cleared by any other way on. *)
SyncTo(where) ==
  /\ sync' = where
  /\ ready' = (where = "ready" \/ (where = "gone" /\ ready))
SyncKeeps == UNCHANGED <<poolVars, mainVars, net, place>>

SyncStops ==
  /\ engine # "no" /\ sync \in {"link", "ready"}
  /\ SyncTo("gone")
  /\ UNCHANGED <<link, pend, apply>> /\ SyncKeeps

SyncAsks ==
  /\ sync = "link" /\ link = "up" /\ engine = "no"
  /\ SyncTo("ask") /\ Ask(Sync)
  /\ UNCHANGED <<link, apply>> /\ SyncKeeps

(* subscribe, ledger and the pages of ledger_data, one after another; the  *)
(* first answer brings the stream.                                         *)
SyncAnswered ==
  /\ sync = "ask" /\ pend[Sync] = "value"
  /\ \/ SyncTo("ready") /\ pend' = [pend EXCEPT ![Sync] = "none"]
     \/ SyncTo("ask") /\ engine = "no" /\ Ask(Sync)
  /\ apply' = "fed"
  /\ UNCHANGED link /\ SyncKeeps

(* The node's error, a timeout or a lost stream is caught: node->stop(),   *)
(* and node->run() soon after.                                             *)
Redial == SyncTo("link") /\ link' = "dial" /\ pend' = [Failed EXCEPT ![Sync] = "none"]

SyncFailed ==
  /\ sync = "ask" /\ pend[Sync] \in {"value", "error"}
  /\ IF engine = "no" THEN Redial
     ELSE SyncTo("gone") /\ pend' = [pend EXCEPT ![Sync] = "none"] /\ UNCHANGED link
  /\ UNCHANGED apply /\ SyncKeeps

SyncResyncs ==
  /\ sync = "ready" /\ engine = "no"
  /\ IF link = "up" THEN SyncTo("link") /\ UNCHANGED <<link, pend>> ELSE Redial
  /\ UNCHANGED apply /\ SyncKeeps

SyncStep ==
  SyncStops \/ SyncAsks \/ SyncAnswered \/ SyncFailed \/ SyncResyncs

-----------------------------------------------------------------------------
(* The apply thread.  Nobody here waits for it but Engine::stop() in the   *)
(* end, so what it does before that is not followed: if the stream ever    *)
(* brought messages, it is found with some of them queued, or with none.   *)

StockTaken == apply' \in IF apply = "fed" THEN {"idle", "queued"} ELSE {"idle"}

ApplyTo(where) ==
  /\ apply' = where
  /\ UNCHANGED <<poolVars, mainVars, link, pend, sync, ready, net, place>>

(* A message of the node's stream is queued by a network thread. *)
StreamMessage(n) ==
  /\ Free(n) /\ link = "up"
  /\ apply = "idle" /\ ApplyTo("queued")

(* The apply loop holds messages while the engine is not ready. *)
Held == apply = "queued" /\ ~ready

ApplyDrains == apply = "queued" /\ ~Held /\ ApplyTo("idle")

(* It looks at the stop flag when its queue is empty. *)
ApplyLeaves == apply = "idle" /\ ApplyTo("gone")

-----------------------------------------------------------------------------
(* Requests of clients: dispatch() on a network thread. *)

Serving == main = "serve"
Answer(r) == place' = [place EXCEPT ![r] = "answered"]
Take(r) == place' = [place EXCEPT ![r] = "in"]

(* Slip: an exception of submit() is counted and not answered.             *)
RefusedSilently(r) == Take(r)

(* ripplePathFind() and pathFind() answer what submit() refuses. *)
TakeOrRefuse(r) == IF stop THEN Answer(r) ELSE Take(r)

Dispatch(n, r) ==
  /\ Free(n) /\ Serving
  /\ Pool!Submit(r)
  /\ TakeOrRefuse(r)
  /\ IF stop THEN UNCHANGED net ELSE Go(n, r)
  /\ UNCHANGED <<mainVars, nodeVars>>

DispatchEnds(n) ==
  /\ \E r \in Heavy : net[n] = r /\ Pool!NotifyOne(r)
  /\ Go(n, "free")
  /\ UNCHANGED <<mainVars, nodeVars, place>>

(* A proxied request is asked by a detached thread of its own. *)
Proxy(n, q) ==
  /\ Free(n) /\ Serving /\ place[q] = "new"
  /\ Take(q) /\ Ask(q)
  /\ UNCHANGED <<poolVars, mainVars, link, syncVars, net>>

ProxyAnswers(q) ==
  /\ ~Over /\ place[q] = "in" /\ pend[q] \in {"value", "error"}
  /\ Answer(q) /\ pend' = [pend EXCEPT ![q] = "none"]
  /\ UNCHANGED <<poolVars, mainVars, link, syncVars, net>>

-----------------------------------------------------------------------------
(* The pool's workers, from the Engine's construction on. *)

WorkerMoves(w) ==
  /\ sync # "none" /\ ~Over
  /\ \/ /\ Pool!WorkerWait(w) \/ Pool!WorkerExit(w) \/ Pool!WorkerTake(w)
           \/ Pool!WorkerCount(w)
        /\ UNCHANGED place
     \/ Pool!WorkerRun(w) /\ Answer(held[w])
  /\ UNCHANGED <<mainVars, nodeVars, net>>

SpuriousWake(w) ==
  /\ sync # "none" /\ ~Over /\ Pool!SpuriousWake(w)
  /\ UNCHANGED <<mainVars, nodeVars, net, place>>

-----------------------------------------------------------------------------
(* The end. *)

Signal ==
  /\ Serving /\ io /\ ~sig /\ sig' = TRUE
  /\ UNCHANGED <<poolVars, main, io, engine, nodeVars, net, place>>

(* server.stop() closes the acceptors, and engine.stop() begins. *)
SignalTaken(n) ==
  /\ Free(n) /\ sig /\ engine = "no"
  /\ engine' = "pool" /\ Go(n, "signal")
  /\ UNCHANGED <<poolVars, main, io, sig, nodeVars, place>>

(* Engine::stop(), by the signal's handler or by ~Engine(). *)
PoolStops ==
  /\ engine = "pool" /\ (Pool!Shutdown \/ Pool!NotifyAll)
  /\ UNCHANGED <<mainVars, nodeVars, net, place>>

PoolJoined ==
  /\ engine = "pool" /\ Pool!Join
  /\ engine' = "sync"
  /\ UNCHANGED <<main, io, sig, nodeVars, net, place>>

(* Slip: the sync thread is told to stop and not joined.                   *)
SyncLeft ==
  /\ engine = "sync"
  /\ engine' = "apply" /\ StockTaken
  /\ UNCHANGED <<poolVars, main, io, sig, link, pend, sync, ready, net, place>>

SyncJoined ==
  /\ engine = "sync" /\ sync = "gone"
  /\ engine' = "apply" /\ StockTaken
  /\ UNCHANGED <<poolVars, main, io, sig, link, pend, sync, ready, net, place>>

ApplyJoined ==
  /\ engine = "apply" /\ apply = "gone"
  /\ engine' = "done"
  /\ UNCHANGED <<poolVars, main, io, sig, nodeVars, net, place>>

(* node->stop() fails what is pending; work.reset() and io.stop() follow.  *)
NodeStops(n) ==
  /\ net[n] = "signal" /\ engine = "done"
  /\ Go(n, "last") /\ link' = "idle" /\ pend' = Failed
  /\ UNCHANGED <<poolVars, mainVars, syncVars, place>>

IoStops(n) ==
  /\ net[n] = "last" /\ Go(n, "free") /\ io' = FALSE
  /\ UNCHANGED <<poolVars, main, engine, sig, nodeVars, place>>

(* io.run() returns once the handler it is in has. *)
NetLeaves(n) ==
  /\ net[n] = "free" /\ ~io /\ Go(n, "gone")
  /\ UNCHANGED <<poolVars, mainVars, nodeVars, place>>

NetStep(n) ==
  Dialed(n) \/ DispatchEnds(n) \/ NodeStops(n) \/ IoStops(n) \/ NetLeaves(n)

StopStep == PoolStops \/ PoolJoined \/ SyncJoined \/ ApplyJoined

-----------------------------------------------------------------------------
Next ==
  \/ MainStep \/ SyncStep \/ ApplyDrains \/ ApplyLeaves \/ StopStep \/ Signal
  \/ \E n \in Net :
       \/ NetStep(n) \/ SignalTaken(n) \/ Dial(n) \/ LinkLost(n) \/ StreamMessage(n)
       \/ \E a \in Asker : Reply(n, a)
       \/ \E r \in Heavy : Dispatch(n, r)
       \/ \E q \in Proxied : Proxy(n, q)
  \/ \E a \in Asker : Timeout(a)
  \/ \E q \in Proxied : ProxyAnswers(q)
  \/ \E w \in Worker : WorkerMoves(w) \/ SpuriousWake(w)

(* Threads that can go on do: a search ends by its deadline and a connect  *)
(* by the system's.  The io_context runs its handlers in turn, so that of  *)
(* the signal is not passed over forever (SF) although its threads are     *)
(* taken again and again; and the apply thread is faster than the stream,  *)
(* so that it finds its queue empty for long enough to leave (SF).         *)
(* Nothing makes a client ask, the node answer, or a signal come.          *)
Fairness ==
  /\ WF_vars(MainStep) /\ WF_vars(SyncStep) /\ WF_vars(StopStep)
  /\ WF_vars(ApplyDrains) /\ SF_vars(ApplyLeaves)
  /\ \A n \in Net : WF_vars(NetStep(n))
  /\ \A w \in Worker : WF_vars(WorkerMoves(w))
  /\ \A a \in Asker : WF_vars(Timeout(a))
  /\ \A q \in Proxied : WF_vars(ProxyAnswers(q))
  /\ SF_vars(\E n \in Net : SignalTaken(n))

Spec == Init /\ [][Next]_vars
FairSpec == Spec /\ Fairness

-----------------------------------------------------------------------------
(* Properties. *)

TypeOK ==
  /\ Pool!TypeOK
  /\ main \in {"new", "dial", "ask", "quit", "listen", "serve", "unwind", "torn",
               "exited", "fatal", "aborted"}
  /\ net \in [Net -> Heavy \cup {"none", "free", "dialing", "signal", "last", "gone"}]
  /\ io \in BOOLEAN /\ sig \in BOOLEAN
  /\ link \in {"idle", "dial", "up"}
  /\ pend \in [Asker -> Unsettled \cup {"none", "value", "error"}]
  /\ sync \in {"none", "link", "ask", "ready", "gone"}
  /\ apply \in {"none", "runs", "fed", "idle", "queued", "gone"} /\ ready \in BOOLEAN
  /\ engine \in {"no", "pool", "sync", "apply", "done"}
  /\ place \in [Request -> {"new", "in", "answered"}]

(* Every variable keeps its type (among it that the pool's pending() is    *)
(* what is queued or running), and nothing outlives what it uses: when     *)
(* main destroys its objects, however it got there, no network thread, no  *)
(* worker, no sync and no apply thread is left, and ~Engine() has joined   *)
(* the last three also when server.start() threw.                          *)
NobodyLeft ==
  /\ TypeOK
  /\ main \in {"torn", "exited", "fatal"} => NetGone
  /\ main \in {"torn", "exited", "fatal", "aborted"} =>
       \/ sync = "none" /\ apply = "none"
       \/ sync = "gone" /\ apply = "gone" /\ \A w \in Worker : wpc[w] = "exit"

(* The pool in the process: every request that submit() accepts is run     *)
(* exactly once, also when the stop came between its submission and its    *)
(* start, and shutdown() returns only when all of them have been run.      *)
RunsEachOnce == Pool!RunsEachOnce

(* Whoever waits has somebody left to end it.  A queued request has an     *)
(* awake worker or a caller still to notify one, and a request that is in  *)
(* is queued, being run, or asked of the node; the joins of                *)
(* Engine::stop() wait for no worker asleep and for threads that there     *)
(* are; main's join has the signal's handler, or a stopped io_context, to  *)
(* let the network threads go.                                             *)
NobodyWaitsInVain ==
  /\ jobs # << >> =>
       \/ \E w \in Worker : wpc[w] \in {"check", "run", "count"}
       \/ \E n \in Net : net[n] \in Heavy /\ spc[net[n]] = "notify"
  /\ \A r \in Heavy : place[r] = "in" =>
       \/ \E i \in 1 .. Len(jobs) : jobs[i] = r
       \/ \E w \in Worker : held[w] = r /\ wpc[w] = "run"
  /\ \A q \in Proxied : place[q] = "in" => pend[q] # "none"
  /\ main = "ask" => pend[Main] # "none"
  /\ sync = "ask" => pend[Sync] # "none"
  /\ shut \in {"join", "cleared"} => \A w \in Worker : wpc[w] # "wait"
  /\ engine # "no" => sync # "none" /\ apply # "none"
  /\ main = "quit" => ~io
  /\ main = "serve" =>
       \/ engine = "no" \/ ~io
       \/ \E n \in Net : net[n] \in {"signal", "last"}

(* Every request that was taken is answered: by the pool, also while it    *)
(* shuts down or refuses the request; by a proxy's thread, also when the   *)
(* link is lost or was never there, unless the process ends first.         *)
Answered ==
  /\ \A r \in Heavy : place[r] = "in" ~> place[r] # "in"
  /\ \A q \in Proxied : place[q] = "in" ~> place[q] # "in" \/ Over

(* The start ends in serving or in the end of the process, whatever the    *)
(* node does; and a signal ends it, although its handler holds a network   *)
(* thread, maybe the only one, while it waits for threads whose requests   *)
(* only network threads could settle.  The one thing either can be stuck   *)
(* at is the join of an apply thread that holds its messages for good:     *)
(* the sync thread, which could make the engine ready, has gone.           *)
NeverStuck == <>[]Held \/ []<>(Over \/ (main = "serve" /\ ~sig))

-----------------------------------------------------------------------------
(* What the repository says and the code does not do. *)

(* A start that fails ends with "fatal:" and exit code 1 (main.cpp:234).   *)
StartFailsCleanly == main # "aborted"

(* The signal handler stops the engine and the io_context, and main's      *)
(* joins return (main.cpp:194-201, 230-232).                               *)
SignalEnds == sig ~> Over

(* A proxy's detached thread no longer uses the io_context when main       *)
(* destroys it.                                                            *)
ProxiesDone == main = "torn" => \A q \in Proxied : place[q] # "in"
===============================================================================
