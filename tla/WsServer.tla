------------------------------- MODULE WsServer -------------------------------
(***************************************************************************)
(* The WebSocket side of the server (src/src/edgy/server.cpp): one         *)
(* coroutine per connection reads and dispatches requests, any thread may  *)
(* push a message to it, and the apply thread broadcasts each close to the *)
(* connections that subscribed to the ledger stream.  A snapshot replaces  *)
(* the ledger as well, and is not broadcast.  Ledgers are numbered as the  *)
(* engine serves them, whatever sequence the node gives them.              *)
(*                                                                         *)
(* The coroutine and the handlers of a connection share a strand: while a  *)
(* request is dispatched none of the handlers runs.  A message that is     *)
(* pushed waits in "posted" until the strand takes it, then in the send    *)
(* queue, then in the one write that is in progress.                       *)
(***************************************************************************)
EXTENDS Integers, Sequences, SequencesExt

CONSTANTS
  Conn,          \* connections
  QueueCap,      \* 64 in the code: the longest send queue
  LedgerBound,   \* how many ledgers follow the first
  RequestBound   \* how many requests a connection makes

ASSUME ServerAssumption ==
  /\ QueueCap \in Nat \ {0} /\ LedgerBound \in Nat /\ RequestBound \in Nat

VARIABLES
  reader,     \* where the coroutine of each connection is
  peer,       \* whether the other end is still there
  posted, queue, writing, inWrite, closed,
  pushed, sent,       \* history: what was pushed, and what was written
  ledgerSubs,
  ledger,             \* the ledger the engine serves
  announced,          \* history: the last that was broadcast, or the first
  seen,               \* the ledger a first feed is about to tell
  targets, telling,   \* the broadcast in progress: whom it has still to tell
  requests            \* requests left to each connection

sendVars == <<posted, queue, writing, inWrite, closed, sent>>
ledgerVars == <<ledger, announced>>
feedVars == <<ledgerVars, targets, telling>>
vars == <<reader, peer, sendVars, pushed, seen, ledgerSubs, feedVars, requests>>

(* A ledgerClosed is its ledger; 0 is any answer to a request. *)
Answer == 0
NoMsg == -1

Init ==
  /\ reader = [c \in Conn |-> "reading"] /\ peer = [c \in Conn |-> TRUE]
  /\ posted = [c \in Conn |-> << >>] /\ queue = [c \in Conn |-> << >>]
  /\ writing = [c \in Conn |-> FALSE] /\ inWrite = [c \in Conn |-> NoMsg]
  /\ closed = [c \in Conn |-> FALSE]
  /\ pushed = [c \in Conn |-> << >>] /\ sent = [c \in Conn |-> << >>]
  /\ ledgerSubs = {} /\ seen = [c \in Conn |-> 0]
  /\ ledger = 1 /\ announced = 1 /\ targets = {} /\ telling = "no"
  /\ requests = [c \in Conn |-> RequestBound]

-----------------------------------------------------------------------------
(* send, pump and fail. *)

Push(c, m) ==
  /\ posted' = [posted EXCEPT ![c] = Append(@, m)]
  /\ pushed' = [pushed EXCEPT ![c] = Append(@, m)]

StrandFree(c) == reader[c] \notin {"acking", "ackingFeed", "looking", "feeding"}

(* fail: the socket is cancelled and shut down, both ways. *)
Fail(c) ==
  /\ closed' = [closed EXCEPT ![c] = TRUE]
  /\ UNCHANGED <<queue, writing, inWrite>>

(* pump, with q queued: the next write, or none. *)
Pump(c, q) ==
  IF q = << >>
  THEN /\ writing' = [writing EXCEPT ![c] = FALSE]
       /\ inWrite' = [inWrite EXCEPT ![c] = NoMsg]
       /\ queue' = [queue EXCEPT ![c] = q]
  ELSE /\ writing' = [writing EXCEPT ![c] = TRUE]
       /\ inWrite' = [inWrite EXCEPT ![c] = Head(q)]
       /\ queue' = [queue EXCEPT ![c] = Tail(q)]

(* Slip: a queue that is full is let grow by one more. *)
OneTooMany(c) == Len(queue[c]) > QueueCap

Full(c) == Len(queue[c]) >= QueueCap

(* Slip: a write is started whatever is in progress. *)
AlwaysPump(c) == TRUE

MustPump(c) == ~writing[c]

(* The handler send() posted. *)
RunPosted(c) ==
  /\ posted[c] # << >> /\ StrandFree(c)
  /\ posted' = [posted EXCEPT ![c] = Tail(@)]
  /\ IF closed[c] THEN UNCHANGED <<queue, writing, inWrite, closed>>
     ELSE IF Full(c) THEN Fail(c)
     ELSE /\ UNCHANGED closed
          /\ LET q == Append(queue[c], Head(posted[c])) IN
               IF MustPump(c) THEN Pump(c, q)
               ELSE queue' = [queue EXCEPT ![c] = q] /\ UNCHANGED <<writing, inWrite>>
  /\ UNCHANGED <<seen, reader, peer, pushed, sent, ledgerSubs, feedVars, requests>>

(* Slip: writing is over whatever has been queued meanwhile. *)
PumpOnce(c) ==
  /\ writing' = [writing EXCEPT ![c] = FALSE]
  /\ inWrite' = [inWrite EXCEPT ![c] = NoMsg]
  /\ UNCHANGED queue

PumpNext(c) == Pump(c, queue[c])

WriteOk(c) ==
  /\ inWrite[c] # NoMsg /\ StrandFree(c)
  /\ peer[c] /\ ~closed[c]
  /\ sent' = [sent EXCEPT ![c] = Append(@, inWrite[c])]
  /\ PumpNext(c)
  /\ UNCHANGED <<seen, reader, peer, posted, closed, pushed, ledgerSubs, feedVars, requests>>

(* The write fails: the connection was failed already, or it breaks now,   *)
(* if only because the other end does not read and the timeout ends it.    *)
WriteError(c) ==
  /\ inWrite[c] # NoMsg /\ StrandFree(c)
  /\ peer' = [peer EXCEPT ![c] = @ /\ closed[c]]
  /\ inWrite' = [inWrite EXCEPT ![c] = NoMsg]
  /\ closed' = [closed EXCEPT ![c] = TRUE]
  /\ UNCHANGED <<seen, reader, posted, queue, writing, sent, pushed, ledgerSubs,
                 feedVars, requests>>

PeerLeaves(c) ==
  /\ peer[c]
  /\ peer' = [peer EXCEPT ![c] = FALSE]
  /\ UNCHANGED <<seen, reader, sendVars, pushed, ledgerSubs, feedVars, requests>>

-----------------------------------------------------------------------------
(* The coroutine: read, dispatch, and what is left to do at its end. *)

(* Slip: a subscriber is registered after it has been told the ledger. *)
RegistersAfter(step) == step = "fed"

Registers(step) == step = "read"

Register(c, step) ==
  ledgerSubs' = IF Registers(step) THEN ledgerSubs \cup {c} ELSE ledgerSubs

Reads(c) ==
  /\ reader[c] = "reading" /\ peer[c] /\ ~closed[c]
  /\ requests[c] > 0
  /\ requests' = [requests EXCEPT ![c] = @ - 1]
  /\ UNCHANGED <<seen, peer, sendVars, pushed, feedVars>>

ReadSubscribe(c) ==
  /\ Reads(c)
  /\ reader' = [reader EXCEPT ![c] = "ackingFeed"]
  /\ Register(c, "read")

ReadUnsubscribe(c) ==
  /\ Reads(c)
  /\ reader' = [reader EXCEPT ![c] = "acking"]
  /\ ledgerSubs' = ledgerSubs \ {c}

(* Any other request that is answered at once. *)
ReadOther(c) ==
  /\ Reads(c)
  /\ reader' = [reader EXCEPT ![c] = "acking"]
  /\ UNCHANGED ledgerSubs

Ack(c) ==
  /\ reader[c] \in {"acking", "ackingFeed"}
  /\ reader' = [reader EXCEPT ![c] = IF @ = "acking" THEN "reading" ELSE "looking"]
  /\ Push(c, Answer)
  /\ UNCHANGED <<seen, peer, queue, writing, inWrite, closed, sent, ledgerSubs,
                 feedVars, requests>>

(* The new subscriber is told the ledger the engine serves by now: its     *)
(* JSON is made under the engine's lock and pushed after it.               *)
LookUp(c) ==
  /\ reader[c] = "looking"
  /\ reader' = [reader EXCEPT ![c] = "feeding"]
  /\ seen' = [seen EXCEPT ![c] = ledger]
  /\ UNCHANGED <<peer, sendVars, pushed, ledgerSubs, feedVars, requests>>

FirstFeed(c) ==
  /\ reader[c] = "feeding"
  /\ reader' = [reader EXCEPT ![c] = "reading"]
  /\ Push(c, seen[c])
  /\ seen' = [seen EXCEPT ![c] = 0]
  /\ Register(c, "fed")
  /\ UNCHANGED <<peer, queue, writing, inWrite, closed, sent, feedVars, requests>>

(* Slip: fail() does not disturb the read. *)
ReadsOn(c) == ~peer[c]

(* The read fails, or the loop finds closed set. *)
ReadFails(c) == ~peer[c] \/ closed[c]

ReadEnds(c) ==
  /\ reader[c] = "reading" /\ ReadFails(c)
  /\ reader' = [reader EXCEPT ![c] = "leaving"]
  /\ UNCHANGED <<seen, peer, sendVars, pushed, ledgerSubs, feedVars, requests>>

Unlist(c) == ledgerSubs' = ledgerSubs \ {c}

Leave(c) ==
  /\ reader[c] = "leaving"
  /\ reader' = [reader EXCEPT ![c] = "gone"]
  /\ Unlist(c)
  /\ UNCHANGED <<seen, peer, sendVars, pushed, feedVars, requests>>

-----------------------------------------------------------------------------
(* The apply thread: broadcastLedger. *)

CloseLedger ==
  /\ telling = "no" /\ ledger <= LedgerBound
  /\ ledger' = ledger + 1 /\ announced' = ledger' /\ telling' = "copy"
  /\ UNCHANGED <<seen, reader, peer, sendVars, pushed, ledgerSubs, targets, requests>>

(* loadSnapshot, which waits for the batch whose broadcast is under way.   *)
Resnapshot ==
  /\ telling = "no" /\ ledger <= LedgerBound
  /\ ledger' = ledger + 1
  /\ UNCHANGED <<seen, reader, peer, sendVars, pushed, ledgerSubs, announced, targets,
                 telling, requests>>

BroadcastCopy ==
  /\ telling = "copy"
  /\ targets' = ledgerSubs /\ telling' = "push"
  /\ UNCHANGED <<seen, reader, peer, sendVars, pushed, ledgerSubs, ledgerVars, requests>>

BroadcastPush ==
  /\ telling = "push"
  /\ \E c \in targets :
       /\ Push(c, ledger)
       /\ targets' = targets \ {c}
  /\ UNCHANGED <<seen, reader, peer, queue, writing, inWrite, closed, sent, ledgerSubs,
                 ledgerVars, telling, requests>>

BroadcastEnds ==
  /\ telling = "push" /\ targets = {}
  /\ telling' = "no"
  /\ UNCHANGED <<seen, reader, peer, sendVars, pushed, ledgerSubs, ledgerVars, targets,
                 requests>>

Broadcast == CloseLedger \/ BroadcastCopy \/ BroadcastPush \/ BroadcastEnds

Read(c) == ReadSubscribe(c) \/ ReadUnsubscribe(c) \/ ReadOther(c)
Dispatch(c) == Ack(c) \/ LookUp(c) \/ FirstFeed(c) \/ ReadEnds(c) \/ Leave(c)
WriteEnds(c) == WriteOk(c) \/ WriteError(c)

Next ==
  \/ Broadcast \/ Resnapshot
  \/ \E c \in Conn :
       RunPosted(c) \/ WriteEnds(c) \/ PeerLeaves(c) \/ Read(c) \/ Dispatch(c)

(* Handlers and coroutines run, and a write ends, if only by the timeout.  *)
Fairness ==
  \A c \in Conn :
    WF_vars(RunPosted(c)) /\ WF_vars(WriteEnds(c)) /\ WF_vars(Dispatch(c))

Spec == Init /\ [][Next]_vars
FairSpec == Spec /\ Fairness

-----------------------------------------------------------------------------
(* Properties. *)

Msg == {Answer} \cup 1 .. LedgerBound + 1

(* Every variable stays within its type, and the send queue of a client    *)
(* that does not read within its limit.                                    *)
TypeOK ==
  /\ reader \in [Conn -> {"reading", "acking", "ackingFeed", "looking", "feeding",
                         "leaving", "gone"}]
  /\ seen \in [Conn -> 0 .. LedgerBound + 1]
  /\ peer \in [Conn -> BOOLEAN]
  /\ posted \in [Conn -> Seq(Msg)] /\ queue \in [Conn -> Seq(Msg)]
  /\ \A c \in Conn : Len(queue[c]) <= QueueCap
  /\ writing \in [Conn -> BOOLEAN] /\ closed \in [Conn -> BOOLEAN]
  /\ inWrite \in [Conn -> Msg \cup {NoMsg}]
  /\ pushed \in [Conn -> Seq(Msg)] /\ sent \in [Conn -> Seq(Msg)]
  /\ ledgerSubs \subseteq Conn /\ targets \subseteq Conn
  /\ ledger \in 1 .. LedgerBound + 1 /\ announced \in 1 .. ledger
  /\ telling \in {"no", "copy", "push"}
  /\ requests \in [Conn -> 0 .. RequestBound]

InWrite(c) == IF inWrite[c] = NoMsg THEN << >> ELSE << inWrite[c] >>

(* What several threads push to a connection is written once, in the order *)
(* it was pushed in, one write at a time: while the connection is open     *)
(* nothing is lost between the threads and the wire, nothing waits in the  *)
(* queue without a write before it, whose end takes the next, and what a   *)
(* closed one has written is where the others would have been too.         *)
WireInOrder ==
  /\ TypeOK
  /\ \A c \in Conn :
       /\ IsPrefix(sent[c], pushed[c])
       /\ ~closed[c] => /\ pushed[c] = sent[c] \o InWrite(c) \o queue[c] \o posted[c]
                        /\ queue[c] # << >> => inWrite[c] # NoMsg

(* Nobody who subscribed misses a close that was broadcast: between two    *)
(* broadcasts every listed connection that has been answered has been told *)
(* the ledger of the last, by the broadcast, or one served since, by its   *)
(* first feed, whichever came first; and one whose coroutine has ended is  *)
(* listed no more.                                                         *)
NoMissedClose ==
  /\ telling = "no" =>
       \A c \in ledgerSubs :
         StrandFree(c) => \E i \in DOMAIN pushed[c] : pushed[c][i] >= announced
  /\ \A c \in ledgerSubs : reader[c] # "gone"

(* What is pushed to a connection is written in the end, unless the        *)
(* connection breaks or falls too far behind; and then it is left and      *)
(* taken off the list of subscribers, with no read that waits for ever.    *)
WrittenOrLeft ==
  \A c \in Conn :
    /\ sent[c] # pushed[c] ~> sent[c] = pushed[c] \/ (~peer[c] \/ closed[c])
    /\ ~peer[c] \/ closed[c] ~> reader[c] = "gone" /\ c \notin ledgerSubs

-----------------------------------------------------------------------------
(* What the repository says and the code does not do. *)

(* README.md:12: wire JSON matches the node, which tells its subscribers   *)
(* each ledger.  The one a snapshot brings is broadcast to nobody, and the *)
(* closes up to it are dropped (engine.cpp:1082).                          *)
EachLedgerTold ==
  telling = "no" =>
    \A c \in ledgerSubs :
      StrandFree(c) => \E i \in DOMAIN pushed[c] : pushed[c][i] = ledger
=============================================================================
