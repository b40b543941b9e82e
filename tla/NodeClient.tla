------------------------------ MODULE NodeClient ------------------------------
(***************************************************************************)
(* NodeClient (src/src/edgy/node_client.cpp): one WebSocket to the node,   *)
(* driven by handlers on one strand, and requests that threads outside it  *)
(* wait for.                                                               *)
(*                                                                         *)
(* A handler of the strand is one step.  A read or a write that was        *)
(* started is outstanding until its handler has run: "waiting" on the      *)
(* socket, or complete ("frame", "sent" or "error") with the handler still *)
(* to come.  cancel() fails what is waiting and misses what is complete.   *)
(***************************************************************************)
EXTENDS Integers, Sequences, FiniteSets

CONSTANTS
  Req,          \* requests, each with an id of its own: nextId_ never repeats
  NoReq,        \* the request a stream message or a lifecycle task belongs to
  RunBound,     \* how often run() is called
  BreakBound,   \* how often the connection breaks
  RefuseBound   \* how often the node cannot be connected to

ASSUME ClientAssumption ==
  /\ NoReq \notin Req
  /\ RunBound \in Nat /\ BreakBound \in Nat /\ RefuseBound \in Nat

VARIABLES
  closing, wantConnect, pendingReconnect, connected,
  stream,           \* ws_ or wss_ holds a stream
  broken,           \* an operation of this stream failed: the next ones will
  reading, writing, \* the outstanding operations, "none" for reading_ = false
  frame,            \* the request a frame read answers, or NoReq
  writes,           \* writes_: requests to be sent, the first one in progress
  posted,           \* tasks posted to the strand
  pending,          \* pending_ (its keys)
  rstate, outcome,  \* per request: its caller's place, and its promise
  dropped,          \* history: requests enqueueWrite threw away
  atNode,           \* requests the node has over this stream, unanswered
  running,          \* whether run() was called after the last stop()
  left              \* what is left of each bound

linkVars == <<connected, stream, broken, reading, writing, frame, writes, atNode>>
flagVars == <<closing, wantConnect, pendingReconnect>>
reqVars == <<pending, rstate, outcome, dropped>>
vars == <<linkVars, flagVars, posted, reqVars, running, left>>

Task == [kind : {"run", "stop", "write"}, req : Req \cup {NoReq}]

Init ==
  /\ closing = FALSE /\ wantConnect = FALSE /\ pendingReconnect = FALSE
  /\ connected = FALSE /\ stream = FALSE /\ broken = FALSE
  /\ reading = "none" /\ writing = "none" /\ frame = NoReq
  /\ writes = << >> /\ posted = << >>
  /\ pending = {} /\ dropped = {} /\ atNode = {}
  /\ rstate = [r \in Req |-> "new"]
  /\ outcome = [r \in Req |-> "none"]
  /\ running = FALSE
  /\ left = [run |-> RunBound, break |-> BreakBound, refuse |-> RefuseBound]

Spend(k) == left[k] > 0 /\ left' = [left EXCEPT ![k] = @ - 1]

-----------------------------------------------------------------------------
(* The socket. *)

(* The node answers one of its requests, or sends a stream message. *)
ReadFrame ==
  /\ reading = "waiting" /\ ~broken
  /\ \E r \in atNode \cup {NoReq} :
       /\ frame' = r
       /\ atNode' = atNode \ {r}
  /\ reading' = "frame"
  /\ UNCHANGED <<connected, stream, broken, writing, writes, flagVars, posted,
                 reqVars, running, left>>

WriteSent ==
  /\ writing = "waiting" /\ ~broken
  /\ writing' = "sent"
  /\ atNode' = atNode \cup {Head(writes)}
  /\ UNCHANGED <<connected, stream, broken, reading, frame, writes, flagVars,
                 posted, reqVars, running, left>>

Break ==
  /\ stream /\ ~broken
  /\ Spend("break")
  /\ broken' = TRUE
  /\ UNCHANGED <<connected, stream, reading, writing, frame, writes, atNode,
                 flagVars, posted, reqVars, running>>

(* An operation on a broken stream ends in an error. *)
OpFails ==
  /\ broken
  /\ \/ reading = "waiting" /\ reading' = "error" /\ UNCHANGED writing
     \/ writing = "waiting" /\ writing' = "error" /\ UNCHANGED reading
  /\ UNCHANGED <<connected, stream, broken, frame, writes, atNode, flagVars,
                 posted, reqVars, running, left>>

-----------------------------------------------------------------------------
(* What the handlers share.  rd and wr are the operations outstanding when *)
(* the handler leaves them: UNCHANGED, or as it sets them before the call. *)

Cancelled(op) == IF op = "waiting" THEN "error" ELSE op

(* doConnect blocks the strand until the handshake is over; one attempt.   *)
DoConnect ==
  /\ broken' = FALSE /\ atNode' = {} /\ writing' = "none" /\ frame' = NoReq
  /\ pendingReconnect' = FALSE
  /\ \/ stream' = TRUE /\ connected' = TRUE /\ reading' = "waiting" /\ UNCHANGED left
     \/ Spend("refuse") /\ stream' = FALSE /\ connected' = FALSE /\ reading' = "none"

Disconnected ==
  /\ stream' = FALSE /\ broken' = FALSE /\ atNode' = {}
  /\ reading' = "none" /\ writing' = "none" /\ frame' = NoReq

(* Slip: the stream goes although an operation is outstanding on it. *)
RecycleAtOnce(rd, wr) == TRUE

(* recycleStream does nothing while an operation is outstanding. *)
MayRecycle(rd, wr) == rd = "none" /\ wr = "none"

(* Slip: the reconnect that was put off is not made. *)
ForgetsReconnect == FALSE

OwesConnect == pendingReconnect /\ ~closing /\ wantConnect

(* recycleStream, with connected_ and writes_ as the caller left them. *)
Recycle(rd, wr, c, ws) ==
  IF MayRecycle(rd, wr)
  THEN /\ writes' = << >>
       /\ IF OwesConnect THEN DoConnect
          ELSE Disconnected /\ connected' = c /\ UNCHANGED <<pendingReconnect, left>>
  ELSE /\ reading' = rd /\ writing' = wr /\ connected' = c /\ writes' = ws
       /\ UNCHANGED <<stream, broken, frame, atNode, pendingReconnect, left>>

(* failPending: every promise that waits gets an exception. *)
FailPending ==
  /\ outcome' = [r \in Req |-> IF r \in pending THEN "error" ELSE outcome[r]]
  /\ pending' = {}

(* Slip: those who wait are left to their timeouts. *)
FailsNobody == UNCHANGED <<outcome, pending>>

FailWaiters == FailPending

(* streamFailed: what still waits on the stream is cancelled as well. *)
StreamFailed(rd, wr, ws) ==
  /\ FailWaiters
  /\ Recycle(Cancelled(rd), Cancelled(wr), FALSE, ws)

-----------------------------------------------------------------------------
(* The handlers of the strand. *)

(* handleFrame: an answer goes to the promise of its id, if one waits; the *)
(* next read is started.                                                   *)
OnRead ==
  /\ reading = "frame"
  /\ reading' = "waiting" /\ frame' = NoReq
  /\ IF frame \in pending
     THEN /\ outcome' = [outcome EXCEPT ![frame] = "value"]
          /\ pending' = pending \ {frame}
     ELSE UNCHANGED <<outcome, pending>>
  /\ UNCHANGED <<connected, stream, broken, writing, writes, atNode, flagVars,
                 posted, rstate, dropped, running, left>>

OnReadError ==
  /\ reading = "error"
  /\ StreamFailed("none", writing, writes)
  /\ UNCHANGED <<closing, wantConnect, posted, rstate, dropped, running>>

(* The queue is empty: the stream may have been kept for this write only.  *)
Drained == Recycle(reading, "none", connected, << >>)

(* Slip: the queue is looked at before the message written leaves it. *)
MoreUnpopped == writes # << >>

MoreToWrite == Tail(writes) # << >>

OnWrite ==
  /\ writing = "sent"
  /\ IF MoreToWrite
     THEN /\ writes' = Tail(writes) /\ writing' = "waiting"
          /\ UNCHANGED <<connected, stream, broken, reading, frame, atNode,
                         pendingReconnect, left>>
     ELSE Drained
  /\ UNCHANGED <<closing, wantConnect, posted, reqVars, running>>

OnWriteError ==
  /\ writing = "error"
  /\ StreamFailed(reading, "none", Tail(writes))
  /\ UNCHANGED <<closing, wantConnect, posted, rstate, dropped, running>>

(* cancelStream. *)
CancelStream ==
  /\ reading' = Cancelled(reading) /\ writing' = Cancelled(writing)
  /\ broken' = (broken \/ reading = "waiting" \/ writing = "waiting")
  /\ UNCHANGED <<connected, stream, frame, writes, atNode>>

(* startConnect: never while an operation of the old stream, or the stream *)
(* itself, is still there; it is cancelled and its last handler connects.  *)
RunTask ==
  /\ closing' = FALSE /\ wantConnect' = TRUE
  /\ IF reading # "none" \/ writing # "none" \/ stream
     THEN pendingReconnect' = TRUE /\ CancelStream /\ UNCHANGED left
     ELSE DoConnect /\ UNCHANGED writes
  /\ UNCHANGED reqVars

StopTask ==
  /\ closing' = TRUE /\ wantConnect' = FALSE /\ pendingReconnect' = FALSE
  /\ CancelStream
  /\ UNCHANGED <<reqVars, left>>

(* enqueueWrite: without a stream the message is dropped, unreported. *)
WriteTask(r) ==
  /\ IF closing \/ ~stream
     THEN dropped' = dropped \cup {r} /\ UNCHANGED <<writes, writing>>
     ELSE /\ writes' = Append(writes, r)
          /\ writing' = IF writing = "none" THEN "waiting" ELSE writing
          /\ UNCHANGED dropped
  /\ UNCHANGED <<connected, stream, broken, reading, frame, atNode, flagVars,
                 pending, rstate, outcome, left>>

RunPosted ==
  /\ posted # << >> /\ posted' = Tail(posted)
  /\ LET t == Head(posted) IN
       \/ t.kind = "run" /\ RunTask
       \/ t.kind = "stop" /\ StopTask
       \/ t.kind = "write" /\ WriteTask(t.req)
  /\ UNCHANGED running

-----------------------------------------------------------------------------
(* The threads outside. *)

Post(kind, r) == posted' = Append(posted, [kind |-> kind, req |-> r])

Run ==
  /\ ~running /\ Spend("run")
  /\ running' = TRUE
  /\ Post("run", NoReq)
  /\ UNCHANGED <<linkVars, flagVars, reqVars>>

(* stop() fails the promises from the calling thread. *)
Stop ==
  /\ running
  /\ running' = FALSE
  /\ Post("stop", NoReq)
  /\ FailPending
  /\ UNCHANGED <<linkVars, flagVars, rstate, dropped, left>>

(* request(): the promise is entered first, then the write is posted. *)
Register(r) ==
  /\ rstate[r] = "new"
  /\ rstate' = [rstate EXCEPT ![r] = "registered"]
  /\ pending' = pending \cup {r}
  /\ UNCHANGED <<linkVars, flagVars, posted, outcome, dropped, running, left>>

PostWrite(r) ==
  /\ rstate[r] = "registered"
  /\ rstate' = [rstate EXCEPT ![r] = "waiting"]
  /\ Post("write", r)
  /\ UNCHANGED <<linkVars, flagVars, pending, outcome, dropped, running, left>>

Return(r) ==
  /\ rstate[r] = "waiting" /\ outcome[r] # "none"
  /\ rstate' = [rstate EXCEPT ![r] = "returned"]
  /\ UNCHANGED <<linkVars, flagVars, posted, pending, outcome, dropped, running, left>>

(* The wait ends without an answer; the lock is yet to be taken. *)
Expire(r) ==
  /\ rstate[r] = "waiting" /\ outcome[r] = "none"
  /\ rstate' = [rstate EXCEPT ![r] = "expired"]
  /\ UNCHANGED <<linkVars, flagVars, posted, pending, outcome, dropped, running, left>>

Forget(r) == pending \ {r}

(* An answer that came meanwhile is too late: request() throws. *)
TimeOut(r) ==
  /\ rstate[r] = "expired"
  /\ rstate' = [rstate EXCEPT ![r] = "timedout"]
  /\ pending' = Forget(r)
  /\ UNCHANGED <<linkVars, flagVars, posted, outcome, dropped, running, left>>

-----------------------------------------------------------------------------
StrandNext == OnRead \/ OnReadError \/ OnWrite \/ OnWriteError \/ RunPosted
SocketNext == ReadFrame \/ WriteSent \/ Break \/ OpFails
Caller(r) == Register(r) \/ PostWrite(r) \/ Return(r) \/ Expire(r) \/ TimeOut(r)

Next == StrandNext \/ SocketNext \/ Run \/ Stop \/ \E r \in Req : Caller(r)

(* The event loop runs what is ready, and an operation on a broken stream  *)
(* ends.  Nothing makes the node answer or a caller do anything.           *)
Fairness == WF_vars(StrandNext) /\ WF_vars(OpFails)

Spec == Init /\ [][Next]_vars
FairSpec == Spec /\ Fairness

-----------------------------------------------------------------------------
(* Properties. *)

(* Every variable stays within its type, and a write in progress is of the *)
(* message at the head of writes_, which is taken out when it ends.        *)
TypeOK ==
  /\ closing \in BOOLEAN /\ wantConnect \in BOOLEAN /\ pendingReconnect \in BOOLEAN
  /\ connected \in BOOLEAN /\ stream \in BOOLEAN /\ broken \in BOOLEAN
  /\ reading \in {"none", "waiting", "frame", "error"}
  /\ writing \in {"none", "waiting", "sent", "error"}
  /\ frame \in Req \cup {NoReq}
  /\ writes \in Seq(Req) /\ (writing # "none" => writes # << >>)
  /\ posted \in Seq(Task)
  /\ pending \subseteq Req /\ dropped \subseteq Req /\ atNode \subseteq Req
  /\ rstate \in [Req -> {"new", "registered", "waiting", "returned", "expired", "timedout"}]
  /\ outcome \in [Req -> {"none", "value", "error"}]
  /\ running \in BOOLEAN
  /\ left \in [{"run", "break", "refuse"} -> Nat]

(* A stream is held exactly while an operation is outstanding on it: it is *)
(* never destroyed under one (the comment at line 191), and never left     *)
(* behind with no handler to come that would let a reconnect go on.  And   *)
(* while the client says it is connected that operation is a read, so the  *)
(* end of the connection is going to be noticed and reported.  A reconnect *)
(* that was put off is still wanted and waits for such a stream; and one   *)
(* that is not connected any more is broken, so what is outstanding ends.  *)
StreamOwned ==
  /\ TypeOK
  /\ stream <=> reading # "none" \/ writing # "none"
  /\ connected => stream /\ reading # "none"
  /\ pendingReconnect => stream /\ wantConnect /\ ~closing
  /\ stream => connected \/ broken

(* A promise is in pending_ exactly while its request waits for it and     *)
(* nobody has settled it: none is settled twice, by an answer that races a *)
(* timeout, a broken stream or a stop, and none is left behind.  And it    *)
(* can still be answered on this very stream, or will be failed with it,   *)
(* or was dropped for want of one: none waits for a stream that is gone.   *)
PendingExact ==
  /\ pending = {r \in Req : rstate[r] \in {"registered", "waiting", "expired"}
                              /\ outcome[r] = "none"}
  /\ \A r \in pending :
       \/ rstate[r] = "registered" \/ r \in dropped
       \/ \E i \in DOMAIN posted : posted[i] = [kind |-> "write", req |-> r]
       \/ stream /\ (r \in atNode \/ frame = r \/ \E i \in DOMAIN writes : writes[i] = r)

(* A reconnect that was put off is made, unless the old stream turns out   *)
(* to be alive: the last handler of the old stream always comes.           *)
ReconnectNotStuck == []<>(~pendingReconnect \/ connected)
=============================================================================
