--------------------------- MODULE NodeClientProofs ---------------------------
(***************************************************************************)
(* Proofs about NodeClient for every set of requests and any number of     *)
(* calls of run(), breaks and refusals: its types, that a stream is there  *)
(* exactly while an operation is outstanding on it and a reconnect that    *)
(* was put off waits for one, and that pending_ is exactly the promises    *)
(* that wait, each with somebody who will settle it.                       *)
(***************************************************************************)
EXTENDS NodeClient, SharedLemmas

-----------------------------------------------------------------------------
(* Types, in parts that steps change together. *)

FlagType ==
  closing \in BOOLEAN /\ wantConnect \in BOOLEAN /\ pendingReconnect \in BOOLEAN

LinkType ==
  /\ connected \in BOOLEAN /\ stream \in BOOLEAN /\ broken \in BOOLEAN
  /\ reading \in {"none", "waiting", "frame", "error"}
  /\ writing \in {"none", "waiting", "sent", "error"}
  /\ frame \in Req \cup {NoReq}
  /\ writes \in Seq(Req) /\ (writing # "none" => writes # << >>)
  /\ atNode \subseteq Req

RequestType ==
  /\ pending \subseteq Req /\ dropped \subseteq Req
  /\ rstate \in [Req -> {"new", "registered", "waiting", "returned", "expired", "timedout"}]
  /\ outcome \in [Req -> {"none", "value", "error"}]

LeftType == left \in [{"run", "break", "refuse"} -> Nat]

OuterType == posted \in Seq(Task) /\ running \in BOOLEAN

WriteOf(r) == [kind |-> "write", req |-> r]

(* A write that is posted is of a request. *)
PostedInv == \A t \in Task : InQueue(posted, t) /\ t.kind = "write" => t.req \in Req

LEMMA TypeParts ==
  TypeOK <=> FlagType /\ LinkType /\ RequestType /\ LeftType /\ OuterType
BY DEF TypeOK, FlagType, LinkType, RequestType, LeftType, OuterType

(* A stream is held exactly while an operation is outstanding on it, and   *)
(* while the client is connected that operation is a read.                 *)
Owned ==
  /\ stream <=> reading # "none" \/ writing # "none"
  /\ connected => stream /\ reading # "none"

(* A frame is kept for its handler only, and an operation that failed, or  *)
(* a stream nobody reads any more, is on a stream that is broken.          *)
ErrorsInv ==
  /\ reading # "frame" => frame = NoReq
  /\ reading = "error" \/ writing = "error" \/ (stream /\ reading = "none") => broken

LinkInv == LinkType /\ Owned /\ ErrorsInv

(* A reconnect that was put off is wanted and has a stream to wait for; a  *)
(* stream that is not connected any more is broken.                        *)
PutOff ==
  /\ pendingReconnect => stream /\ wantConnect /\ ~closing
  /\ stream => connected \/ broken

LEMMA OwnedStreams == StreamOwned <=> TypeOK /\ Owned /\ PutOff
BY DEF StreamOwned, Owned, PutOff

ClientTypes == FlagType /\ LinkInv /\ RequestType /\ LeftType /\ OuterType /\ PostedInv

LEMMA InitTypes == Init => ClientTypes
<1>. SUFFICES ASSUME Init PROVE ClientTypes
  OBVIOUS
<1>1. FlagType /\ RequestType
  BY DEF Init, FlagType, RequestType
<1>2. LinkInv
  BY EmptySeq DEF Init, LinkInv, LinkType, Owned, ErrorsInv
<1>3. LeftType
  BY ClientAssumption DEF Init, LeftType
<1>4. OuterType /\ PostedInv
  BY EmptySeq, EmptyQueue DEF Init, OuterType, PostedInv
<1>. QED  BY <1>1, <1>2, <1>3, <1>4 DEF ClientTypes

LEMMA SpendType ==
  ASSUME LeftType, NEW k \in {"run", "break", "refuse"}, Spend(k)
  PROVE  LeftType'
BY DEF LeftType, Spend

(* A connect, made when the writes are a sequence and none is in progress. *)
LEMMA Connects ==
  ASSUME LeftType, DoConnect, writes' \in Seq(Req)
  PROVE  LinkInv' /\ pendingReconnect' \in BOOLEAN /\ LeftType'
<1>1. LeftType'
  BY SpendType DEF DoConnect, LeftType
<1>2. LinkType'
  BY DEF DoConnect, LinkType
<1>3. Owned' /\ ErrorsInv'
  BY DEF DoConnect, Owned, ErrorsInv
<1>. QED  BY <1>1, <1>2, <1>3 DEF LinkInv, DoConnect

(* recycleStream, called with what is outstanding on the stream then. *)
LEMMA Recycles ==
  ASSUME LinkInv, FlagType, LeftType,
         NEW rd \in {"none", "waiting", "frame", "error"},
         NEW wr \in {"none", "waiting", "sent", "error"},
         NEW c \in BOOLEAN, NEW ws \in Seq(Req),
         wr # "none" => ws # << >>,
         rd # "frame" => frame = NoReq,
         c => rd # "none",
         rd # "none" \/ wr # "none" => stream,
         rd = "error" \/ wr = "error" \/ (wr # "none" /\ rd = "none") => broken,
         Recycle(rd, wr, c, ws)
  PROVE  LinkInv' /\ pendingReconnect' \in BOOLEAN /\ LeftType'
<1>1. CASE MayRecycle(rd, wr) /\ OwesConnect
  <2>1. DoConnect /\ writes' = << >>
    BY <1>1 DEF Recycle
  <2>. QED  BY <2>1, Connects, EmptySeq
<1>2. CASE MayRecycle(rd, wr) /\ ~OwesConnect
  <2>1. /\ Disconnected /\ writes' = << >> /\ connected' = FALSE
        /\ UNCHANGED <<pendingReconnect, left>>
    BY <1>2 DEF Recycle, MayRecycle
  <2>2. LinkType'
    BY <2>1, EmptySeq DEF Disconnected, LinkType
  <2>3. Owned' /\ ErrorsInv'
    BY <2>1 DEF Disconnected, Owned, ErrorsInv
  <2>. QED  BY <2>1, <2>2, <2>3 DEF LinkInv, FlagType, LeftType
<1>3. CASE ~MayRecycle(rd, wr)
  <2>1. /\ reading' = rd /\ writing' = wr /\ connected' = c /\ writes' = ws
        /\ UNCHANGED <<stream, broken, frame, atNode, pendingReconnect, left>>
    BY <1>3 DEF Recycle
  <2>2. LinkType'
    BY <2>1 DEF LinkInv, LinkType
  <2>3. Owned'
    BY <1>3, <2>1 DEF MayRecycle, Owned
  <2>4. ErrorsInv'
    BY <1>3, <2>1 DEF MayRecycle, ErrorsInv
  <2>. QED  BY <2>1, <2>2, <2>3, <2>4 DEF LinkInv, FlagType, LeftType
<1>. QED  BY <1>1, <1>2, <1>3

LEMMA CancelType ==
  ASSUME LinkInv, CancelStream
  PROVE  LinkInv'
<1>1. /\ reading' = (IF reading = "waiting" THEN "error" ELSE reading)
      /\ writing' = (IF writing = "waiting" THEN "error" ELSE writing)
      /\ broken' = (broken \/ reading = "waiting" \/ writing = "waiting")
      /\ UNCHANGED <<connected, stream, frame, writes, atNode>>
  BY DEF CancelStream, Cancelled
<1>2. LinkType'
  BY <1>1 DEF LinkInv, LinkType
<1>3. Owned'
  BY <1>1 DEF LinkInv, LinkType, Owned
<1>4. ErrorsInv'
  BY <1>1 DEF LinkInv, LinkType, ErrorsInv
<1>. QED  BY <1>2, <1>3, <1>4 DEF LinkInv

(* The first write leaves writes_ when it ends. *)
LEMMA FirstWrite ==
  ASSUME LinkInv, writing # "none"
  PROVE  /\ writes \in Seq(Req) /\ writes # << >>
         /\ Head(writes) \in Req /\ Tail(writes) \in Seq(Req)
BY TakeQueue DEF LinkInv, LinkType

LEMMA SocketLink ==
  ASSUME FlagType, LinkInv, LeftType, SocketNext
  PROVE  LinkInv' /\ LeftType'
<1>1. CASE ReadFrame
  <2>1. /\ reading = "waiting" /\ ~broken /\ reading' = "frame"
        /\ \E r \in atNode \cup {NoReq} : frame' = r /\ atNode' = atNode \ {r}
        /\ UNCHANGED <<connected, stream, broken, writing, writes, left>>
    BY <1>1 DEF ReadFrame
  <2>2. LinkType'
    BY <2>1 DEF LinkInv, LinkType
  <2>3. Owned' /\ ErrorsInv'
    BY <2>1 DEF LinkInv, Owned, ErrorsInv
  <2>. QED  BY <2>1, <2>2, <2>3 DEF LinkInv, LeftType
<1>2. CASE WriteSent
  <2>1. /\ writing = "waiting" /\ ~broken /\ writing' = "sent"
        /\ atNode' = atNode \cup {Head(writes)}
        /\ UNCHANGED <<connected, stream, broken, reading, frame, writes, left>>
    BY <1>2 DEF WriteSent
  <2>2. LinkType'
    BY <2>1, FirstWrite DEF LinkInv, LinkType
  <2>3. Owned' /\ ErrorsInv'
    BY <2>1 DEF LinkInv, Owned, ErrorsInv
  <2>. QED  BY <2>1, <2>2, <2>3 DEF LinkInv, LeftType
<1>3. CASE Break
  <2>1. broken' = TRUE /\ UNCHANGED <<connected, stream, reading, writing, frame, writes, atNode>>
    BY <1>3 DEF Break
  <2>2. LinkType' /\ Owned' /\ ErrorsInv'
    BY <2>1 DEF LinkInv, LinkType, Owned, ErrorsInv
  <2>3. LeftType'
    BY <1>3, SpendType DEF Break
  <2>. QED  BY <2>2, <2>3 DEF LinkInv
<1>4. CASE OpFails
  <2>1. /\ broken /\ UNCHANGED <<connected, stream, broken, frame, writes, atNode, left>>
        /\ \/ reading = "waiting" /\ reading' = "error" /\ writing' = writing
           \/ writing = "waiting" /\ writing' = "error" /\ reading' = reading
    BY <1>4 DEF OpFails
  <2>2. LinkType'
    BY <2>1 DEF LinkInv, LinkType
  <2>3. Owned'
    BY <2>1 DEF LinkInv, Owned
  <2>4. ErrorsInv'
    BY <2>1 DEF LinkInv, ErrorsInv
  <2>. QED  BY <2>1, <2>2, <2>3, <2>4 DEF LinkInv, LeftType
<1>. QED  BY <1>1, <1>2, <1>3, <1>4 DEF SocketNext

(* The task the strand runs is the first one posted. *)
LEMMA RunsFirst ==
  ASSUME OuterType, PostedInv, RunPosted
  PROVE  /\ posted' \in Seq(Task) /\ PostedInv' /\ running' = running
         /\ \A t : InQueue(posted', t) => InQueue(posted, t)
         /\ \/ /\ RunTask \/ StopTask
               /\ \A t : t.kind = "write" => (InQueue(posted, t) <=> InQueue(posted', t))
            \/ \E r \in Req : /\ WriteTask(r)
                               /\ \A t : InQueue(posted, t) <=> InQueue(posted', t) \/ t = WriteOf(r)
<1>1. posted \in Seq(Task) /\ posted # << >> /\ posted' = Tail(posted) /\ running' = running
  BY DEF RunPosted, OuterType
<1>2. /\ Head(posted) \in Task /\ posted' \in Seq(Task)
      /\ \A t : InQueue(posted, t) <=> InQueue(posted', t) \/ t = Head(posted)
  BY <1>1, TakeQueue
<1>3. PostedInv'
  BY <1>2 DEF PostedInv
<1>4. CASE Head(posted).kind = "write"
  <2>1. Head(posted).req \in Req /\ Head(posted) = WriteOf(Head(posted).req)
    BY <1>2, <1>4 DEF PostedInv, Task, WriteOf
  <2>2. WriteTask(Head(posted).req)
    BY <1>4 DEF RunPosted
  <2>. QED  BY <1>1, <1>2, <1>3, <2>1, <2>2
<1>5. CASE Head(posted).kind # "write"
  <2>1. RunTask \/ StopTask
    BY <1>5 DEF RunPosted
  <2>. QED  BY <1>1, <1>2, <1>3, <1>5, <2>1
<1>. QED  BY <1>4, <1>5

LEMMA StrandLink ==
  ASSUME FlagType, LinkInv, LeftType, OuterType, PostedInv, StrandNext
  PROVE  FlagType' /\ LinkInv' /\ LeftType'
<1>0. /\ reading \in {"none", "waiting", "frame", "error"}
      /\ writing \in {"none", "waiting", "sent", "error"}
      /\ writes \in Seq(Req) /\ connected \in BOOLEAN
  BY DEF LinkInv, LinkType
<1>1. CASE OnRead
  <2>1. /\ reading = "frame" /\ reading' = "waiting" /\ frame' = NoReq
        /\ UNCHANGED <<connected, stream, broken, writing, writes, atNode, flagVars, left>>
    BY <1>1 DEF OnRead
  <2>2. LinkType'
    BY <2>1 DEF LinkInv, LinkType
  <2>3. Owned' /\ ErrorsInv'
    BY <2>1 DEF LinkInv, LinkType, Owned, ErrorsInv
  <2>. QED  BY <2>1, <2>2, <2>3 DEF LinkInv, FlagType, LeftType, flagVars
<1>2. CASE OnReadError
  <2>1. /\ reading = "error" /\ UNCHANGED <<closing, wantConnect>>
        /\ Recycle(Cancelled("none"), Cancelled(writing), FALSE, writes)
    BY <1>2 DEF OnReadError, StreamFailed
  <2>2. Cancelled("none") = "none" /\ Cancelled(writing) \in {"none", "sent", "error"}
    BY <1>0 DEF Cancelled
  <2>3. frame = NoReq /\ broken /\ stream
    BY <2>1 DEF LinkInv, Owned, ErrorsInv
  <2>4. Cancelled(writing) # "none" => writes # << >>
    BY DEF LinkInv, LinkType, Cancelled
  <2>5. LinkInv' /\ pendingReconnect' \in BOOLEAN /\ LeftType'
    BY <1>0, <2>1, <2>2, <2>3, <2>4, Recycles
  <2>. QED  BY <2>1, <2>5 DEF FlagType
<1>3. CASE OnWrite
  <2>1. writing = "sent" /\ UNCHANGED <<closing, wantConnect>>
    BY <1>3 DEF OnWrite
  <2>2. CASE MoreToWrite
    <3>1. /\ Tail(writes) # << >> /\ writes' = Tail(writes) /\ writing' = "waiting"
          /\ UNCHANGED <<connected, stream, broken, reading, frame, atNode,
                         pendingReconnect, left>>
      BY <1>3, <2>2 DEF OnWrite, MoreToWrite
    <3>2. LinkType'
      BY <2>1, <3>1, FirstWrite DEF LinkInv, LinkType
    <3>3. Owned' /\ ErrorsInv'
      BY <2>1, <3>1 DEF LinkInv, Owned, ErrorsInv
    <3>. QED  BY <2>1, <3>1, <3>2, <3>3 DEF LinkInv, FlagType, LeftType
  <2>3. CASE ~MoreToWrite
    <3>1. Recycle(reading, "none", connected, << >>)
      BY <1>3, <2>3 DEF OnWrite, Drained
    <3>2. /\ reading # "frame" => frame = NoReq
          /\ connected => reading # "none"
          /\ reading # "none" => stream
          /\ reading = "error" => broken
      BY DEF LinkInv, Owned, ErrorsInv
    <3>3. LinkInv' /\ pendingReconnect' \in BOOLEAN /\ LeftType'
      BY <1>0, <3>1, <3>2, Recycles, EmptySeq
    <3>. QED  BY <2>1, <3>3 DEF FlagType
  <2>. QED  BY <2>2, <2>3
<1>4. CASE OnWriteError
  <2>1. /\ writing = "error" /\ UNCHANGED <<closing, wantConnect>>
        /\ Recycle(Cancelled(reading), Cancelled("none"), FALSE, Tail(writes))
    BY <1>4 DEF OnWriteError, StreamFailed
  <2>2. /\ Cancelled("none") = "none" /\ Cancelled(reading) \in {"none", "frame", "error"}
        /\ Cancelled(reading) = "frame" <=> reading = "frame"
        /\ Cancelled(reading) = "none" <=> reading = "none"
    BY <1>0 DEF Cancelled
  <2>3. broken /\ stream /\ (reading # "frame" => frame = NoReq)
    BY <2>1 DEF LinkInv, Owned, ErrorsInv
  <2>4. Tail(writes) \in Seq(Req)
    BY <2>1, FirstWrite
  <2>5. LinkInv' /\ pendingReconnect' \in BOOLEAN /\ LeftType'
    BY <2>1, <2>2, <2>3, <2>4, Recycles
  <2>. QED  BY <2>1, <2>5 DEF FlagType
<1>5. CASE RunTask
  <2>1. closing' = FALSE /\ wantConnect' = TRUE
    BY <1>5 DEF RunTask
  <2>2. CASE reading # "none" \/ writing # "none" \/ stream
    <3>1. pendingReconnect' = TRUE /\ CancelStream /\ UNCHANGED left
      BY <1>5, <2>2 DEF RunTask
    <3>. QED  BY <2>1, <3>1, CancelType DEF FlagType, LeftType
  <2>3. CASE ~(reading # "none" \/ writing # "none" \/ stream)
    <3>1. DoConnect /\ UNCHANGED writes
      BY <1>5, <2>3 DEF RunTask
    <3>. QED  BY <1>0, <2>1, <3>1, Connects DEF FlagType
  <2>. QED  BY <2>2, <2>3
<1>6. CASE StopTask
  BY <1>6, CancelType DEF StopTask, FlagType, LeftType
<1>7. ASSUME NEW r \in Req, WriteTask(r)
      PROVE  FlagType' /\ LinkInv' /\ LeftType'
  <2>1. UNCHANGED <<connected, stream, broken, reading, frame, atNode, flagVars, left>>
    BY <1>7 DEF WriteTask
  <2>2. CASE closing \/ ~stream
    <3>1. UNCHANGED <<writes, writing>>
      BY <1>7, <2>2 DEF WriteTask
    <3>. QED  BY <2>1, <3>1 DEF LinkInv, LinkType, Owned, ErrorsInv, FlagType, LeftType, flagVars
  <2>3. CASE ~(closing \/ ~stream)
    <3>1. /\ writes' = Append(writes, r)
          /\ writing' = IF writing = "none" THEN "waiting" ELSE writing
      BY <1>7, <2>3 DEF WriteTask
    <3>2. writes' \in Seq(Req) /\ writes' # << >>
      BY <1>0, <3>1, AppendQueue
    <3>3. LinkType'
      BY <2>1, <3>1, <3>2 DEF LinkInv, LinkType
    <3>4. Owned' /\ ErrorsInv'
      BY <2>1, <2>3, <3>1 DEF LinkInv, LinkType, Owned, ErrorsInv
    <3>. QED  BY <2>1, <3>3, <3>4 DEF LinkInv, FlagType, LeftType, flagVars
  <2>. QED  BY <2>2, <2>3
<1>8. RunPosted => FlagType' /\ LinkInv' /\ LeftType'
  BY <1>5, <1>6, <1>7, RunsFirst
<1>. QED  BY <1>1, <1>2, <1>3, <1>4, <1>8 DEF StrandNext

(* The promises and their callers, whatever the step. *)
LEMMA StepRequest ==
  ASSUME ClientTypes, [Next]_vars
  PROVE  RequestType'
<1>. USE DEF ClientTypes, RequestType
<1>1. FailPending /\ UNCHANGED <<rstate, dropped>> => RequestType'
  BY DEF FailPending
<1>2. UNCHANGED reqVars => RequestType'
  BY DEF reqVars
<1>3. CASE SocketNext
  BY <1>2, <1>3 DEF SocketNext, ReadFrame, WriteSent, Break, OpFails
<1>4. CASE OnRead
  <2>1. UNCHANGED <<rstate, dropped>>
    BY <1>4 DEF OnRead
  <2>2. CASE frame \in pending
    BY <1>4, <2>1, <2>2 DEF OnRead
  <2>3. CASE frame \notin pending
    BY <1>4, <2>1, <2>3 DEF OnRead
  <2>. QED  BY <2>2, <2>3
<1>5. CASE OnReadError \/ OnWriteError \/ Stop
  BY <1>1, <1>5 DEF OnReadError, OnWriteError, Stop, StreamFailed, FailWaiters
<1>6. CASE OnWrite \/ RunTask \/ StopTask \/ Run \/ UNCHANGED vars
  BY <1>2, <1>6 DEF OnWrite, RunTask, StopTask, Run, vars
<1>7. ASSUME NEW r \in Req, WriteTask(r)
      PROVE  RequestType'
  <2>1. UNCHANGED <<pending, rstate, outcome>> /\ dropped' \in {dropped, dropped \cup {r}}
    BY <1>7 DEF WriteTask
  <2>. QED  BY <2>1
<1>8. ASSUME NEW r \in Req, Caller(r)
      PROVE  RequestType'
  <2>1. UNCHANGED <<outcome, dropped>>
    BY <1>8 DEF Caller, Register, PostWrite, Return, Expire, TimeOut
  <2>2. pending' \subseteq pending \cup {r}
    BY <1>8 DEF Caller, Register, PostWrite, Return, Expire, TimeOut, Forget
  <2>3. \E to \in {"registered", "waiting", "returned", "expired", "timedout"} :
          rstate' = [rstate EXCEPT ![r] = to]
    BY <1>8 DEF Caller, Register, PostWrite, Return, Expire, TimeOut
  <2>. QED  BY <2>1, <2>2, <2>3
<1>9. CASE RunPosted
  BY <1>6, <1>7, <1>9, RunsFirst
<1>. QED  BY <1>3, <1>4, <1>5, <1>6, <1>7, <1>8, <1>9 DEF Next, StrandNext

(* What is posted, whatever the step. *)
LEMMA PostType ==
  ASSUME OuterType, PostedInv, NEW kind \in {"run", "stop", "write"}, NEW r \in Req \cup {NoReq},
         kind = "write" => r \in Req, Post(kind, r)
  PROVE  /\ posted' \in Seq(Task) /\ PostedInv'
         /\ \A t : InQueue(posted', t) <=> InQueue(posted, t) \/ t = [kind |-> kind, req |-> r]
<1>. DEFINE new == [kind |-> kind, req |-> r]
<1>1. posted \in Seq(Task) /\ new \in Task /\ posted' = Append(posted, new)
  BY DEF OuterType, Task, Post
<1>2. new.kind = kind /\ new.req = r
  OBVIOUS
<1>. HIDE DEF new
<1>3. posted' \in Seq(Task) /\ \A t : InQueue(posted', t) <=> InQueue(posted, t) \/ t = new
  BY <1>1, AppendQueue
<1>4. PostedInv'
  BY <1>2, <1>3 DEF PostedInv
<1>. QED  BY <1>3, <1>4 DEF new

LEMMA StepOuter ==
  ASSUME ClientTypes, [Next]_vars
  PROVE  OuterType' /\ PostedInv'
<1>. USE DEF ClientTypes
<1>1. UNCHANGED <<posted, running>> => OuterType' /\ PostedInv'
  BY DEF OuterType, PostedInv
<1>2. CASE SocketNext
  BY <1>1, <1>2 DEF SocketNext, ReadFrame, WriteSent, Break, OpFails
<1>3. CASE OnRead \/ OnReadError \/ OnWrite \/ OnWriteError \/ UNCHANGED vars
  BY <1>1, <1>3 DEF OnRead, OnReadError, OnWrite, OnWriteError, vars
<1>4. CASE RunPosted
  BY <1>4, RunsFirst DEF OuterType
<1>5. CASE Run
  BY <1>5, PostType DEF Run, OuterType
<1>6. CASE Stop
  BY <1>6, PostType DEF Stop, OuterType
<1>7. ASSUME NEW r \in Req, PostWrite(r)
      PROVE  OuterType' /\ PostedInv'
  BY <1>7, PostType DEF PostWrite, OuterType
<1>8. ASSUME NEW r \in Req, Register(r) \/ Return(r) \/ Expire(r) \/ TimeOut(r)
      PROVE  OuterType' /\ PostedInv'
  BY <1>1, <1>8 DEF Register, Return, Expire, TimeOut
<1>. QED
  BY <1>2, <1>3, <1>4, <1>5, <1>6, <1>7, <1>8 DEF Next, StrandNext, Caller

(* The link, whatever the step: callers do not touch it. *)
LEMMA StepLink ==
  ASSUME ClientTypes, [Next]_vars
  PROVE  FlagType' /\ LinkInv' /\ LeftType'
<1>. USE DEF ClientTypes
<1>1. UNCHANGED <<linkVars, flagVars>> => FlagType' /\ LinkInv'
  BY DEF linkVars, flagVars, FlagType, LinkInv, LinkType, Owned, ErrorsInv
<1>2. CASE SocketNext
  <2>1. UNCHANGED flagVars
    BY <1>2 DEF SocketNext, ReadFrame, WriteSent, Break, OpFails
  <2>. QED  BY <1>2, <2>1, SocketLink DEF FlagType, flagVars
<1>3. CASE StrandNext
  BY <1>3, StrandLink
<1>4. CASE Run
  BY <1>1, <1>4, SpendType DEF Run
<1>5. CASE Stop \/ (\E r \in Req : Caller(r)) \/ UNCHANGED vars
  <2>1. UNCHANGED <<linkVars, flagVars, left>>
    BY <1>5 DEF Stop, Caller, Register, PostWrite, Return, Expire, TimeOut, vars
  <2>. QED  BY <1>1, <2>1 DEF LeftType
<1>. QED  BY <1>2, <1>3, <1>4, <1>5 DEF Next

LEMMA TypesInductive == Spec => []ClientTypes
<1>1. ClientTypes /\ [Next]_vars => ClientTypes'
  BY StepRequest, StepOuter, StepLink DEF ClientTypes
<1>. QED  BY InitTypes, <1>1, PTL DEF Spec

(* recycleStream goes on with the reconnect, or keeps what it waits for.   *)
LEMMA RecycleReconnects ==
  ASSUME PutOff, UNCHANGED <<closing, wantConnect>>,
         NEW rd, NEW wr, NEW c \in BOOLEAN, NEW ws,
         stream => c \/ broken, Recycle(rd, wr, c, ws)
  PROVE  PutOff'
<1>1. CASE MayRecycle(rd, wr) /\ OwesConnect
  <2>1. DoConnect
    BY <1>1 DEF Recycle
  <2>. QED  BY <2>1 DEF DoConnect, PutOff
<1>2. CASE MayRecycle(rd, wr) /\ ~OwesConnect
  <2>1. Disconnected /\ UNCHANGED pendingReconnect
    BY <1>2 DEF Recycle
  <2>. QED  BY <1>2, <2>1 DEF Disconnected, OwesConnect, PutOff
<1>3. CASE ~MayRecycle(rd, wr)
  <2>1. connected' = c /\ UNCHANGED <<stream, broken, pendingReconnect>>
    BY <1>3 DEF Recycle
  <2>. QED  BY <2>1 DEF PutOff
<1>. QED  BY <1>1, <1>2, <1>3

LEMMA StepPutOff ==
  ASSUME ClientTypes, PutOff, [Next]_vars
  PROVE  PutOff'
<1>0. connected \in BOOLEAN /\ Owned /\ ErrorsInv
  BY DEF ClientTypes, LinkInv, LinkType
<1>1. UNCHANGED <<connected, stream, flagVars>> /\ (broken => broken') => PutOff'
  BY DEF flagVars, PutOff
<1>2. CASE SocketNext
  BY <1>1, <1>2 DEF SocketNext, ReadFrame, WriteSent, Break, OpFails
<1>3. CASE OnRead \/ Run \/ Stop \/ UNCHANGED vars
  BY <1>1, <1>3 DEF OnRead, Run, Stop, linkVars, vars
<1>4. CASE OnReadError
  <2>1. /\ Recycle(Cancelled("none"), Cancelled(writing), FALSE, writes)
        /\ broken /\ UNCHANGED <<closing, wantConnect>>
    BY <1>0, <1>4 DEF OnReadError, StreamFailed, ErrorsInv
  <2>. QED  BY <2>1, RecycleReconnects
<1>5. CASE OnWriteError
  <2>1. /\ Recycle(Cancelled(reading), Cancelled("none"), FALSE, Tail(writes))
        /\ broken /\ UNCHANGED <<closing, wantConnect>>
    BY <1>0, <1>5 DEF OnWriteError, StreamFailed, ErrorsInv
  <2>. QED  BY <2>1, RecycleReconnects
<1>6. CASE OnWrite
  <2>1. UNCHANGED <<closing, wantConnect>>
    BY <1>6 DEF OnWrite
  <2>2. CASE MoreToWrite
    BY <1>1, <1>6, <2>1, <2>2 DEF OnWrite, flagVars
  <2>3. CASE ~MoreToWrite
    <3>1. Recycle(reading, "none", connected, << >>)
      BY <1>6, <2>3 DEF OnWrite, Drained
    <3>2. stream => connected \/ broken
      BY DEF PutOff
    <3>. QED  BY <1>0, <2>1, <3>1, <3>2, RecycleReconnects
  <2>. QED  BY <2>2, <2>3
<1>7. CASE RunTask
  <2>1. closing' = FALSE /\ wantConnect' = TRUE
    BY <1>7 DEF RunTask
  <2>2. CASE reading # "none" \/ writing # "none" \/ stream
    <3>1. stream /\ CancelStream
      BY <1>0, <1>7, <2>2 DEF RunTask, Owned
    <3>. QED  BY <2>1, <3>1 DEF CancelStream, PutOff
  <2>3. CASE ~(reading # "none" \/ writing # "none" \/ stream)
    <3>1. DoConnect
      BY <1>7, <2>3 DEF RunTask
    <3>. QED  BY <3>1 DEF DoConnect, PutOff
  <2>. QED  BY <2>2, <2>3
<1>8. CASE StopTask
  BY <1>8 DEF StopTask, CancelStream, PutOff
<1>9. ASSUME NEW r \in Req, WriteTask(r) \/ Caller(r)
      PROVE  PutOff'
  BY <1>1, <1>9 DEF WriteTask, Caller, Register, PostWrite, Return, Expire, TimeOut, linkVars
<1>10. CASE RunPosted
  BY <1>7, <1>8, <1>9, <1>10, RunsFirst DEF ClientTypes
<1>. QED
  BY <1>2, <1>3, <1>4, <1>5, <1>6, <1>9, <1>10 DEF Next, StrandNext

(* The stream is there exactly while an operation is outstanding on it: it *)
(* is never destroyed under one, and never left behind with no handler to  *)
(* come; while the client is connected a read is outstanding, so the end   *)
(* of the connection is going to be noticed; and a reconnect that was put  *)
(* off is wanted and has such a stream to wait for.                        *)
THEOREM StreamsAreOwned == Spec => []StreamOwned
<1>1. ClientTypes /\ PutOff => StreamOwned
  BY TypeParts, OwnedStreams DEF ClientTypes, LinkInv
<1>2. Init => PutOff
  BY DEF Init, PutOff
<1>3. ClientTypes /\ PutOff /\ [Next]_vars => PutOff'
  BY StepPutOff
<1>. QED  BY TypesInductive, <1>1, <1>2, <1>3, PTL DEF Spec

-----------------------------------------------------------------------------
(* The promises. *)

(* The node has the request over this stream, or its answer is here, or it *)
(* is in writes_.                                                          *)
OnStream(r) == r \in atNode \/ frame = r \/ InQueue(writes, r)

Waits(r) == rstate[r] \in {"registered", "waiting", "expired"} /\ outcome[r] = "none"

Awaited(r) ==
  rstate[r] = "registered" \/ r \in dropped \/ InQueue(posted, WriteOf(r)) \/ (stream /\ OnStream(r))

(* A message that was written leaves writes_ only after the node has it:   *)
(* its request is settled or still to be answered.                         *)
SentInv ==
  writing = "sent" /\ Head(writes) \in pending =>
    Head(writes) \in atNode \/ frame = Head(writes)

(* Nobody reads a stream whose read has failed, and all who waited for it  *)
(* were failed with it.                                                    *)
QuietInv == stream /\ reading = "none" => \A r \in pending : r \notin atNode /\ frame # r

(* A request is on its way only after its write was posted. *)
FreshInv ==
  \A r \in Req : rstate[r] \in {"new", "registered"} =>
    ~OnStream(r) /\ ~InQueue(posted, WriteOf(r))

(* A request that was not made has no outcome. *)
NewInv == \A r \in Req : rstate[r] = "new" => outcome[r] = "none"

WaitsInv == \A r \in Req : r \in pending <=> Waits(r)
AwaitedInv == \A r \in pending : Awaited(r)

PromiseInv == SentInv /\ QuietInv /\ FreshInv /\ NewInv /\ WaitsInv /\ AwaitedInv

LEMMA ExactParts ==
  ASSUME ClientTypes
  PROVE  PendingExact <=> WaitsInv /\ AwaitedInv
<1>0. DOMAIN posted = 1 .. Len(posted) /\ DOMAIN writes = 1 .. Len(writes)
  BY DEF ClientTypes, OuterType, LinkInv, LinkType
<1>1. pending \subseteq Req
  BY DEF ClientTypes, RequestType
<1>2. WaitsInv <=> pending = {r \in Req : Waits(r)}
  BY <1>1 DEF WaitsInv
<1>3. AwaitedInv <=>
        \A r \in pending :
          \/ rstate[r] = "registered" \/ r \in dropped
          \/ \E i \in DOMAIN posted : posted[i] = [kind |-> "write", req |-> r]
          \/ stream /\ (r \in atNode \/ frame = r \/ \E i \in DOMAIN writes : writes[i] = r)
  BY <1>0 DEF AwaitedInv, Awaited, InQueue, WriteOf, OnStream
<1>. QED  BY <1>2, <1>3 DEF PendingExact, Waits

LEMMA InitPromises == Init => PromiseInv
<1>. SUFFICES ASSUME Init PROVE PromiseInv
  OBVIOUS
<1>1. FreshInv
  BY EmptyQueue, ClientAssumption DEF Init, FreshInv, OnStream
<1>2. SentInv /\ QuietInv
  BY DEF Init, SentInv, QuietInv
<1>3. NewInv /\ WaitsInv /\ AwaitedInv
  BY DEF Init, NewInv, WaitsInv, Waits, AwaitedInv
<1>. QED  BY <1>1, <1>2, <1>3 DEF PromiseInv

(* Every promise that waits is failed. *)
LEMMA FailsAll ==
  ASSUME ClientTypes, PromiseInv, FailPending, UNCHANGED rstate,
         \A r \in Req : OnStream(r)' => OnStream(r),
         \A r \in Req : InQueue(posted', WriteOf(r)) => InQueue(posted, WriteOf(r))
  PROVE  PromiseInv'
<1>1. pending' = {} /\ outcome' = [r \in Req |-> IF r \in pending THEN "error" ELSE outcome[r]]
  BY DEF FailPending
<1>2. SentInv' /\ QuietInv' /\ AwaitedInv'
  BY <1>1 DEF SentInv, QuietInv, AwaitedInv
<1>3. FreshInv'
  BY DEF PromiseInv, FreshInv
<1>4. NewInv' /\ WaitsInv'
  BY <1>1 DEF PromiseInv, NewInv, WaitsInv, Waits
<1>. QED  BY <1>2, <1>3, <1>4 DEF PromiseInv

(* recycleStream puts nothing on a stream. *)
LEMMA RecycleAddsNone ==
  ASSUME NEW rd, NEW wr, NEW c, NEW ws, Recycle(rd, wr, c, ws),
         \A x : InQueue(ws, x) => InQueue(writes, x)
  PROVE  \A r \in Req : OnStream(r)' => OnStream(r)
<1>1. CASE MayRecycle(rd, wr)
  <2>1. writes' = << >> /\ frame' = NoReq /\ atNode' = {}
    BY <1>1 DEF Recycle, DoConnect, Disconnected
  <2>. QED  BY <2>1, EmptyQueue, ClientAssumption DEF OnStream
<1>2. CASE ~MayRecycle(rd, wr)
  <2>1. writes' = ws /\ UNCHANGED <<frame, atNode>>
    BY <1>2 DEF Recycle
  <2>. QED  BY <2>1 DEF OnStream
<1>. QED  BY <1>1, <1>2

(* Steps that leave the promises, the tasks and what is on the stream. *)
LEMMA PromisesKept ==
  ASSUME PromiseInv, UNCHANGED <<reqVars, stream>>,
         \A r \in Req : OnStream(r)' <=> OnStream(r),
         \A r \in Req : InQueue(posted', WriteOf(r)) <=> InQueue(posted, WriteOf(r)),
         pending \subseteq Req
  PROVE  FreshInv' /\ NewInv' /\ WaitsInv' /\ AwaitedInv'
BY DEF PromiseInv, FreshInv, NewInv, WaitsInv, Waits, AwaitedInv, Awaited, reqVars

LEMMA SocketPromises ==
  ASSUME ClientTypes, PromiseInv, SocketNext
  PROVE  PromiseInv'
<1>0. /\ pending \subseteq Req /\ UNCHANGED <<reqVars, stream, posted>>
      /\ LinkType /\ Owned /\ ErrorsInv /\ SentInv /\ QuietInv
  BY DEF SocketNext, ReadFrame, WriteSent, Break, OpFails, ClientTypes, LinkInv,
         RequestType, PromiseInv
<1>1. ASSUME \A r \in Req : OnStream(r)' <=> OnStream(r), SentInv', QuietInv'
      PROVE  PromiseInv'
  BY <1>0, <1>1, PromisesKept DEF PromiseInv
<1>2. CASE ReadFrame
  <2>1. /\ reading = "waiting" /\ reading' = "frame" /\ frame = NoReq
        /\ \E r \in atNode \cup {NoReq} : frame' = r /\ atNode' = atNode \ {r}
        /\ UNCHANGED <<writing, writes>>
    BY <1>0, <1>2 DEF ReadFrame, ErrorsInv
  <2>2. \A r \in Req : r \in atNode' \/ frame' = r <=> r \in atNode \/ frame = r
    BY <2>1, ClientAssumption
  <2>3. \A r \in Req : OnStream(r)' <=> OnStream(r)
    BY <2>1, <2>2 DEF OnStream
  <2>4. SentInv'
    BY <1>0, <2>1, <2>2 DEF SentInv, reqVars
  <2>5. QuietInv'
    BY <2>1 DEF QuietInv
  <2>. QED  BY <1>1, <2>3, <2>4, <2>5
<1>3. CASE WriteSent
  <2>1. /\ writing = "waiting" /\ ~broken /\ writing' = "sent"
        /\ atNode' = atNode \cup {Head(writes)} /\ UNCHANGED <<reading, frame, writes>>
    BY <1>3 DEF WriteSent
  <2>2. InQueue(writes, Head(writes))
    BY <2>1, FirstWrite, TakeQueue DEF ClientTypes, LinkInv, LinkType
  <2>3. \A r \in Req : OnStream(r)' <=> OnStream(r)
    BY <2>1, <2>2 DEF OnStream
  <2>4. SentInv'
    BY <2>1 DEF SentInv
  <2>5. QuietInv'
    BY <1>0, <2>1 DEF QuietInv, Owned, ErrorsInv
  <2>. QED  BY <1>1, <2>3, <2>4, <2>5
<1>4. CASE Break \/ OpFails
  <2>1. /\ UNCHANGED <<frame, writes, atNode>>
        /\ writing' = "sent" => writing = "sent"
        /\ reading' = "none" => reading = "none"
    BY <1>4 DEF Break, OpFails
  <2>2. \A r \in Req : OnStream(r)' <=> OnStream(r)
    BY <2>1 DEF OnStream
  <2>3. SentInv' /\ QuietInv'
    BY <1>0, <2>1 DEF SentInv, QuietInv, reqVars
  <2>. QED  BY <1>1, <2>2, <2>3
<1>. QED  BY <1>2, <1>3, <1>4 DEF SocketNext

LEMMA ReadPromises ==
  ASSUME ClientTypes, PromiseInv, OnRead
  PROVE  PromiseInv'
<1>1. /\ reading' = "waiting" /\ frame' = NoReq
      /\ UNCHANGED <<stream, writing, writes, atNode, posted, rstate, dropped>>
  BY DEF OnRead
<1>2. /\ pending' = pending \ {frame}
      /\ \A r \in Req : outcome'[r] = IF r = frame /\ r \in pending THEN "value" ELSE outcome[r]
  <2>1. CASE frame \in pending
    BY <2>1 DEF OnRead, ClientTypes, RequestType
  <2>2. CASE frame \notin pending
    BY <2>2 DEF OnRead
  <2>. QED  BY <2>1, <2>2
<1>3. pending \subseteq Req /\ NoReq \notin Req
  BY ClientAssumption DEF ClientTypes, RequestType
<1>4. \A r \in Req : OnStream(r)' <=> r \in atNode \/ InQueue(writes, r)
  BY <1>1, <1>3 DEF OnStream
<1>5. SentInv' /\ QuietInv'
  BY <1>1, <1>2 DEF PromiseInv, SentInv, QuietInv
<1>6. FreshInv'
  BY <1>1, <1>4 DEF PromiseInv, FreshInv, OnStream
<1>7. NewInv' /\ WaitsInv'
  BY <1>1, <1>2, <1>3 DEF PromiseInv, NewInv, WaitsInv, Waits
<1>8. AwaitedInv'
  BY <1>1, <1>2, <1>3, <1>4 DEF PromiseInv, AwaitedInv, Awaited, OnStream
<1>. QED  BY <1>5, <1>6, <1>7, <1>8 DEF PromiseInv

LEMMA ErrorPromises ==
  ASSUME ClientTypes, PromiseInv, OnReadError \/ OnWriteError
  PROVE  PromiseInv'
<1>1. CASE OnReadError
  <2>1. FailPending /\ UNCHANGED <<rstate, posted>>
    BY <1>1 DEF OnReadError, StreamFailed, FailWaiters
  <2>2. \A r \in Req : OnStream(r)' => OnStream(r)
    BY <1>1, RecycleAddsNone DEF OnReadError, StreamFailed
  <2>. QED  BY <2>1, <2>2, FailsAll
<1>2. CASE OnWriteError
  <2>1. FailPending /\ UNCHANGED <<rstate, posted>>
    BY <1>2 DEF OnWriteError, StreamFailed, FailWaiters
  <2>2. \A x : InQueue(Tail(writes), x) => InQueue(writes, x)
    BY <1>2, FirstWrite, TakeQueue DEF OnWriteError, ClientTypes
  <2>3. \A r \in Req : OnStream(r)' => OnStream(r)
    BY <1>2, <2>2, RecycleAddsNone DEF OnWriteError, StreamFailed
  <2>. QED  BY <2>1, <2>3, FailsAll
<1>. QED  BY <1>1, <1>2

LEMMA WrittenPromises ==
  ASSUME ClientTypes, PromiseInv, OnWrite
  PROVE  PromiseInv'
<1>1. writing = "sent" /\ UNCHANGED <<reqVars, posted>>
  BY DEF OnWrite
<1>2. /\ writes \in Seq(Req) /\ Tail(writes) \in Seq(Req)
      /\ \A x : InQueue(writes, x) <=> InQueue(Tail(writes), x) \/ x = Head(writes)
  BY <1>1, FirstWrite, TakeQueue DEF ClientTypes
<1>3. /\ pending \subseteq Req /\ stream /\ LinkType
      /\ SentInv /\ QuietInv
  BY <1>1 DEF ClientTypes, RequestType, LinkInv, Owned, PromiseInv
<1>4. CASE MoreToWrite
  <2>1. /\ writes' = Tail(writes) /\ writing' = "waiting"
        /\ UNCHANGED <<stream, reading, frame, atNode>>
    BY <1>4 DEF OnWrite
  <2>2. \A r \in Req : OnStream(r)' => OnStream(r)
    BY <1>2, <2>1 DEF OnStream
  <2>3. \A r \in pending : OnStream(r) => OnStream(r)'
    BY <1>1, <1>2, <1>3, <2>1 DEF OnStream, SentInv
  <2>4. SentInv' /\ QuietInv'
    BY <1>1, <1>3, <2>1 DEF SentInv, QuietInv, reqVars
  <2>5. FreshInv' /\ NewInv' /\ WaitsInv'
    BY <1>1, <2>2 DEF PromiseInv, FreshInv, NewInv, WaitsInv, Waits, reqVars
  <2>6. AwaitedInv'
    BY <1>1, <2>1, <2>3 DEF PromiseInv, AwaitedInv, Awaited, reqVars
  <2>. QED  BY <2>4, <2>5, <2>6 DEF PromiseInv
<1>5. CASE ~MoreToWrite
  <2>1. Recycle(reading, "none", connected, << >>) /\ Tail(writes) = << >>
    BY <1>5 DEF OnWrite, Drained, MoreToWrite
  <2>2. \A x : InQueue(writes, x) <=> x = Head(writes)
    BY <1>2, <2>1, EmptyQueue
  <2>3. \A r \in Req : OnStream(r)' => OnStream(r)
    BY <2>1, EmptyQueue, RecycleAddsNone
  <2>4. FreshInv' /\ NewInv' /\ WaitsInv'
    BY <1>1, <2>3 DEF PromiseInv, FreshInv, NewInv, WaitsInv, Waits, reqVars
  <2>5. CASE reading = "none"
    <3>1. writing' = "none" /\ atNode' = {} /\ frame' = NoReq
      BY <2>1, <2>5 DEF Recycle, MayRecycle, DoConnect, Disconnected
    <3>2. SentInv' /\ QuietInv'
      BY <1>1, <1>3, <3>1, ClientAssumption DEF SentInv, QuietInv, reqVars
    <3>3. \A r \in pending : ~OnStream(r)
      BY <1>1, <1>3, <2>2, <2>5 DEF OnStream, SentInv, QuietInv
    <3>4. AwaitedInv'
      BY <1>1, <3>3 DEF PromiseInv, AwaitedInv, Awaited, reqVars
    <3>. QED  BY <2>4, <3>2, <3>4 DEF PromiseInv
  <2>6. CASE reading # "none"
    <3>1. /\ reading' = reading /\ writing' = "none" /\ writes' = << >>
          /\ UNCHANGED <<stream, frame, atNode>>
      BY <2>1, <2>6 DEF Recycle, MayRecycle
    <3>2. SentInv' /\ QuietInv'
      BY <2>6, <3>1 DEF SentInv, QuietInv
    <3>3. \A r \in pending : OnStream(r) => OnStream(r)'
      BY <1>1, <1>3, <2>2, <3>1 DEF OnStream, SentInv
    <3>4. AwaitedInv'
      BY <1>1, <3>1, <3>3 DEF PromiseInv, AwaitedInv, Awaited, reqVars
    <3>. QED  BY <2>4, <3>2, <3>4 DEF PromiseInv
  <2>. QED  BY <2>5, <2>6
<1>. QED  BY <1>4, <1>5

LEMMA PostedPromises ==
  ASSUME ClientTypes, PromiseInv, RunPosted
  PROVE  PromiseInv'
<1>0. /\ pending \subseteq Req /\ LinkType /\ Owned /\ SentInv /\ QuietInv
      /\ rstate \in [Req -> {"new", "registered", "waiting", "returned", "expired", "timedout"}]
  BY DEF ClientTypes, LinkInv, RequestType, PromiseInv
<1>1. CASE /\ CancelStream /\ UNCHANGED reqVars
           /\ \A r \in Req : InQueue(posted, WriteOf(r)) <=> InQueue(posted', WriteOf(r))
  <2>1. /\ UNCHANGED <<stream, frame, writes, atNode>>
        /\ writing' = "sent" => writing = "sent"
        /\ reading' = "none" => reading = "none"
    BY <1>1 DEF CancelStream, Cancelled
  <2>2. \A r \in Req : OnStream(r)' <=> OnStream(r)
    BY <2>1 DEF OnStream
  <2>3. SentInv' /\ QuietInv'
    BY <1>0, <1>1, <2>1 DEF SentInv, QuietInv, reqVars
  <2>. QED  BY <1>0, <1>1, <2>1, <2>2, <2>3, PromisesKept DEF PromiseInv
<1>2. CASE /\ DoConnect /\ UNCHANGED <<writes, reqVars>> /\ ~stream
           /\ \A r \in Req : InQueue(posted, WriteOf(r)) <=> InQueue(posted', WriteOf(r))
  <2>1. writing' = "none" /\ atNode' = {} /\ frame' = NoReq
    BY <1>2 DEF DoConnect
  <2>2. \A r \in Req : OnStream(r)' => OnStream(r)
    BY <1>2, <2>1, ClientAssumption DEF OnStream
  <2>3. SentInv' /\ QuietInv'
    BY <1>0, <1>2, <2>1, ClientAssumption DEF SentInv, QuietInv, reqVars
  <2>4. FreshInv' /\ NewInv' /\ WaitsInv'
    BY <1>2, <2>2 DEF PromiseInv, FreshInv, NewInv, WaitsInv, Waits, reqVars
  <2>5. AwaitedInv'
    BY <1>0, <1>2 DEF PromiseInv, AwaitedInv, Awaited, reqVars
  <2>. QED  BY <2>3, <2>4, <2>5 DEF PromiseInv
<1>3. ASSUME NEW r \in Req, WriteTask(r),
             \A t : InQueue(posted, t) <=> InQueue(posted', t) \/ t = WriteOf(r)
      PROVE  PromiseInv'
  <2>1. UNCHANGED <<stream, reading, frame, atNode, pending, rstate, outcome>>
    BY <1>3 DEF WriteTask
  <2>2. /\ \A s \in Req : InQueue(posted', WriteOf(s)) => InQueue(posted, WriteOf(s))
        /\ \A s \in Req : InQueue(posted, WriteOf(s)) <=> InQueue(posted', WriteOf(s)) \/ s = r
    BY <1>3 DEF WriteOf
  <2>3. rstate[r] \notin {"new", "registered"}
    BY <2>2 DEF PromiseInv, FreshInv
  <2>4. NewInv' /\ WaitsInv'
    BY <2>1 DEF PromiseInv, NewInv, WaitsInv, Waits
  <2>5. CASE closing \/ ~stream
    <3>1. dropped' = dropped \cup {r} /\ UNCHANGED <<writes, writing>>
      BY <1>3, <2>5 DEF WriteTask
    <3>2. \A s \in Req : OnStream(s)' <=> OnStream(s)
      BY <2>1, <3>1 DEF OnStream
    <3>3. SentInv' /\ QuietInv' /\ FreshInv'
      BY <2>1, <2>2, <3>1, <3>2 DEF PromiseInv, SentInv, QuietInv, FreshInv
    <3>4. AwaitedInv'
      BY <1>0, <2>1, <2>2, <3>1, <3>2 DEF PromiseInv, AwaitedInv, Awaited
    <3>. QED  BY <2>4, <3>3, <3>4 DEF PromiseInv
  <2>6. CASE ~(closing \/ ~stream)
    <3>1. /\ writes' = Append(writes, r) /\ dropped' = dropped /\ stream
          /\ writing' = IF writing = "none" THEN "waiting" ELSE writing
      BY <1>3, <2>6 DEF WriteTask
    <3>2. /\ \A s : InQueue(writes', s) <=> InQueue(writes, s) \/ s = r
          /\ writes # << >> => Head(writes') = Head(writes)
      BY <1>0, <3>1, AppendQueue DEF LinkType
    <3>3. \A s \in Req : OnStream(s)' <=> OnStream(s) \/ s = r
      BY <2>1, <3>2 DEF OnStream
    <3>4. QuietInv'
      BY <1>0, <2>1 DEF QuietInv
    <3>5. SentInv'
      <4>1. writing' = "sent" => writing = "sent" /\ Head(writes') = Head(writes)
        BY <1>0, <3>1, <3>2 DEF LinkType
      <4>. QED  BY <1>0, <2>1, <4>1 DEF SentInv
    <3>6. FreshInv'
      BY <2>1, <2>2, <2>3, <3>3 DEF PromiseInv, FreshInv
    <3>7. AwaitedInv'
      BY <1>0, <2>1, <2>2, <3>1, <3>3 DEF PromiseInv, AwaitedInv, Awaited
    <3>. QED  BY <2>4, <3>4, <3>5, <3>6, <3>7 DEF PromiseInv
  <2>. QED  BY <2>5, <2>6
<1>4. CASE /\ RunTask \/ StopTask
           /\ \A t : t.kind = "write" => (InQueue(posted, t) <=> InQueue(posted', t))
  <2>1. \A r \in Req : InQueue(posted, WriteOf(r)) <=> InQueue(posted', WriteOf(r))
    BY <1>4 DEF WriteOf
  <2>2. UNCHANGED reqVars
    BY <1>4 DEF RunTask, StopTask
  <2>3. CancelStream \/ (DoConnect /\ ~stream /\ UNCHANGED writes)
    BY <1>4 DEF RunTask, StopTask
  <2>. QED  BY <1>1, <1>2, <2>1, <2>2, <2>3
<1>. QED  BY <1>3, <1>4, RunsFirst DEF ClientTypes

LEMMA CallerPromises ==
  ASSUME ClientTypes, PromiseInv, NEW r \in Req, Caller(r)
  PROVE  PromiseInv'
<1>0. /\ pending \subseteq Req
      /\ rstate \in [Req -> {"new", "registered", "waiting", "returned", "expired", "timedout"}]
  BY DEF ClientTypes, RequestType
<1>1. /\ UNCHANGED <<stream, reading, writing, frame, writes, atNode, outcome, dropped>>
      /\ \A s \in Req : OnStream(s)' <=> OnStream(s)
  BY DEF Caller, Register, PostWrite, Return, Expire, TimeOut, linkVars, OnStream
<1>2. CASE Register(r)
  <2>1. /\ rstate[r] = "new" /\ rstate' = [rstate EXCEPT ![r] = "registered"]
        /\ pending' = pending \cup {r} /\ UNCHANGED posted
    BY <1>2 DEF Register
  <2>2. /\ outcome[r] = "none" /\ ~OnStream(r)
        /\ rstate'[r] = "registered" /\ \A s \in Req : s # r => rstate'[s] = rstate[s]
    BY <1>0, <2>1 DEF PromiseInv, NewInv, FreshInv
  <2>3. SentInv'
    <3>1. writing = "sent" => Head(writes) # r
      BY <2>2, FirstWrite, TakeQueue DEF ClientTypes, OnStream
    <3>. QED  BY <1>1, <2>1, <3>1 DEF PromiseInv, SentInv
  <2>4. QuietInv'
    BY <1>1, <2>1, <2>2 DEF PromiseInv, QuietInv, OnStream
  <2>5. FreshInv'
    BY <1>0, <1>1, <2>1, <2>2 DEF PromiseInv, FreshInv
  <2>6. NewInv' /\ WaitsInv'
    BY <1>0, <1>1, <2>1, <2>2 DEF PromiseInv, NewInv, WaitsInv, Waits
  <2>7. AwaitedInv'
    BY <1>0, <1>1, <2>1, <2>2 DEF PromiseInv, AwaitedInv, Awaited
  <2>. QED  BY <2>3, <2>4, <2>5, <2>6, <2>7 DEF PromiseInv
<1>3. CASE PostWrite(r)
  <2>1. /\ rstate[r] = "registered" /\ rstate' = [rstate EXCEPT ![r] = "waiting"]
        /\ UNCHANGED pending /\ Post("write", r)
    BY <1>3 DEF PostWrite
  <2>2. \A t : InQueue(posted', t) <=> InQueue(posted, t) \/ t = WriteOf(r)
    BY <2>1, PostType DEF ClientTypes, WriteOf
  <2>3. \A s \in Req : InQueue(posted', WriteOf(s)) <=> InQueue(posted, WriteOf(s)) \/ s = r
    BY <2>2 DEF WriteOf
  <2>4. rstate'[r] = "waiting" /\ \A s \in Req : s # r => rstate'[s] = rstate[s]
    BY <1>0, <2>1
  <2>5. SentInv' /\ QuietInv'
    BY <1>1, <2>1 DEF PromiseInv, SentInv, QuietInv
  <2>6. FreshInv' /\ NewInv' /\ WaitsInv'
    BY <1>1, <2>1, <2>3, <2>4 DEF PromiseInv, FreshInv, NewInv, WaitsInv, Waits
  <2>7. AwaitedInv'
    BY <1>0, <1>1, <2>1, <2>3, <2>4 DEF PromiseInv, AwaitedInv, Awaited
  <2>. QED  BY <2>5, <2>6, <2>7 DEF PromiseInv
<1>4. CASE Return(r) \/ Expire(r)
  <2>1. /\ UNCHANGED <<pending, posted>>
        /\ rstate[r] = "waiting"
        /\ \/ outcome[r] # "none" /\ rstate' = [rstate EXCEPT ![r] = "returned"]
           \/ outcome[r] = "none" /\ rstate' = [rstate EXCEPT ![r] = "expired"]
    BY <1>4 DEF Return, Expire
  <2>2. /\ \A s \in Req : s # r => rstate'[s] = rstate[s]
        /\ rstate'[r] = IF outcome[r] = "none" THEN "expired" ELSE "returned"
    BY <1>0, <2>1
  <2>3. SentInv' /\ QuietInv'
    BY <1>1, <2>1 DEF PromiseInv, SentInv, QuietInv
  <2>4. FreshInv' /\ NewInv' /\ WaitsInv'
    BY <1>1, <2>1, <2>2 DEF PromiseInv, FreshInv, NewInv, WaitsInv, Waits
  <2>5. AwaitedInv'
    BY <1>0, <1>1, <2>1, <2>2 DEF PromiseInv, AwaitedInv, Awaited
  <2>. QED  BY <2>3, <2>4, <2>5 DEF PromiseInv
<1>5. CASE TimeOut(r)
  <2>1. /\ rstate[r] = "expired" /\ rstate' = [rstate EXCEPT ![r] = "timedout"]
        /\ pending' = pending \ {r} /\ UNCHANGED posted
    BY <1>5 DEF TimeOut, Forget
  <2>2. rstate'[r] = "timedout" /\ \A s \in Req : s # r => rstate'[s] = rstate[s]
    BY <1>0, <2>1
  <2>3. SentInv' /\ QuietInv'
    BY <1>1, <2>1 DEF PromiseInv, SentInv, QuietInv
  <2>4. FreshInv' /\ NewInv' /\ WaitsInv'
    BY <1>0, <1>1, <2>1, <2>2 DEF PromiseInv, FreshInv, NewInv, WaitsInv, Waits
  <2>5. AwaitedInv'
    BY <1>0, <1>1, <2>1, <2>2 DEF PromiseInv, AwaitedInv, Awaited
  <2>. QED  BY <2>3, <2>4, <2>5 DEF PromiseInv
<1>. QED  BY <1>2, <1>3, <1>4, <1>5 DEF Caller

LEMMA StepPromises ==
  ASSUME ClientTypes, PromiseInv, [Next]_vars
  PROVE  PromiseInv'
<1>0. pending \subseteq Req
  BY DEF ClientTypes, RequestType
<1>1. CASE Run
  <2>1. UNCHANGED <<linkVars, reqVars>> /\ Post("run", NoReq)
    BY <1>1 DEF Run
  <2>2. \A r \in Req : InQueue(posted', WriteOf(r)) <=> InQueue(posted, WriteOf(r))
    BY <2>1, PostType DEF ClientTypes, WriteOf
  <2>3. SentInv' /\ QuietInv' /\ (\A r \in Req : OnStream(r)' <=> OnStream(r))
    BY <2>1 DEF PromiseInv, SentInv, QuietInv, OnStream, linkVars, reqVars
  <2>. QED  BY <1>0, <2>1, <2>2, <2>3, PromisesKept DEF PromiseInv, linkVars
<1>2. CASE Stop
  <2>1. UNCHANGED <<linkVars, rstate>> /\ Post("stop", NoReq) /\ FailPending
    BY <1>2 DEF Stop
  <2>2. \A r \in Req : InQueue(posted', WriteOf(r)) => InQueue(posted, WriteOf(r))
    BY <2>1, PostType DEF ClientTypes, WriteOf
  <2>3. \A r \in Req : OnStream(r)' => OnStream(r)
    BY <2>1 DEF OnStream, linkVars
  <2>. QED  BY <2>1, <2>2, <2>3, FailsAll
<1>3. CASE UNCHANGED vars
  <2>1. UNCHANGED <<linkVars, reqVars, posted>>
    BY <1>3 DEF vars
  <2>2. SentInv' /\ QuietInv' /\ (\A r \in Req : OnStream(r)' <=> OnStream(r))
    BY <2>1 DEF PromiseInv, SentInv, QuietInv, OnStream, linkVars, reqVars
  <2>. QED  BY <1>0, <2>1, <2>2, PromisesKept DEF PromiseInv, linkVars
<1>. QED
  BY <1>1, <1>2, <1>3, SocketPromises, ReadPromises, ErrorPromises, WrittenPromises,
     PostedPromises, CallerPromises
  DEF Next, StrandNext

(* A promise is in pending_ exactly while its request waits for it: none   *)
(* is settled twice and none is left behind, and each is still to be sent, *)
(* can be answered over this stream or fails with it, or was dropped.      *)
THEOREM PromisesAreExact == Spec => []PendingExact
<1>1. ClientTypes /\ PromiseInv /\ [Next]_vars => PromiseInv'
  BY StepPromises
<1>2. Spec => []PromiseInv
  BY InitPromises, TypesInductive, <1>1, PTL DEF Spec
<1>3. ClientTypes /\ PromiseInv => PendingExact
  BY ExactParts DEF PromiseInv
<1>. QED  BY TypesInductive, <1>2, <1>3, PTL
=============================================================================
