------------------------------ MODULE EngineSync ------------------------------
(***************************************************************************)
(* The sync and apply threads of the engine (src/src/edgy/engine.cpp).     *)
(*                                                                         *)
(* The sync thread connects to the upstream node, subscribes to its        *)
(* stream, loads a snapshot page by page and then watches for a reason to  *)
(* load another one.  The apply thread drains the queue that the stream    *)
(* callbacks fill, applies each message to the ledger builder, and         *)
(* republishes the builder between closes.  Both write the builder; what   *)
(* keeps them apart is ready_, applyIdle_ and the order of the steps.      *)
(*                                                                         *)
(* The node's history is a constant: Log[i] is the i-th message the node   *)
(* publishes on its stream, either the ledgerClosed of ledger Log[i].seq   *)
(* or one validated transaction of it that writes the object Log[i].obj.   *)
(* The index of a transaction in Log serves as the version of what it      *)
(* writes, so the builder maps an object to the index of its last writer.  *)
(***************************************************************************)
EXTENDS Integers, Sequences, FiniteSets

CONSTANTS
  Obj,         \* ledger objects
  Optional,    \* those of the types a snapshot may do without
  Closed,      \* stands in Log[i].obj for a ledgerClosed message
  Log,         \* the messages the node publishes, in order
  StartPos,    \* how much of Log is published when the engine starts
  QueueCap,    \* 100'000 in the code: queue length above which it overflows
  BatchMax,    \* 256 in the code: messages taken by one apply cycle
  FaultBound,  \* how often each fault happens in a behaviour
  MayStop      \* whether Engine::stop() may be called

FaultKind == {"disconnect", "connect", "request", "skip", "meta", "throw"}

(* The node publishes ledgerClosed of N, then the transactions of N, and   *)
(* numbers its ledgers without holes (engine.hpp, comment at line 56).     *)
WellFormedLog ==
  /\ Log \in Seq([seq : Nat \ {0}, obj : Obj \cup {Closed}])
  /\ \A i \in 1 .. Len(Log) - 1 :
       IF Log[i + 1].obj = Closed
       THEN Log[i + 1].seq = Log[i].seq + 1
       ELSE Log[i + 1].seq = Log[i].seq

ASSUME EngineAssumption ==
  /\ Closed \notin Obj
  /\ Optional \subseteq Obj
  /\ WellFormedLog
  /\ StartPos \in 1 .. Len(Log)
  /\ QueueCap \in Nat
  /\ BatchMax \in Nat \ {0}
  /\ FaultBound \in [FaultKind -> Nat]
  /\ MayStop \in BOOLEAN

VARIABLES
  pos, conn, attached,                         \* the node and the connection
  ready, needResync, stop,                     \* flags every thread reads
  applyQueue, applyIdle, dirty,                \* the apply queue and its state
  apc, batch, planTick, tickView,              \* apply thread
  applyTxs, applyNoMeta, prevCloseTxs, inline, \* close accounting
  spc, subscribed, snapSeq, skipped, loadView, \* sync thread
  builder, open, currentSeq, published,        \* ledger state
  faults                                       \* faults that have happened

nodeVars  == <<pos, conn, attached>>
flagVars  == <<ready, needResync, stop>>
queueVars == <<applyQueue, applyIdle>>
applyVars == <<apc, batch, planTick, tickView>>
statVars  == <<applyTxs, applyNoMeta, prevCloseTxs, inline>>
loadVars  == <<snapSeq, skipped, loadView>>
syncVars  == <<spc, subscribed, loadVars>>
dataVars  == <<builder, open, currentSeq, published, dirty>>
vars == <<nodeVars, flagVars, queueVars, applyVars, statVars, syncVars,
          dataVars, faults>>

-----------------------------------------------------------------------------
(* The node's ledgers. *)

Positions == 1 .. Len(Log)
Txs == {i \in Positions : Log[i].obj # Closed}
TxCount(s) == Cardinality({i \in Txs : Log[i].seq = s})
Writers(o, s) == {i \in Txs : Log[i].obj = o /\ Log[i].seq <= s}

(* i is the version of object o in the node's ledger s. *)
IsVersionAt(i, o, s) ==
  /\ i \in Writers(o, s)
  /\ \A j \in Writers(o, s) : j <= i

Known(s) == {o \in Obj : Writers(o, s) # {}}

NoView == [seq |-> -1, open |-> FALSE, has |-> {}]
Present == {o \in Obj : builder[o] # 0}
BuilderView == [seq |-> currentSeq, open |-> open, has |-> Present]

(* A fault of the environment, each kind within its bound. *)
Fault(k) ==
  /\ faults[k] < FaultBound[k]
  /\ faults' = [faults EXCEPT ![k] = @ + 1]

OnDisconnect == ready' = FALSE /\ needResync' = TRUE

Init ==
  /\ pos = StartPos /\ conn = "connecting" /\ attached = FALSE
  /\ ready = FALSE /\ needResync = FALSE /\ stop = FALSE
  /\ applyQueue = << >> /\ applyIdle = TRUE /\ dirty = FALSE
  /\ apc = "wait" /\ batch = << >> /\ planTick = FALSE /\ tickView = NoView
  /\ applyTxs = 0 /\ applyNoMeta = 0 /\ prevCloseTxs = 0 /\ inline = FALSE
  /\ spc = "waitConn" /\ subscribed = FALSE /\ snapSeq = 0
  /\ skipped = {} /\ loadView = NoView
  /\ builder = [o \in Obj |-> 0] /\ open = FALSE
  /\ currentSeq = 0 /\ published = NoView
  /\ faults = [k \in FaultKind |-> 0]

-----------------------------------------------------------------------------
(* The node and the connection to it, as the stream callbacks see them. *)

(* Slip: the limit is not looked at. *)
EnqueueAppends(i) ==
  /\ applyQueue' = Append(applyQueue, i)
  /\ UNCHANGED <<ready, needResync>>

(* enqueueApply: past the limit everything queued is thrown away, the new  *)
(* message with it, and a new snapshot is asked for.                       *)
EnqueueApply(i) ==
  IF Len(applyQueue) > QueueCap
  THEN applyQueue' = << >> /\ ready' = FALSE /\ needResync' = TRUE
  ELSE EnqueueAppends(i)

(* The node publishes its next message; a connection it streams to gets it *)
(* in order, any other never sees it.                                      *)
Publish ==
  /\ pos < Len(Log)
  /\ pos' = pos + 1
  /\ IF attached THEN EnqueueApply(pos + 1)
     ELSE UNCHANGED <<applyQueue, ready, needResync>>
  /\ UNCHANGED <<conn, attached, stop, applyIdle, applyVars, statVars,
                 syncVars, dataVars, faults>>

(* The node loses sync for a while and leaves one whole ledger out of its  *)
(* stream.                                                                 *)
SkipLedger ==
  /\ pos < Len(Log) /\ Log[pos + 1].obj = Closed
  /\ Fault("skip")
  /\ \E n \in pos + 1 .. Len(Log) :
       /\ \A i \in pos + 2 .. n : Log[i].obj # Closed
       /\ n < Len(Log) => Log[n + 1].obj = Closed
       /\ pos' = n
  /\ UNCHANGED <<conn, attached, flagVars, queueVars, applyVars, statVars,
                 syncVars, dataVars>>

(* The stream breaks: what the node publishes from here on is lost. *)
Disconnect ==
  /\ conn = "up"
  /\ Fault("disconnect")
  /\ conn' = "down" /\ attached' = FALSE
  /\ OnDisconnect
  /\ UNCHANGED <<pos, stop, queueVars, applyVars, statVars, syncVars, dataVars>>

ConnectOk ==
  /\ conn = "connecting"
  /\ conn' = "up"
  /\ UNCHANGED <<pos, attached, flagVars, queueVars, applyVars, statVars,
                 syncVars, dataVars, faults>>

(* One failed attempt; NodeClient never tries again by itself. *)
ConnectFail ==
  /\ conn = "connecting"
  /\ Fault("connect")
  /\ conn' = "down"
  /\ OnDisconnect
  /\ UNCHANGED <<pos, attached, stop, queueVars, applyVars, statVars, syncVars,
                 dataVars>>

-----------------------------------------------------------------------------
(* The apply thread. *)

(* planApplyCycle, evaluated by the apply loop each time its wait ends. *)
ApplyExit ==
  /\ apc = "wait"
  /\ stop /\ applyQueue = << >>
  /\ apc' = "done"
  /\ UNCHANGED <<nodeVars, flagVars, queueVars, batch, planTick, tickView,
                 statVars, syncVars, dataVars, faults>>

Held == ~ready

ApplyTake ==
  /\ apc = "wait"
  /\ ~Held
  /\ applyQueue # << >>
  /\ LET n == IF Len(applyQueue) < BatchMax THEN Len(applyQueue) ELSE BatchMax
     IN  /\ batch' = SubSeq(applyQueue, 1, n)
         /\ applyQueue' = SubSeq(applyQueue, n + 1, Len(applyQueue))
  /\ applyIdle' = FALSE
  /\ planTick' = ~stop
  /\ apc' = "apply"
  /\ UNCHANGED <<nodeVars, flagVars, tickView, statVars, syncVars, dataVars, faults>>

(* An empty queue leaves applyIdle_ set: the cycle goes straight on to the *)
(* mid-close tick.                                                         *)
ApplyIdleCycle ==
  /\ apc = "wait"
  /\ ~stop /\ ~Held
  /\ applyQueue = << >>
  /\ planTick' = TRUE
  /\ apc' = "after"
  /\ UNCHANGED <<nodeVars, flagVars, queueVars, batch, tickView, statVars,
                 syncVars, dataVars, faults>>

(* applyLedgerClosed returns early on a ledger it already has. *)
IsOldClose(seq) == seq <= currentSeq

(* Slip: one missing ledger goes unnoticed. *)
GapOffByOne(seq) == currentSeq # 0 /\ seq > currentSeq + 2

GapFlagged(seq) == currentSeq # 0 /\ seq > currentSeq + 1

(* logSync prints "inline with node" when the transactions applied since   *)
(* the previous close match that close's txn_count, or it is not known.    *)
TxsMatchNode ==
  prevCloseTxs = 0 \/ applyTxs + applyNoMeta = prevCloseTxs

(* A close may also name a parent that is not the engine's ledger.  Batches *)
(* and loads exclude each other, so its view is stored as it is taken.     *)
ApplyLedgerClosed(seq) ==
  IF ~ready \/ IsOldClose(seq)
  THEN UNCHANGED <<needResync, statVars, dataVars>>
  ELSE /\ \E otherParent \in BOOLEAN :
            needResync' = (needResync \/ GapFlagged(seq) \/ otherParent)
       /\ open' = FALSE
       /\ currentSeq' = seq
       /\ published' = [seq |-> seq, open |-> FALSE, has |-> Present]
       /\ dirty' = FALSE
       /\ inline' = TxsMatchNode
       /\ prevCloseTxs' = TxCount(seq)
       /\ applyTxs' = 0 /\ applyNoMeta' = 0
       /\ UNCHANGED builder

(* shouldApplyStreamTx: skip only older ledgers. *)
ShouldApplyStreamTx(seq) == seq >= currentSeq

(* A transaction is merged object by object, last writer wins.  When its   *)
(* metadata does not parse the transaction is counted and dropped.         *)
ApplyTransaction(i) ==
  IF ~ready \/ ~ShouldApplyStreamTx(Log[i].seq)
  THEN UNCHANGED <<statVars, dataVars, faults>>
  ELSE /\ open' = TRUE
       /\ \/ /\ builder' = [builder EXCEPT ![Log[i].obj] = i]
             /\ dirty' = TRUE
             /\ applyTxs' = applyTxs + 1
             /\ UNCHANGED <<applyNoMeta, faults>>
          \/ /\ Fault("meta")
             /\ applyNoMeta' = applyNoMeta + 1
             /\ UNCHANGED <<builder, dirty, applyTxs>>
       /\ UNCHANGED <<currentSeq, published, prevCloseTxs, inline>>

(* One item of the batch.  Nothing else writes the builder meanwhile:      *)
(* applyIdle_ is clear, so the sync thread waits.                          *)
ApplyItem ==
  /\ apc = "apply"
  /\ LET i == Head(batch) IN
       IF Log[i].obj = Closed
       THEN ApplyLedgerClosed(Log[i].seq) /\ UNCHANGED faults
       ELSE ApplyTransaction(i) /\ UNCHANGED needResync
  /\ batch' = Tail(batch)
  /\ apc' = IF Tail(batch) = << >> THEN "after" ELSE "apply"
  /\ UNCHANGED <<nodeVars, ready, stop, queueVars, planTick, tickView, syncVars>>

(* What a ledgerClosed does after its view is published (the cache, the    *)
(* broadcast to clients, the subscriptions) may throw; the rest of the     *)
(* batch goes with it.                                                     *)
ApplyThrow ==
  /\ apc = "apply" /\ ready
  /\ Log[Head(batch)].obj = Closed /\ ~IsOldClose(Log[Head(batch)].seq)
  /\ Fault("throw")
  /\ ApplyLedgerClosed(Log[Head(batch)].seq)
  /\ batch' = << >>
  /\ apc' = "after"
  /\ UNCHANGED <<nodeVars, ready, stop, queueVars, planTick, tickView, syncVars>>

BackToWait == apc' = "wait" /\ applyIdle' = TRUE

(* The tick is due when the cycle planned one, the engine is ready and the *)
(* update interval has elapsed.                                            *)
ApplyAfter ==
  /\ apc = "after"
  /\ \/ planTick /\ ready /\ apc' = "tick" /\ UNCHANGED applyIdle
     \/ BackToWait
  /\ UNCHANGED <<nodeVars, flagVars, applyQueue, batch, planTick, tickView,
                 statVars, syncVars, dataVars, faults>>

(* midCloseTick: with a live subscription and a pool that keeps up, the    *)
(* builder is published if it changed since it last was.  The view is      *)
(* taken here; it is stored in a step of its own, as publishBuilder takes  *)
(* a lock for the store alone.                                             *)
MidCloseTick ==
  /\ apc = "tick"
  /\ \/ /\ dirty /\ dirty' = FALSE
        /\ tickView' = BuilderView
        /\ apc' = "store" /\ UNCHANGED applyIdle
     \/ BackToWait /\ UNCHANGED <<dirty, tickView>>
  /\ UNCHANGED <<nodeVars, flagVars, applyQueue, batch, planTick, statVars,
                 syncVars, builder, open, currentSeq, published, faults>>

TickStores ==
  /\ apc = "store"
  /\ published' = tickView /\ tickView' = NoView
  /\ BackToWait
  /\ UNCHANGED <<nodeVars, flagVars, applyQueue, batch, planTick, statVars,
                 syncVars, builder, open, currentSeq, dirty, faults>>

ApplyNext ==
  \/ ApplyExit \/ ApplyTake \/ ApplyIdleCycle \/ ApplyItem \/ ApplyThrow
  \/ ApplyAfter \/ MidCloseTick \/ TickStores

-----------------------------------------------------------------------------
(* The sync thread. *)

SyncGoes(from, to) == spc = from /\ spc' = to

(* Slip: the inner loop does not look at the stop flag. *)
StopSeenOutside == {"waitConn", "waitIdle", "check", "failed"}

(* Where the sync thread looks at the stop flag and leaves. *)
StopSeen == {"waitConn", "waitIdle", "follow", "check", "failed"}

SyncStops ==
  /\ stop /\ spc \in StopSeen
  /\ spc' = "done"
  /\ UNCHANGED <<nodeVars, flagVars, queueVars, applyVars, statVars,
                 subscribed, loadVars, dataVars, faults>>

(* It polls for a connection and asks for none. *)
SyncConnected ==
  /\ SyncGoes("waitConn", "waitIdle")
  /\ ~stop /\ conn = "up"
  /\ UNCHANGED <<nodeVars, flagVars, queueVars, applyVars, statVars,
                 subscribed, loadVars, dataVars, faults>>

(* Slip: the snapshot waits for an empty queue too. *)
MayIfDrained == applyIdle /\ applyQueue = << >>

(* Slip: it is enough that nothing more will be taken. *)
MayIfHeld == Held

(* waitApplyIdle. *)
MaySnapshot == applyIdle

SyncIdle ==
  /\ SyncGoes("waitIdle", IF subscribed THEN "reset" ELSE "subscribe")
  /\ ~stop /\ MaySnapshot
  /\ UNCHANGED <<nodeVars, flagVars, queueVars, applyVars, statVars,
                 subscribed, loadVars, dataVars, faults>>

(* The answer is not looked at: an error leaves no stream. *)
SyncSubscribe ==
  /\ SyncGoes("subscribe", "reset")
  /\ conn = "up"
  /\ subscribed' = TRUE
  /\ \/ attached' = TRUE /\ UNCHANGED faults
     \/ Fault("request") /\ UNCHANGED attached
  /\ UNCHANGED <<pos, conn, flagVars, queueVars, applyVars, statVars, loadVars,
                 dataVars>>

(* loadSnapshot, up to its first request: everything local is dropped. *)
SyncReset ==
  /\ SyncGoes("reset", "header")
  /\ builder' = [o \in Obj |-> 0] /\ open' = FALSE
  /\ published' = NoView
  /\ applyTxs' = 0 /\ applyNoMeta' = 0 /\ prevCloseTxs' = 0 /\ inline' = FALSE
  /\ skipped' = {}
  /\ UNCHANGED <<nodeVars, flagVars, queueVars, applyVars, subscribed, snapSeq,
                 loadView, currentSeq, dirty, faults>>

(* The ledger request: the node's last validated ledger, which is the last *)
(* one it has announced or the next, about to be; or an answer with no     *)
(* ledger in it, which counts as ledger 0.                                 *)
SyncHeader ==
  /\ SyncGoes("header", "load")
  /\ conn = "up"
  /\ \/ /\ snapSeq' \in {Log[pos].seq, Log[pos].seq + 1}
        /\ snapSeq' <= Log[Len(Log)].seq
        /\ UNCHANGED faults
     \/ Fault("request") /\ snapSeq' = 0
  /\ currentSeq' = snapSeq'
  /\ UNCHANGED <<nodeVars, flagVars, queueVars, applyVars, statVars, subscribed,
                 skipped, loadView, builder, open, published, dirty>>

(* What is still to be loaded; the types a snapshot may do without come    *)
(* after all the others.                                                   *)
Unloaded == (Known(snapSeq) \ Present) \ skipped
NextType == IF Unloaded \subseteq Optional THEN Unloaded ELSE Unloaded \ Optional

(* A page is asked for: the node has the ledger, and nobody has said stop. *)
Paging == conn = "up" /\ ~stop /\ snapSeq # 0

(* ledger_data: one page, here one object, as it is in ledger snapSeq. *)
SyncLoadPage ==
  /\ SyncGoes("load", "load")
  /\ Paging
  /\ \E o \in NextType, i \in Txs :
       /\ IsVersionAt(i, o, snapSeq)
       /\ builder' = [builder EXCEPT ![o] = i]
  /\ UNCHANGED <<nodeVars, flagVars, queueVars, applyVars, statVars, subscribed,
                 loadVars, open, currentSeq, published, dirty, faults>>

(* An error in answer to such a type ends that type and not the load: what *)
(* is left of it stays out of the snapshot.                                *)
SyncSkip ==
  /\ SyncGoes("load", "load")
  /\ Paging
  /\ Unloaded \subseteq Optional
  /\ Fault("request")
  /\ \E left \in SUBSET Unloaded \ {{}} : skipped' = skipped \cup left
  /\ UNCHANGED <<nodeVars, flagVars, queueVars, applyVars, statVars, subscribed,
                 snapSeq, loadView, dataVars>>

(* The last page of the last type carried no marker, or was refused. *)
LastPage == snapSeq # 0 /\ Unloaded = {}

(* publishBuilder(false): the view is taken, and then stored. *)
SyncPublish ==
  /\ SyncGoes("load", "store")
  /\ LastPage
  /\ loadView' = BuilderView
  /\ UNCHANGED <<nodeVars, flagVars, queueVars, applyVars, statVars, subscribed,
                 snapSeq, skipped, dataVars, faults>>

SyncStores ==
  /\ SyncGoes("store", "clearResync")
  /\ published' = loadView /\ loadView' = NoView
  /\ UNCHANGED <<nodeVars, flagVars, queueVars, applyVars, statVars, subscribed,
                 snapSeq, skipped, builder, open, currentSeq, dirty, faults>>

(* needResync_ and ready_ are stored one after the other, whatever another *)
(* thread stored in them during the load.                                  *)
SyncClearResync ==
  /\ SyncGoes("clearResync", "setReady")
  /\ needResync' = FALSE
  /\ UNCHANGED <<nodeVars, ready, stop, queueVars, applyVars, statVars,
                 subscribed, loadVars, dataVars, faults>>

SyncReady ==
  /\ SyncGoes("setReady", "follow")
  /\ ready' = TRUE
  /\ UNCHANGED <<nodeVars, needResync, stop, queueVars, applyVars, statVars,
                 subscribed, loadVars, dataVars, faults>>

(* Slip: the old snapshot is served while the next one is loaded. *)
KeepsReady == UNCHANGED ready

LeavesReady == ready' = FALSE

(* The inner loop ends when a resync is needed or the connection is gone.  *)
SyncFollow ==
  /\ SyncGoes("follow", "check")
  /\ ~stop
  /\ needResync \/ conn # "up"
  /\ LeavesReady
  /\ subscribed' = (subscribed /\ conn = "up")
  /\ needResync' = (needResync \/ conn # "up")
  /\ UNCHANGED <<nodeVars, stop, queueVars, applyVars, statVars, loadVars,
                 dataVars, faults>>

(* NodeClient::stop(), a pause, run(): the old connection is dropped,      *)
(* which its read handler reports as a disconnect, and a new one is tried. *)
Reconnect ==
  /\ conn' = "connecting" /\ attached' = FALSE
  /\ UNCHANGED pos
  /\ needResync' = (needResync \/ conn = "up")

(* The connection is looked at a second time, after the inner loop. *)
SyncCheck ==
  /\ SyncGoes("check", "waitConn")
  /\ ~stop
  /\ IF conn = "up" THEN UNCHANGED <<nodeVars, needResync>> ELSE Reconnect
  /\ UNCHANGED <<ready, stop, queueVars, applyVars, statVars, subscribed,
                 loadVars, dataVars, faults>>

(* A request throws: the connection is gone, the answer is an error or     *)
(* does not come in time, the ledger asked for is none, or the page loop   *)
(* sees the stop flag.                                                     *)
SyncThrow ==
  /\ spc \in {"subscribe", "header", "load"}
  /\ \/ conn # "up" /\ UNCHANGED faults
     \/ spc = "load" /\ (stop \/ snapSeq = 0) /\ UNCHANGED faults
     \/ Fault("request")
  /\ spc' = "failed"
  /\ ready' = FALSE /\ subscribed' = FALSE
  /\ UNCHANGED <<nodeVars, needResync, stop, queueVars, applyVars, statVars,
                 loadVars, dataVars>>

SyncRetry ==
  /\ SyncGoes("failed", "waitConn")
  /\ ~stop
  /\ Reconnect
  /\ UNCHANGED <<ready, stop, queueVars, applyVars, statVars, subscribed,
                 loadVars, dataVars, faults>>

SyncNext ==
  \/ SyncStops \/ SyncConnected \/ SyncIdle \/ SyncSubscribe \/ SyncReset
  \/ SyncHeader \/ SyncLoadPage \/ SyncSkip \/ SyncPublish \/ SyncStores
  \/ SyncClearResync \/ SyncReady \/ SyncFollow \/ SyncCheck \/ SyncThrow
  \/ SyncRetry

(* Engine::stop() raises the flag, then joins the sync thread and the      *)
(* apply thread.                                                           *)
Stop ==
  /\ MayStop /\ ~stop
  /\ stop' = TRUE
  /\ UNCHANGED <<nodeVars, ready, needResync, queueVars, applyVars, statVars,
                 syncVars, dataVars, faults>>

-----------------------------------------------------------------------------
NodeNext == Publish \/ SkipLedger \/ Disconnect \/ ConnectOk \/ ConnectFail

Next == NodeNext \/ ApplyNext \/ SyncNext \/ Stop

(* Both threads run, every wait has a timeout, and a connect attempt ends. *)
(* Nothing makes the node publish, or stop() be called.                    *)
Fairness ==
  /\ WF_vars(SyncNext)
  /\ WF_vars(ApplyNext)
  /\ WF_vars(ConnectOk \/ ConnectFail)

Spec == Init /\ [][Next]_vars
FairSpec == Spec /\ Fairness

-----------------------------------------------------------------------------
(* Properties. *)

SyncPcs == {"waitConn", "waitIdle", "subscribe", "reset", "header", "load",
            "store", "clearResync", "setReady", "follow", "check", "failed", "done"}
View == [seq : Nat \cup {-1}, open : BOOLEAN, has : SUBSET Obj]

(* Every variable stays within its type, and the apply queue within its    *)
(* limit: enqueueApply never lets it grow past one over the limit.  A      *)
(* cycle that applies still has a message to apply.                        *)
TypeOK ==
  /\ pos \in Positions /\ conn \in {"down", "connecting", "up"}
  /\ attached \in BOOLEAN /\ ready \in BOOLEAN /\ needResync \in BOOLEAN
  /\ stop \in BOOLEAN /\ applyIdle \in BOOLEAN /\ dirty \in BOOLEAN
  /\ applyQueue \in Seq(Positions) /\ Len(applyQueue) <= QueueCap + 1
  /\ apc \in {"wait", "apply", "after", "tick", "store", "done"}
  /\ batch \in Seq(Positions) /\ planTick \in BOOLEAN
  /\ apc = "apply" => batch # << >>
  /\ applyTxs \in Nat /\ applyNoMeta \in Nat /\ prevCloseTxs \in Nat
  /\ inline \in BOOLEAN
  /\ spc \in SyncPcs /\ subscribed \in BOOLEAN /\ snapSeq \in Nat
  /\ builder \in [Obj -> Positions \cup {0}] /\ open \in BOOLEAN
  /\ skipped \subseteq Obj /\ loadView \in View /\ tickView \in View
  /\ currentSeq \in Nat /\ published \in View
  /\ faults \in [FaultKind -> Nat]

Elements(q) == {q[i] : i \in DOMAIN q}
Pending == Elements(applyQueue) \cup Elements(batch) \cup {i \in Positions : i > pos}

(* A transaction of a closed ledger that is neither in the builder nor on  *)
(* its way there.                                                          *)
Missing(i) ==
  /\ Log[i].seq <= currentSeq
  /\ i \notin Pending
  /\ builder[Log[i].obj] < i

InService == ready /\ ~needResync /\ conn = "up"

(* No transaction is lost silently.  While the engine serves and plans no  *)
(* new snapshot, the only transactions that can be missing are those of    *)
(* the very ledger the snapshot was taken of, as a queue that outlives its *)
(* connection may replay the first of them over the snapshot and never see *)
(* the rest, and those that wrote an object of a type the snapshot was     *)
(* refused.  Gaps, overflows, lost connections, failed loads and a stream  *)
(* that was never granted leave no later ledger incomplete.  Metadata that *)
(* does not parse and a handler that throws do lose transactions, and      *)
(* nothing asks for a snapshot after them.                                 *)
LossConfined ==
  InService /\ faults["meta"] = 0 /\ faults["throw"] = 0
    => \A i \in Txs : Missing(i) => Log[i].seq = snapSeq \/ Log[i].obj \in skipped

(* Every object of the snapshot, but for those of a type it was refused. *)
HoldsSnapshot(objects) == Known(snapSeq) \ skipped \subseteq objects

(* While the engine says it is ready, it serves some view, and the builder *)
(* holds every object of the snapshot.  A mid-close tick that overlaps the *)
(* load may take its view half-loaded and store it after the load's own;   *)
(* what is served is whole from the first close after the snapshot on, no  *)
(* matter how late that store comes.  And the sync thread never follows an *)
(* engine that is not ready without having been told to load again.        *)
ServedViewComplete ==
  /\ ready => published # NoView /\ HoldsSnapshot(Present)
  /\ ready /\ currentSeq # snapSeq => HoldsSnapshot(published.has)
  /\ spc = "follow" => ready \/ needResync

(* The apply thread is never in the middle of a batch while the sync       *)
(* thread clears the builder and loads a snapshot into it, although it may *)
(* have taken the batch before the connection broke.  And the wait that    *)
(* keeps them apart is for a cycle that is under way: applyIdle_ is clear  *)
(* only while the apply thread, which waits for nobody then, sets it again.*)
LoadIsExclusive ==
  /\ apc = "apply" => spc \notin {"subscribe", "reset", "header", "load",
                                  "store", "clearResync", "setReady"}
  /\ ~applyIdle => apc \in {"apply", "after", "tick", "store"}

(* Unless it is stopped, the engine is ready again and again if the        *)
(* connection in the end stays up: no snapshot waits for an apply thread   *)
(* that waits for it, and every failed load is tried again.                *)
ReadyIfConnected == <>[](conn = "up" /\ ~stop) => []<>ready

(* stop() always ends the sync thread, wherever it is; and the apply       *)
(* thread, which drains the queue and leaves, if a snapshot stays in place *)
(* or the queue stays empty.                                               *)
StopReturns ==
  /\ stop ~> spc = "done"
  /\ stop /\ [](ready \/ applyQueue = << >>) ~> apc = "done"

-----------------------------------------------------------------------------
(* What the repository says and the code does not do. *)

(* tests/edgy_tests.cpp:107: a snapshot hold does not apply or tick.  The  *)
(* tick of an empty cycle runs with applyIdle_ set, so the sync thread     *)
(* does not wait for it.                                                   *)
NoTickDuringSnapshot == ~(apc = "tick" /\ spc \in {"header", "load"})

(* README.md:3: the node's ledger is kept in memory and searches answered  *)
(* from it, once the state is full (README.md:70).  The view of a tick     *)
(* that overlapped the load may be half of it and be stored after the      *)
(* load's, just before ready_.                                             *)
ReadyServesSnapshot == ready => HoldsSnapshot(published.has)

(* tests/edgy_tests.cpp:115: stop drains the queue and exits.  While the   *)
(* engine is not ready the apply loop holds, and stop() joins it for ever. *)
StopEndsApply == stop ~> apc = "done"

(* engine.cpp:765: subscribe before the snapshot, so that closes during    *)
(* the load are queued.  A connection that breaks between the two looks at *)
(* it is replaced while the thread still counts itself as subscribed.      *)
SubscribedBeforeSnapshot == spc = "load" /\ conn = "up" => attached

(* engine.cpp:829: an upstream that is down is reconnected to.  One failed *)
(* attempt, or a break between the inner loop and the poll, is for ever.   *)
Reconnects == conn = "down" ~> conn = "up" \/ stop

(* README.md:156: after each close the line "inline with node" appears.    *)
(* It does when messages left over from a broken connection were replayed, *)
(* or a transaction's metadata did not parse, and earlier ledgers are      *)
(* incomplete.                                                             *)
InlineIsComplete ==
  inline /\ InService => \A i \in Txs : Log[i].seq < currentSeq => ~Missing(i)

(* README.md:12: the wire JSON matches the node's ledger identity.  The    *)
(* identity reported for a view is its own ledger, or the parent when it   *)
(* is open (session.cpp, setClosedLedgerIdentity).                         *)
ReportedSeq(v) == IF v.open THEN v.seq - 1 ELSE v.seq

IdentityNeverBack ==
  [][published # NoView /\ published' # NoView
       => ReportedSeq(published') >= ReportedSeq(published)]_published
=============================================================================
