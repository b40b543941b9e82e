--------------------------- MODULE EngineSyncProofs ---------------------------
(***************************************************************************)
(* Proofs about EngineSync for every log, queue limit, batch size and      *)
(* number of faults: its types, that the apply thread and a snapshot load  *)
(* exclude each other and wait for each other no longer than they must,    *)
(* that a ready engine holds its snapshot and serves a whole view from the *)
(* first close on, that one that is not ready is told to load, and that no *)
(* transaction is lost silently.                                           *)
(***************************************************************************)
EXTENDS EngineSync, SharedLemmas, FiniteSetTheorems

(* What the log contributes to the types. *)
LEMMA LogType ==
  /\ Len(Log) \in Nat
  /\ Positions \subseteq Nat \ {0}
  /\ \A i \in Positions : /\ Log[i] \in [seq : Nat \ {0}, obj : Obj \cup {Closed}]
                          /\ Log[i].seq \in Nat \ {0}
                          /\ i \in Txs => Log[i].obj \in Obj
<1>1. Log \in Seq([seq : Nat \ {0}, obj : Obj \cup {Closed}])
  BY EngineAssumption DEF WellFormedLog
<1>2. \A i \in Positions : Log[i] \in [seq : Nat \ {0}, obj : Obj \cup {Closed}]
  BY <1>1, LenProperties DEF Positions
<1>. QED  BY <1>1, <1>2, LenProperties DEF Positions, Txs

(* A ledger has finitely many transactions. *)
LEMMA TxCountType == ASSUME NEW s PROVE TxCount(s) \in Nat
<1>1. Len(Log) \in Nat
  BY LogType
<1>2. IsFiniteSet(1 .. Len(Log))
  BY <1>1, FS_Interval
<1>3. IsFiniteSet({i \in Txs : Log[i].seq = s})
  BY <1>2, FS_Subset DEF Txs, Positions
<1>. QED  BY <1>3, FS_CardinalityType DEF TxCount

(* A batch and the rest of the queue are sequences of positions again. *)
LEMMA TakeType ==
  ASSUME NEW q \in Seq(Positions), NEW n \in 1 .. Len(q)
  PROVE  /\ SubSeq(q, 1, n) \in Seq(Positions)
         /\ SubSeq(q, 1, n) # << >>
         /\ SubSeq(q, n + 1, Len(q)) \in Seq(Positions)
         /\ Len(SubSeq(q, n + 1, Len(q))) <= Len(q)
<1>1. Len(q) \in Nat /\ n \in Nat
  BY LenProperties
<1>2. /\ SubSeq(q, 1, n) \in Seq(Positions)
      /\ Len(SubSeq(q, 1, n)) = n
  BY <1>1, SubSeqProperties
<1>3. /\ SubSeq(q, n + 1, Len(q)) \in Seq(Positions)
      /\ Len(SubSeq(q, n + 1, Len(q))) <= Len(q)
  BY <1>1, SubSeqProperties
<1>. QED  BY <1>1, <1>2, <1>3, EmptySeq

(* Enqueueing leaves the queue at most one over its limit. *)
LEMMA EnqueueType ==
  ASSUME TypeOK, NEW i \in Positions, EnqueueApply(i)
  PROVE  /\ applyQueue' \in Seq(Positions) /\ Len(applyQueue') <= QueueCap + 1
         /\ ready' \in BOOLEAN /\ needResync' \in BOOLEAN
<1>1. /\ applyQueue \in Seq(Positions) /\ Len(applyQueue) \in Nat
      /\ QueueCap \in Nat
      /\ ready \in BOOLEAN /\ needResync \in BOOLEAN
  BY LenProperties, EngineAssumption DEF TypeOK
<1>2. CASE Len(applyQueue) > QueueCap
  <2>1. applyQueue' = << >> /\ ready' = FALSE /\ needResync' = TRUE
    BY <1>2 DEF EnqueueApply
  <2>2. << >> \in Seq(Positions) /\ Len(<< >>) = 0
    BY EmptySeq
  <2>3. Len(applyQueue') <= QueueCap + 1
    BY <1>1, <2>1, <2>2
  <2>. QED  BY <2>1, <2>2, <2>3
<1>3. CASE ~(Len(applyQueue) > QueueCap)
  <2>1. /\ applyQueue' = Append(applyQueue, i)
        /\ UNCHANGED <<ready, needResync>>
    BY <1>3 DEF EnqueueApply, EnqueueAppends
  <2>2. /\ Append(applyQueue, i) \in Seq(Positions)
        /\ Len(Append(applyQueue, i)) = Len(applyQueue) + 1
    BY <1>1, AppendProperties
  <2>. QED  BY <1>1, <1>3, <2>1, <2>2
<1>. QED  BY <1>2, <1>3

(* A fault counts up its own kind. *)
LEMMA FaultType ==
  ASSUME faults \in [FaultKind -> Nat], NEW k \in FaultKind, Fault(k)
  PROVE  faults' \in [FaultKind -> Nat]
BY DEF Fault

(* What an applied message changes stays within its type. *)
DataType ==
  /\ needResync \in BOOLEAN /\ dirty \in BOOLEAN
  /\ applyTxs \in Nat /\ applyNoMeta \in Nat /\ prevCloseTxs \in Nat
  /\ inline \in BOOLEAN
  /\ builder \in [Obj -> Positions \cup {0}] /\ open \in BOOLEAN
  /\ currentSeq \in Nat /\ published \in View
  /\ faults \in [FaultKind -> Nat]

(* What the apply thread takes from the queue does. *)
QueueType ==
  /\ applyQueue \in Seq(Positions) /\ Len(applyQueue) <= QueueCap + 1
  /\ batch \in Seq(Positions)
  /\ apc = "apply" => batch # << >>

(* The rest: what the threads, the node and the connection are at. *)
ControlType ==
  /\ pos \in Positions /\ conn \in {"down", "connecting", "up"}
  /\ attached \in BOOLEAN /\ ready \in BOOLEAN
  /\ stop \in BOOLEAN /\ applyIdle \in BOOLEAN
  /\ apc \in {"wait", "apply", "after", "tick", "store", "done"}
  /\ planTick \in BOOLEAN
  /\ spc \in SyncPcs /\ subscribed \in BOOLEAN /\ snapSeq \in Nat
  /\ skipped \subseteq Obj /\ loadView \in View /\ tickView \in View

LEMMA TypeParts == TypeOK <=> DataType /\ QueueType /\ ControlType
BY DEF TypeOK, DataType, QueueType, ControlType

LEMMA ViewType ==
  ASSUME NEW seq \in Nat, NEW o \in BOOLEAN
  PROVE  /\ [seq |-> seq, open |-> o, has |-> Present] \in View
         /\ NoView \in View
BY DEF View, Present, NoView

LEMMA ClosedType ==
  ASSUME DataType, ready \in BOOLEAN, NEW seq \in Nat, ApplyLedgerClosed(seq),
         faults' \in [FaultKind -> Nat]
  PROVE  DataType'
<1>1. CASE ~ready \/ IsOldClose(seq)
  BY <1>1 DEF ApplyLedgerClosed, statVars, dataVars, DataType
<1>2. CASE ~(~ready \/ IsOldClose(seq))
  <2>1. /\ needResync' \in BOOLEAN
        /\ open' = FALSE /\ currentSeq' = seq /\ dirty' = FALSE
        /\ published' = [seq |-> seq, open |-> FALSE, has |-> Present]
        /\ inline' = TxsMatchNode
        /\ prevCloseTxs' = TxCount(seq) /\ applyTxs' = 0 /\ applyNoMeta' = 0
        /\ builder' = builder
    BY <1>2 DEF ApplyLedgerClosed, GapFlagged, DataType
  <2>2. published' \in View
    BY <2>1, ViewType
  <2>3. prevCloseTxs' \in Nat
    BY <2>1, TxCountType
  <2>4. inline' \in BOOLEAN
    BY <2>1 DEF TxsMatchNode, DataType
  <2>. QED  BY <2>1, <2>2, <2>3, <2>4 DEF DataType
<1>. QED  BY <1>1, <1>2

LEMMA TransactionType ==
  ASSUME DataType, ready \in BOOLEAN, NEW i \in Positions, ApplyTransaction(i),
         UNCHANGED needResync
  PROVE  DataType'
<1>1. CASE ~ready \/ ~ShouldApplyStreamTx(Log[i].seq)
  BY <1>1 DEF ApplyTransaction, statVars, dataVars, DataType
<1>2. CASE ready /\ ShouldApplyStreamTx(Log[i].seq)
  <2>1. /\ open' = TRUE
        /\ UNCHANGED <<needResync, currentSeq, published, prevCloseTxs, inline>>
        /\ \/ /\ builder' = [builder EXCEPT ![Log[i].obj] = i]
              /\ dirty' = TRUE /\ applyTxs' = applyTxs + 1
              /\ UNCHANGED <<applyNoMeta, faults>>
           \/ /\ Fault("meta")
              /\ applyNoMeta' = applyNoMeta + 1
              /\ UNCHANGED <<builder, dirty, applyTxs>>
    BY <1>2 DEF ApplyTransaction
  <2>2. [builder EXCEPT ![Log[i].obj] = i] \in [Obj -> Positions \cup {0}]
    BY DEF DataType
  <2>3. faults' \in [FaultKind -> Nat]
    BY <2>1, FaultType DEF DataType, FaultKind
  <2>4. applyTxs' \in Nat /\ applyNoMeta' \in Nat
    BY <2>1 DEF DataType
  <2>5. dirty' \in BOOLEAN
    BY <2>1 DEF DataType
  <2>. QED  BY <2>1, <2>2, <2>3, <2>4, <2>5 DEF DataType
<1>. QED  BY <1>1, <1>2

-----------------------------------------------------------------------------
(* Types. *)

LEMMA InitType == Init => TypeOK
<1>. SUFFICES ASSUME Init PROVE TypeOK
  OBVIOUS
<1>1. << >> \in Seq(Positions) /\ Len(<< >>) = 0
  BY EmptySeq
<1>2. pos \in Positions /\ 0 <= QueueCap + 1
  BY EngineAssumption DEF Init, Positions
<1>3. published \in View /\ tickView \in View /\ loadView \in View
  BY DEF Init, NoView, View
<1>4. builder \in [Obj -> Positions \cup {0}] /\ faults \in [FaultKind -> Nat]
  BY DEF Init
<1>5. Len(applyQueue) <= QueueCap + 1
  BY <1>1, <1>2 DEF Init
<1>. QED  BY <1>1, <1>2, <1>3, <1>4, <1>5 DEF Init, TypeOK, SyncPcs

LEMMA NodeType == TypeOK /\ NodeNext => TypeOK'
<1>. SUFFICES ASSUME TypeOK, NodeNext PROVE TypeOK'
  OBVIOUS
<1>. USE DEF applyVars, statVars, syncVars, loadVars, dataVars, flagVars, queueVars
<1>1. CASE Publish
  <2>1. pos' \in Positions
    BY <1>1, EngineAssumption, LogType DEF Publish, Positions, TypeOK
  <2>2. /\ applyQueue' \in Seq(Positions) /\ Len(applyQueue') <= QueueCap + 1
        /\ ready' \in BOOLEAN /\ needResync' \in BOOLEAN
    <3>1. CASE attached
      BY <1>1, <2>1, <3>1, EnqueueType DEF Publish
    <3>2. CASE ~attached
      BY <1>1, <3>2 DEF Publish, TypeOK
    <3>. QED  BY <3>1, <3>2
  <2>. QED  BY <1>1, <2>1, <2>2 DEF Publish, TypeOK
<1>2. CASE SkipLedger
  <2>1. pos' \in Positions
    BY <1>2, LogType DEF SkipLedger, Positions, TypeOK
  <2>2. faults' \in [FaultKind -> Nat]
    BY <1>2, FaultType DEF SkipLedger, TypeOK, FaultKind
  <2>. QED  BY <1>2, <2>1, <2>2 DEF SkipLedger, TypeOK
<1>3. CASE Disconnect
  <2>1. faults' \in [FaultKind -> Nat]
    BY <1>3, FaultType DEF Disconnect, TypeOK, FaultKind
  <2>2. DataType'
    BY <1>3, <2>1, TypeParts DEF Disconnect, OnDisconnect, DataType
  <2>3. QueueType' /\ ControlType'
    BY <1>3, TypeParts DEF Disconnect, OnDisconnect, QueueType, ControlType
  <2>. QED  BY <2>2, <2>3
    DEF TypeOK, DataType, QueueType, ControlType
<1>4. CASE ConnectOk
  <2>1. DataType' /\ QueueType'
    BY <1>4, TypeParts DEF ConnectOk, DataType, QueueType
  <2>2. ControlType'
    BY <1>4, TypeParts DEF ConnectOk, ControlType
  <2>. QED  BY <2>1, <2>2
    DEF TypeOK, DataType, QueueType, ControlType
<1>5. CASE ConnectFail
  <2>1. faults' \in [FaultKind -> Nat]
    BY <1>5, FaultType DEF ConnectFail, TypeOK, FaultKind
  <2>2. DataType'
    BY <1>5, <2>1, TypeParts DEF ConnectFail, OnDisconnect, DataType
  <2>3. QueueType' /\ ControlType'
    BY <1>5, TypeParts DEF ConnectFail, OnDisconnect, QueueType, ControlType
  <2>. QED  BY <2>2, <2>3
    DEF TypeOK, DataType, QueueType, ControlType
<1>. QED  BY <1>1, <1>2, <1>3, <1>4, <1>5 DEF NodeNext

LEMMA ApplyType == TypeOK /\ ApplyNext => TypeOK'
<1>. SUFFICES ASSUME TypeOK, ApplyNext PROVE TypeOK'
  OBVIOUS
<1>. USE DEF nodeVars, flagVars, queueVars
<1>1. CASE ApplyExit
  BY <1>1 DEF ApplyExit, TypeOK, statVars, syncVars, loadVars, dataVars
<1>2. CASE ApplyTake
  <2>1. PICK n \in 1 .. Len(applyQueue) :
          /\ batch' = SubSeq(applyQueue, 1, n)
          /\ applyQueue' = SubSeq(applyQueue, n + 1, Len(applyQueue))
    <3>1. applyQueue \in Seq(Positions) /\ applyQueue # << >>
      BY <1>2 DEF ApplyTake, TypeOK
    <3>2. Len(applyQueue) \in Nat \ {0} /\ BatchMax \in Nat \ {0}
      BY <3>1, EmptySeq, EngineAssumption
    <3>3. CASE Len(applyQueue) < BatchMax
      BY <1>2, <3>2, <3>3 DEF ApplyTake
    <3>4. CASE ~(Len(applyQueue) < BatchMax)
      <4>1. BatchMax \in 1 .. Len(applyQueue)
        BY <3>2, <3>4
      <4>. QED  BY <1>2, <3>4, <4>1 DEF ApplyTake
    <3>. QED  BY <3>3, <3>4
  <2>2. /\ batch' \in Seq(Positions) /\ applyQueue' \in Seq(Positions)
        /\ batch' # << >> /\ Len(applyQueue') <= Len(applyQueue)
    BY <2>1, TakeType DEF TypeOK
  <2>3. Len(applyQueue') <= QueueCap + 1
    BY <2>2, LenProperties, EngineAssumption DEF TypeOK
  <2>4. QueueType'
    BY <2>2, <2>3 DEF QueueType
  <2>5. ControlType'
    BY <1>2, TypeParts DEF ApplyTake, ControlType, syncVars, loadVars
  <2>6. DataType'
    BY <1>2, TypeParts DEF ApplyTake, DataType, statVars, dataVars
  <2>. QED  BY <2>4, <2>5, <2>6
    DEF TypeOK, DataType, QueueType, ControlType
<1>3. CASE ApplyIdleCycle
  BY <1>3 DEF ApplyIdleCycle, TypeOK, statVars, syncVars, loadVars, dataVars
<1>4. CASE ApplyItem \/ ApplyThrow
  <2>1. /\ Head(batch) \in Positions /\ Log[Head(batch)].seq \in Nat
        /\ Tail(batch) \in Seq(Positions)
    BY <1>4, HeadTailProperties, LogType DEF ApplyItem, ApplyThrow, TypeOK
  <2>2. DataType'
    <3>1. DataType /\ ready \in BOOLEAN
      BY TypeParts DEF ControlType
    <3>2. CASE ApplyThrow
      <4>1. faults' \in [FaultKind -> Nat]
        BY <3>1, <3>2, FaultType DEF ApplyThrow, DataType, FaultKind
      <4>. QED  BY <2>1, <3>1, <3>2, <4>1, ClosedType DEF ApplyThrow
    <3>3. CASE ApplyItem /\ Log[Head(batch)].obj = Closed
      <4>1. ApplyLedgerClosed(Log[Head(batch)].seq) /\ faults' = faults
        BY <3>3 DEF ApplyItem
      <4>. QED  BY <2>1, <3>1, <4>1, ClosedType DEF DataType
    <3>4. CASE ApplyItem /\ Log[Head(batch)].obj # Closed
      <4>1. ApplyTransaction(Head(batch)) /\ UNCHANGED needResync
        BY <3>4 DEF ApplyItem
      <4>. QED  BY <2>1, <3>1, <4>1, TransactionType
    <3>. QED  BY <1>4, <3>2, <3>3, <3>4
  <2>3. /\ batch' \in Seq(Positions)
        /\ apc' = "apply" => batch' # << >>
        /\ apc' \in {"apply", "after"}
    <3>1. \/ batch' = << >> /\ apc' = "after"
          \/ /\ batch' = Tail(batch)
             /\ apc' = IF Tail(batch) = << >> THEN "after" ELSE "apply"
      BY <1>4 DEF ApplyItem, ApplyThrow
    <3>2. << >> \in Seq(Positions)
      BY EmptySeq
    <3>. QED  BY <2>1, <3>1, <3>2
  <2>4. QueueType'
    BY <1>4, <2>3, TypeParts DEF ApplyItem, ApplyThrow, QueueType
  <2>5. ControlType'
    BY <1>4, <2>3, TypeParts DEF ApplyItem, ApplyThrow, ControlType, syncVars, loadVars
  <2>. QED  BY <2>2, <2>4, <2>5
    DEF TypeOK, DataType, QueueType, ControlType
<1>5. CASE ApplyAfter
  <2>1. DataType'
    BY <1>5, TypeParts DEF ApplyAfter, DataType, statVars, dataVars
  <2>2. QueueType'
    BY <1>5, TypeParts DEF ApplyAfter, BackToWait, QueueType
  <2>3. ControlType'
    BY <1>5, TypeParts DEF ApplyAfter, BackToWait, ControlType, syncVars, loadVars
  <2>. QED  BY <2>1, <2>2, <2>3
    DEF TypeOK, DataType, QueueType, ControlType
<1>6. CASE MidCloseTick
  <2>1. BuilderView \in View
    BY ViewType DEF BuilderView, TypeOK
  <2>2. tickView' \in View /\ dirty' \in BOOLEAN
    BY <1>6, <2>1 DEF MidCloseTick, TypeOK
  <2>3. DataType'
    BY <1>6, <2>2, TypeParts DEF MidCloseTick, DataType, statVars
  <2>4. QueueType'
    BY <1>6, TypeParts DEF MidCloseTick, BackToWait, QueueType
  <2>5. ControlType'
    BY <1>6, <2>2, TypeParts DEF MidCloseTick, BackToWait, ControlType, syncVars, loadVars
  <2>. QED  BY <2>3, <2>4, <2>5
    DEF TypeOK, DataType, QueueType, ControlType
<1>7. CASE TickStores
  <2>1. published' \in View /\ tickView' \in View
    BY <1>7, ViewType DEF TickStores, TypeOK
  <2>2. DataType'
    BY <1>7, <2>1, TypeParts DEF TickStores, DataType, statVars
  <2>3. QueueType'
    BY <1>7, TypeParts DEF TickStores, BackToWait, QueueType
  <2>4. ControlType'
    BY <1>7, <2>1, TypeParts DEF TickStores, BackToWait, ControlType, syncVars, loadVars
  <2>. QED  BY <2>2, <2>3, <2>4
    DEF TypeOK, DataType, QueueType, ControlType
<1>. QED  BY <1>1, <1>2, <1>3, <1>4, <1>5, <1>6, <1>7 DEF ApplyNext

LEMMA SyncType == TypeOK /\ SyncNext => TypeOK'
<1>. SUFFICES ASSUME TypeOK, SyncNext PROVE TypeOK'
  OBVIOUS
<1>. USE DEF nodeVars, flagVars, queueVars, applyVars, statVars, loadVars,
             SyncGoes, SyncPcs
<1>1. CASE SyncStops
  BY <1>1 DEF SyncStops, TypeOK, dataVars
<1>2. CASE SyncConnected
  BY <1>2 DEF SyncConnected, TypeOK, dataVars
<1>3. CASE SyncIdle
  BY <1>3 DEF SyncIdle, TypeOK, dataVars
<1>4. CASE SyncSubscribe
  <2>1. faults' \in [FaultKind -> Nat]
    BY <1>4, FaultType DEF SyncSubscribe, TypeOK, FaultKind
  <2>2. DataType'
    BY <1>4, <2>1, TypeParts DEF SyncSubscribe, DataType, dataVars
  <2>3. QueueType' /\ ControlType'
    BY <1>4, TypeParts DEF SyncSubscribe, QueueType, ControlType
  <2>. QED  BY <2>2, <2>3
    DEF TypeOK, DataType, QueueType, ControlType
<1>5. CASE SyncReset
  <2>1. NoView \in View /\ [o \in Obj |-> 0] \in [Obj -> Positions \cup {0}]
    BY ViewType
  <2>2. DataType'
    BY <1>5, <2>1, TypeParts DEF SyncReset, DataType
  <2>3. QueueType' /\ ControlType'
    BY <1>5, TypeParts DEF SyncReset, QueueType, ControlType
  <2>. QED  BY <2>2, <2>3
    DEF TypeOK, DataType, QueueType, ControlType
<1>6. CASE SyncHeader
  <2>1. currentSeq' \in Nat /\ snapSeq' \in Nat
    BY <1>6, LogType DEF SyncHeader, TypeOK
  <2>2. faults' \in [FaultKind -> Nat]
    BY <1>6, FaultType DEF SyncHeader, TypeOK, FaultKind
  <2>3. DataType'
    BY <1>6, <2>1, <2>2, TypeParts DEF SyncHeader, DataType
  <2>4. QueueType' /\ ControlType'
    BY <1>6, <2>1, TypeParts DEF SyncHeader, QueueType, ControlType
  <2>. QED  BY <2>3, <2>4
    DEF TypeOK, DataType, QueueType, ControlType
<1>7. CASE SyncLoadPage
  <2>1. builder' \in [Obj -> Positions \cup {0}]
    BY <1>7 DEF SyncLoadPage, Txs, TypeOK
  <2>. QED  BY <1>7, <2>1 DEF SyncLoadPage, TypeOK
<1>8. CASE SyncPublish
  <2>1. loadView' \in View
    BY <1>8, ViewType DEF SyncPublish, BuilderView, TypeOK
  <2>2. DataType'
    BY <1>8, TypeParts DEF SyncPublish, DataType, dataVars
  <2>3. QueueType' /\ ControlType'
    BY <1>8, <2>1, TypeParts DEF SyncPublish, QueueType, ControlType
  <2>. QED  BY <2>2, <2>3
    DEF TypeOK, DataType, QueueType, ControlType
<1>9. CASE SyncClearResync
  <2>1. DataType'
    BY <1>9, TypeParts DEF SyncClearResync, DataType, dataVars
  <2>2. QueueType' /\ ControlType'
    BY <1>9, TypeParts DEF SyncClearResync, QueueType, ControlType
  <2>. QED  BY <2>1, <2>2
    DEF TypeOK, DataType, QueueType, ControlType
<1>10. CASE SyncReady
  BY <1>10 DEF SyncReady, TypeOK, dataVars
<1>11. CASE SyncFollow
  <2>1. DataType'
    BY <1>11, TypeParts DEF SyncFollow, DataType, ControlType, dataVars
  <2>2. QueueType'
    BY <1>11, TypeParts DEF SyncFollow, QueueType
  <2>3. ControlType'
    BY <1>11, TypeParts DEF SyncFollow, LeavesReady, ControlType
  <2>. QED  BY <2>1, <2>2, <2>3
    DEF TypeOK, DataType, QueueType, ControlType
<1>12. CASE SyncCheck
  <2>1. DataType'
    BY <1>12, TypeParts DEF SyncCheck, Reconnect, DataType, dataVars
  <2>2. QueueType' /\ ControlType'
    BY <1>12, TypeParts DEF SyncCheck, Reconnect, QueueType, ControlType
  <2>. QED  BY <2>1, <2>2
    DEF TypeOK, DataType, QueueType, ControlType
<1>13. CASE SyncThrow
  <2>1. faults' \in [FaultKind -> Nat]
    BY <1>13, FaultType DEF SyncThrow, TypeOK, FaultKind
  <2>2. DataType'
    BY <1>13, <2>1, TypeParts DEF SyncThrow, DataType, dataVars
  <2>3. QueueType' /\ ControlType'
    BY <1>13, TypeParts DEF SyncThrow, QueueType, ControlType
  <2>. QED  BY <2>2, <2>3
    DEF TypeOK, DataType, QueueType, ControlType
<1>14. CASE SyncRetry
  <2>1. DataType'
    BY <1>14, TypeParts DEF SyncRetry, Reconnect, DataType, dataVars
  <2>2. QueueType'
    BY <1>14, TypeParts DEF SyncRetry, QueueType
  <2>3. ControlType'
    BY <1>14, TypeParts DEF SyncRetry, Reconnect, ControlType
  <2>. QED  BY <2>1, <2>2, <2>3
    DEF TypeOK, DataType, QueueType, ControlType
<1>15. CASE SyncSkip
  <2>1. skipped' \subseteq Obj
    BY <1>15 DEF SyncSkip, Unloaded, Known, TypeOK
  <2>2. faults' \in [FaultKind -> Nat]
    BY <1>15, FaultType DEF SyncSkip, TypeOK, FaultKind
  <2>3. DataType'
    BY <1>15, <2>2, TypeParts DEF SyncSkip, DataType, dataVars
  <2>4. QueueType' /\ ControlType'
    BY <1>15, <2>1, TypeParts DEF SyncSkip, QueueType, ControlType
  <2>. QED  BY <2>3, <2>4
    DEF TypeOK, DataType, QueueType, ControlType
<1>16. CASE SyncStores
  <2>1. published' \in View /\ loadView' \in View
    BY <1>16, ViewType DEF SyncStores, TypeOK
  <2>2. DataType'
    BY <1>16, <2>1, TypeParts DEF SyncStores, DataType
  <2>3. QueueType' /\ ControlType'
    BY <1>16, <2>1, TypeParts DEF SyncStores, QueueType, ControlType
  <2>. QED  BY <2>2, <2>3
    DEF TypeOK, DataType, QueueType, ControlType
<1>. QED
  BY <1>1, <1>2, <1>3, <1>4, <1>5, <1>6, <1>7, <1>8, <1>9, <1>10, <1>11,
     <1>12, <1>13, <1>14, <1>15, <1>16 DEF SyncNext

(* Every variable stays within its type and the apply queue within one     *)
(* message over its limit, for every log, limit and number of faults.      *)
THEOREM TypeCorrect == Spec => []TypeOK
<1>1. TypeOK /\ [Next]_vars => TypeOK'
  <2>. SUFFICES ASSUME TypeOK, [Next]_vars PROVE TypeOK'
    OBVIOUS
  <2>. USE DEF nodeVars, flagVars, queueVars, applyVars, statVars, syncVars,
               loadVars, dataVars
  <2>1. CASE NodeNext
    BY <2>1, NodeType
  <2>2. CASE ApplyNext
    BY <2>2, ApplyType
  <2>3. CASE SyncNext
    BY <2>3, SyncType
  <2>4. CASE Stop
    BY <2>4 DEF Stop, TypeOK
  <2>5. CASE UNCHANGED vars
    BY <2>5 DEF vars, TypeOK
  <2>. QED  BY <2>1, <2>2, <2>3, <2>4, <2>5 DEF Next
<1>. QED  BY <1>1, InitType, PTL DEF Spec

-----------------------------------------------------------------------------
(* The apply thread and a snapshot load exclude each other. *)

(* LoadIsExclusive is not inductive: a batch is taken only while the       *)
(* engine is ready, which it is not during a load, and a load begins only  *)
(* when applyIdle_ is set, which it is not during a batch.                 *)
ExclusionInv ==
  /\ ready => spc \in {"follow", "done"}
  /\ apc = "apply" => ~applyIdle
  /\ LoadIsExclusive

LEMMA ExclusionStep ==
  TypeOK /\ ExclusionInv /\ [Next]_vars => ExclusionInv'
<1>. SUFFICES ASSUME TypeOK, ExclusionInv, [Next]_vars PROVE ExclusionInv'
  OBVIOUS
<1>. USE DEF ExclusionInv, LoadIsExclusive, nodeVars, flagVars, queueVars,
             applyVars, syncVars, loadVars
<1>1. CASE NodeNext
  <2>1. ready' => ready
    BY <1>1 DEF NodeNext, Publish, EnqueueApply, EnqueueAppends, SkipLedger,
                Disconnect, ConnectOk, ConnectFail, OnDisconnect
  <2>2. UNCHANGED <<applyIdle, apc, spc>>
    BY <1>1 DEF NodeNext, Publish, SkipLedger, Disconnect, ConnectOk, ConnectFail
  <2>. QED  BY <2>1, <2>2
<1>2. CASE ApplyExit \/ ApplyIdleCycle \/ ApplyAfter \/ MidCloseTick \/ TickStores
  BY <1>2 DEF ApplyExit, ApplyIdleCycle, ApplyAfter, MidCloseTick, TickStores,
              BackToWait
<1>3. CASE ApplyTake
  BY <1>3 DEF ApplyTake, Held
<1>4. CASE ApplyItem \/ ApplyThrow
  BY <1>4 DEF ApplyItem, ApplyThrow
<1>5. CASE SyncStops
  BY <1>5 DEF SyncStops, StopSeen
<1>6. CASE SyncIdle
  BY <1>6 DEF SyncIdle, SyncGoes, MaySnapshot
<1>7. CASE SyncConnected \/ SyncSubscribe \/ SyncReset \/ SyncHeader
             \/ SyncLoadPage \/ SyncSkip \/ SyncPublish \/ SyncStores
  BY <1>7 DEF SyncConnected, SyncSubscribe, SyncReset, SyncHeader,
              SyncLoadPage, SyncSkip, SyncPublish, SyncStores, SyncGoes
<1>8. CASE SyncClearResync \/ SyncReady \/ SyncFollow \/ SyncCheck
             \/ SyncThrow \/ SyncRetry
  BY <1>8 DEF SyncClearResync, SyncReady, SyncFollow, SyncCheck, SyncThrow,
              SyncRetry, SyncGoes, LeavesReady
<1>9. CASE Stop \/ UNCHANGED vars
  BY <1>9 DEF Stop, vars
<1>. QED
  BY <1>1, <1>2, <1>3, <1>4, <1>5, <1>6, <1>7, <1>8, <1>9
  DEF Next, ApplyNext, SyncNext

(* The apply thread is never in the middle of a batch while the sync       *)
(* thread clears and reloads the builder, and whenever applyIdle_ is clear *)
(* it is in a cycle at whose end it sets it.                               *)
THEOREM LoadsAreExclusive == Spec => []LoadIsExclusive
<1>1. Init => ExclusionInv
  BY DEF Init, ExclusionInv, LoadIsExclusive
<1>2. ExclusionInv => LoadIsExclusive
  BY DEF ExclusionInv
<1>. QED  BY <1>1, <1>2, ExclusionStep, TypeCorrect, PTL DEF Spec

-----------------------------------------------------------------------------
(* A ready engine holds its snapshot. *)

(* From its last page on the builder holds the snapshot, and once a close  *)
(* has been applied over it the served view does, with any view a tick has *)
(* taken and not stored: the builder only grows while the engine is ready. *)
AtSnapshot == spc \in {"load", "store", "clearResync", "setReady"}
SnapshotHeld == snapSeq # 0 /\ HoldsSnapshot(Present)

ReadyPlace == ready => spc \in {"follow", "done"}
LedgerOfSnapshot ==
  /\ AtSnapshot => currentSeq = snapSeq
  /\ ready => currentSeq >= snapSeq
HeldOnce ==
  ready \/ spc \in {"store", "clearResync", "setReady"} => SnapshotHeld
SomeView ==
  /\ spc = "store" => loadView # NoView
  /\ apc = "store" => tickView # NoView
  /\ ready \/ spc \in {"clearResync", "setReady"} => published # NoView
WholeView ==
  ready /\ currentSeq # snapSeq =>
    HoldsSnapshot(published.has) /\ (apc = "store" => HoldsSnapshot(tickView.has))

ServedInv ==
  ReadyPlace /\ LedgerOfSnapshot /\ HeldOnce /\ SomeView /\ WholeView

(* Most steps keep the ledgers and the views and set ready_ never.         *)
LEMMA ServedFrame ==
  ASSUME ServedInv, ready' => ready,
         UNCHANGED <<snapSeq, skipped, builder, published, currentSeq, loadView,
                     tickView>>,
         apc' = "store" => apc = "store",
         AtSnapshot' => spc' = spc,
         spc' = spc \/ ~ready' \/ spc' = "done"
  PROVE  ServedInv'
<1>1. Known(snapSeq)' = Known(snapSeq) /\ Present' = Present
  BY DEF Known, Writers, Present
<1>2. ReadyPlace' /\ LedgerOfSnapshot'
  BY DEF ServedInv, ReadyPlace, LedgerOfSnapshot, AtSnapshot
<1>3. HeldOnce'
  BY <1>1 DEF ServedInv, HeldOnce, SnapshotHeld, HoldsSnapshot, AtSnapshot
<1>4. SomeView'
  BY DEF ServedInv, SomeView, AtSnapshot, NoView
<1>5. WholeView'
  BY <1>1 DEF ServedInv, WholeView, HoldsSnapshot
<1>. QED  BY <1>2, <1>3, <1>4, <1>5 DEF ServedInv

(* A message applied while the engine is ready: a close serves all that    *)
(* the builder has, and a transaction takes nothing from it.               *)
LEMMA ItemKeepsSnapshot ==
  ASSUME TypeOK, ServedInv, ready, ApplyItem \/ ApplyThrow
  PROVE  ServedInv'
<1>. USE DEF nodeVars, flagVars, queueVars, applyVars, syncVars, loadVars
<1>1. Head(batch) \in Positions
  BY HeadTailProperties DEF ApplyItem, ApplyThrow, TypeOK
<1>. DEFINE seq == Log[Head(batch)].seq
<1>2. seq \in Nat \ {0} /\ Head(batch) # 0
  BY <1>1, LogType
<1>3. /\ UNCHANGED <<ready, spc, snapSeq, skipped, loadView, tickView>>
      /\ apc' # "store"
      /\ Known(snapSeq)' = Known(snapSeq)
  BY DEF ApplyItem, ApplyThrow, Known, Writers
<1>4. currentSeq \in Nat /\ snapSeq \in Nat /\ currentSeq >= snapSeq
  BY DEF TypeOK, ServedInv, LedgerOfSnapshot
<1>5. spc \in {"follow", "done"} /\ HoldsSnapshot(Present) /\ snapSeq # 0
  BY DEF ServedInv, ReadyPlace, HeldOnce, SnapshotHeld
<1>6. CASE ApplyLedgerClosed(seq)
  <2>1. CASE IsOldClose(seq)
    <3>1. UNCHANGED <<builder, published, currentSeq>>
      BY <1>6, <2>1 DEF ApplyLedgerClosed, dataVars
    <3>. QED  BY <1>3, <1>5, <3>1, ServedFrame DEF AtSnapshot
  <2>2. CASE ~IsOldClose(seq)
    <3>1. /\ currentSeq' = seq /\ builder' = builder
          /\ published' = [seq |-> seq, open |-> FALSE, has |-> Present]
      BY <1>6, <2>2 DEF ApplyLedgerClosed
    <3>2. currentSeq' >= snapSeq
      BY <1>2, <1>4, <2>2, <3>1 DEF IsOldClose
    <3>3. HoldsSnapshot(Present)' /\ HoldsSnapshot(published.has)'
      BY <1>3, <1>5, <3>1 DEF HoldsSnapshot, Present
    <3>4. published' # NoView
      BY <1>2, <3>1 DEF NoView
    <3>. QED
      BY <1>3, <1>5, <3>2, <3>3, <3>4
      DEF ServedInv, ReadyPlace, LedgerOfSnapshot, HeldOnce, SomeView,
          WholeView, SnapshotHeld, AtSnapshot
  <2>. QED  BY <2>1, <2>2
<1>7. CASE ApplyTransaction(Head(batch))
  <2>1. UNCHANGED <<currentSeq, published>>
    BY <1>7 DEF ApplyTransaction, dataVars
  <2>2. \/ builder' = builder
        \/ builder' = [builder EXCEPT ![Log[Head(batch)].obj] = Head(batch)]
    BY <1>7 DEF ApplyTransaction, dataVars
  <2>3. Present \subseteq Present'
    BY <1>2, <2>2 DEF Present, TypeOK
  <2>4. HoldsSnapshot(Present)'
    BY <1>3, <1>5, <2>3 DEF HoldsSnapshot
  <2>5. WholeView'
    BY <1>3, <2>1 DEF ServedInv, WholeView, HoldsSnapshot
  <2>. QED
    BY <1>3, <1>4, <1>5, <2>1, <2>4, <2>5
    DEF ServedInv, ReadyPlace, LedgerOfSnapshot, HeldOnce, SomeView,
        SnapshotHeld, AtSnapshot, NoView
<1>. QED  BY <1>6, <1>7 DEF ApplyItem, ApplyThrow

(* The apply thread takes its view and stores it.                          *)
LEMMA TickKeepsSnapshot ==
  ASSUME TypeOK, ServedInv, MidCloseTick \/ TickStores
  PROVE  ServedInv'
<1>. USE DEF flagVars, syncVars, loadVars
<1>1. /\ UNCHANGED <<ready, spc, snapSeq, skipped, loadView, builder, currentSeq>>
      /\ Known(snapSeq)' = Known(snapSeq) /\ Present' = Present
  BY DEF MidCloseTick, TickStores, Known, Writers, Present
<1>2. ReadyPlace' /\ LedgerOfSnapshot' /\ HeldOnce'
  BY <1>1 DEF ServedInv, ReadyPlace, LedgerOfSnapshot, HeldOnce, SnapshotHeld,
              HoldsSnapshot, AtSnapshot
<1>3. CASE MidCloseTick
  <2>1. /\ published' = published
        /\ apc' = "store" => tickView' = BuilderView
    BY <1>3 DEF MidCloseTick, BackToWait
  <2>2. BuilderView # NoView
    BY DEF BuilderView, NoView, TypeOK
  <2>3. BuilderView.has = Present
    BY DEF BuilderView
  <2>4. SomeView'
    BY <1>1, <2>1, <2>2 DEF ServedInv, SomeView, NoView
  <2>5. ready => HoldsSnapshot(Present)
    BY DEF ServedInv, HeldOnce, SnapshotHeld
  <2>6. WholeView'
    BY <1>1, <2>1, <2>3, <2>5 DEF ServedInv, WholeView, HoldsSnapshot
  <2>. QED  BY <1>2, <2>4, <2>6 DEF ServedInv
<1>4. CASE TickStores
  <2>1. apc = "store" /\ apc' = "wait" /\ published' = tickView
    BY <1>4 DEF TickStores, BackToWait
  <2>2. SomeView'
    BY <1>1, <2>1 DEF ServedInv, SomeView, NoView
  <2>3. WholeView'
    BY <1>1, <2>1 DEF ServedInv, WholeView, HoldsSnapshot
  <2>. QED  BY <1>2, <2>2, <2>3 DEF ServedInv
<1>. QED  BY <1>3, <1>4

(* The sync thread loads, takes its view, stores it and sets ready_.       *)
LEMMA LoadKeepsSnapshot ==
  ASSUME TypeOK, ServedInv,
         \/ SyncReset \/ SyncHeader \/ SyncLoadPage \/ SyncSkip \/ SyncPublish
         \/ SyncStores \/ SyncClearResync \/ SyncReady
  PROVE  ServedInv'
<1>. USE DEF flagVars, applyVars, syncVars, loadVars, SyncGoes
<1>1. ~ready /\ UNCHANGED <<apc, tickView>>
  BY DEF ServedInv, ReadyPlace, SyncReset, SyncHeader, SyncLoadPage, SyncSkip,
         SyncPublish, SyncStores, SyncClearResync, SyncReady
<1>2. CASE SyncReset \/ SyncHeader \/ SyncLoadPage \/ SyncSkip
  <2>1. ~ready' /\ spc' \in {"header", "load"}
    BY <1>1, <1>2 DEF SyncReset, SyncHeader, SyncLoadPage, SyncSkip
  <2>2. spc' = "load" => currentSeq' = snapSeq'
    BY <1>2 DEF SyncReset, SyncHeader, SyncLoadPage, SyncSkip, ServedInv,
                LedgerOfSnapshot, AtSnapshot, dataVars
  <2>. QED
    BY <1>1, <2>1, <2>2
    DEF ServedInv, ReadyPlace, LedgerOfSnapshot, HeldOnce, SomeView, WholeView,
        AtSnapshot, NoView
<1>3. CASE SyncPublish
  <2>1. /\ spc = "load" /\ spc' = "store" /\ LastPage /\ loadView' = BuilderView
        /\ UNCHANGED <<ready, snapSeq, skipped, builder, currentSeq>>
        /\ Known(snapSeq)' = Known(snapSeq) /\ Present' = Present
    BY <1>3 DEF SyncPublish, dataVars, Known, Writers, Present
  <2>2. BuilderView # NoView
    BY DEF BuilderView, NoView, TypeOK
  <2>3. SnapshotHeld'
    BY <2>1 DEF SnapshotHeld, HoldsSnapshot, LastPage, Unloaded
  <2>. QED
    BY <1>1, <2>1, <2>2, <2>3
    DEF ServedInv, ReadyPlace, LedgerOfSnapshot, HeldOnce, SomeView, WholeView,
        AtSnapshot, NoView
<1>4. CASE SyncStores \/ SyncClearResync \/ SyncReady
  <2>1. /\ UNCHANGED <<snapSeq, skipped, builder, currentSeq>>
        /\ Known(snapSeq)' = Known(snapSeq) /\ Present' = Present
    BY <1>4 DEF SyncStores, SyncClearResync, SyncReady, dataVars, Known, Writers,
                Present
  <2>2. \/ spc = "store" /\ spc' = "clearResync" /\ published' = loadView
        \/ spc = "clearResync" /\ spc' = "setReady" /\ published' = published
        \/ spc = "setReady" /\ spc' = "follow" /\ published' = published
    BY <1>4 DEF SyncStores, SyncClearResync, SyncReady, dataVars
  <2>3. spc' # "follow" => ~ready'
    BY <1>1, <1>4 DEF SyncStores, SyncClearResync, SyncReady
  <2>4. SnapshotHeld' /\ currentSeq' = snapSeq' /\ published' # NoView
    BY <2>1, <2>2 DEF ServedInv, HeldOnce, SnapshotHeld, HoldsSnapshot, SomeView,
                      LedgerOfSnapshot, AtSnapshot, NoView
  <2>5. currentSeq' >= snapSeq'
    BY <2>1, <2>4 DEF TypeOK
  <2>. QED
    BY <1>1, <2>2, <2>3, <2>4, <2>5
    DEF ServedInv, ReadyPlace, LedgerOfSnapshot, HeldOnce, SomeView, WholeView,
        AtSnapshot, NoView
<1>. QED  BY <1>2, <1>3, <1>4

LEMMA ServedStep == TypeOK /\ ServedInv /\ [Next]_vars => ServedInv'
<1>. SUFFICES ASSUME TypeOK, ServedInv, [Next]_vars PROVE ServedInv'
  OBVIOUS
<1>. USE DEF nodeVars, flagVars, queueVars, applyVars, syncVars, loadVars
<1>1. CASE NodeNext
  <2>1. ready' => ready
    BY <1>1 DEF NodeNext, Publish, EnqueueApply, EnqueueAppends, SkipLedger,
                Disconnect, ConnectOk, ConnectFail, OnDisconnect
  <2>2. UNCHANGED <<apc, tickView, spc, snapSeq, skipped, loadView, builder,
                    published, currentSeq>>
    BY <1>1 DEF NodeNext, Publish, SkipLedger, Disconnect, ConnectOk,
                ConnectFail, dataVars
  <2>. QED  BY <2>1, <2>2, ServedFrame DEF AtSnapshot
<1>2. CASE ApplyExit \/ ApplyIdleCycle \/ ApplyAfter \/ ApplyTake
  <2>1. /\ UNCHANGED <<ready, tickView, spc, snapSeq, skipped, loadView, builder,
                       published, currentSeq>>
        /\ apc' # "store"
    BY <1>2 DEF ApplyExit, ApplyIdleCycle, ApplyAfter, ApplyTake, BackToWait,
                dataVars
  <2>. QED  BY <2>1, ServedFrame DEF AtSnapshot
<1>3. CASE ApplyItem \/ ApplyThrow
  <2>1. CASE ready
    BY <1>3, <2>1, ItemKeepsSnapshot
  <2>2. CASE ~ready
    <3>1. /\ UNCHANGED <<ready, tickView, spc, snapSeq, skipped, loadView,
                         builder, published, currentSeq>>
          /\ apc' # "store"
      BY <1>3, <2>2 DEF ApplyItem, ApplyThrow, ApplyLedgerClosed,
                        ApplyTransaction, dataVars
    <3>. QED  BY <3>1, ServedFrame DEF AtSnapshot
  <2>. QED  BY <2>1, <2>2
<1>4. CASE MidCloseTick \/ TickStores
  BY <1>4, TickKeepsSnapshot
<1>5. CASE \/ SyncReset \/ SyncHeader \/ SyncLoadPage \/ SyncSkip \/ SyncPublish
           \/ SyncStores \/ SyncClearResync \/ SyncReady
  BY <1>5, LoadKeepsSnapshot
<1>6. CASE SyncStops \/ SyncConnected \/ SyncIdle \/ SyncSubscribe \/ SyncFollow
             \/ SyncCheck \/ SyncThrow \/ SyncRetry
  <2>1. UNCHANGED <<apc, tickView, snapSeq, skipped, loadView, builder, published,
                    currentSeq>>
    BY <1>6 DEF SyncStops, SyncConnected, SyncIdle, SyncSubscribe, SyncFollow,
                SyncCheck, SyncThrow, SyncRetry, dataVars
  <2>2. /\ ready' => ready
        /\ spc' = "done" \/ ~ready'
        /\ spc' \in {"waitIdle", "reset", "subscribe", "check", "waitConn",
                     "failed", "done"}
    BY <1>6 DEF SyncStops, SyncConnected, SyncIdle, SyncSubscribe, SyncFollow,
                SyncCheck, SyncThrow, SyncRetry, SyncGoes, LeavesReady,
                ServedInv, ReadyPlace
  <2>. QED  BY <2>1, <2>2, ServedFrame DEF AtSnapshot
<1>7. CASE Stop \/ UNCHANGED vars
  <2>1. UNCHANGED <<ready, apc, tickView, spc, snapSeq, skipped, loadView,
                    builder, published, currentSeq>>
    BY <1>7 DEF Stop, vars, dataVars
  <2>. QED  BY <2>1, ServedFrame DEF AtSnapshot
<1>. QED
  BY <1>1, <1>2, <1>3, <1>4, <1>5, <1>6, <1>7 DEF Next, ApplyNext, SyncNext

(* ready_ is only cleared together with a request for another snapshot, or *)
(* by the sync thread as it stops following; the request is only withdrawn *)
(* before the sync thread sets ready_.                                     *)
ReasonInv == spc = "follow" => ready \/ needResync

LEMMA ReasonStep == TypeOK /\ ReasonInv /\ [Next]_vars => ReasonInv'
<1>. SUFFICES ASSUME TypeOK, ReasonInv, [Next]_vars PROVE ReasonInv'
  OBVIOUS
<1>. USE DEF ReasonInv, nodeVars, flagVars, queueVars, applyVars, syncVars, loadVars
<1>1. CASE NodeNext
  <2>1. UNCHANGED spc
    BY <1>1 DEF NodeNext, Publish, SkipLedger, Disconnect, ConnectOk, ConnectFail
  <2>2. needResync' \/ UNCHANGED <<ready, needResync>>
    BY <1>1 DEF NodeNext, Publish, EnqueueApply, EnqueueAppends, SkipLedger,
                Disconnect, ConnectOk, ConnectFail, OnDisconnect
  <2>. QED  BY <2>1, <2>2
<1>2. CASE ApplyExit \/ ApplyIdleCycle \/ ApplyAfter \/ ApplyTake \/ MidCloseTick
             \/ TickStores
  BY <1>2 DEF ApplyExit, ApplyIdleCycle, ApplyAfter, ApplyTake, MidCloseTick,
              TickStores
<1>3. CASE ApplyItem \/ ApplyThrow
  <2>1. UNCHANGED <<ready, spc>>
    BY <1>3 DEF ApplyItem, ApplyThrow
  <2>2. needResync => needResync'
    BY <1>3 DEF ApplyItem, ApplyThrow, ApplyLedgerClosed
  <2>. QED  BY <2>1, <2>2
<1>4. CASE SyncNext
  <2>1. spc' = "follow" => ready'
    BY <1>4 DEF SyncNext, SyncGoes, SyncStops, SyncConnected, SyncIdle,
      SyncSubscribe, SyncReset, SyncHeader, SyncLoadPage, SyncSkip, SyncPublish,
      SyncStores, SyncClearResync, SyncReady, SyncFollow, SyncCheck, SyncThrow,
      SyncRetry
  <2>. QED  BY <2>1
<1>5. CASE Stop \/ UNCHANGED vars
  BY <1>5 DEF Stop, vars
<1>. QED  BY <1>1, <1>2, <1>3, <1>4, <1>5 DEF Next, ApplyNext

(* Whenever the engine says it is ready, it serves a view and its builder  *)
(* holds every object of the snapshot that was not refused; the view is    *)
(* whole from the first close on, however late a tick stores one it took   *)
(* during the load; and while the sync thread follows, the engine is ready *)
(* or is to load another snapshot.                                         *)
THEOREM ReadyHoldsSnapshot == Spec => []ServedViewComplete
<1>1. Init => ServedInv /\ ReasonInv
  BY DEF Init, ServedInv, ReadyPlace, LedgerOfSnapshot, HeldOnce, SomeView,
         WholeView, AtSnapshot, ReasonInv
<1>2. ServedInv /\ ReasonInv => ServedViewComplete
  BY DEF ServedInv, HeldOnce, SomeView, WholeView, SnapshotHeld, ReasonInv,
         ServedViewComplete
<1>. QED  BY <1>1, <1>2, ServedStep, ReasonStep, TypeCorrect, PTL DEF Spec

-----------------------------------------------------------------------------
(* The log and the queue as sequences. *)

(* The ledgers of the log never go back, and a close begins a new one.     *)
LEMMA LogRises ==
  \A i, j \in Positions : i < j =>
    /\ Log[i].seq <= Log[j].seq
    /\ Log[j].obj = Closed => Log[i].seq < Log[j].seq
<1>. SUFFICES ASSUME NEW i \in Positions
              PROVE  \A j \in Positions : i < j =>
                       /\ Log[i].seq <= Log[j].seq
                       /\ Log[j].obj = Closed => Log[i].seq < Log[j].seq
  OBVIOUS
<1>1. /\ Len(Log) \in Nat
      /\ \A j \in Positions : j \in Nat \ {0} /\ Log[j].seq \in Nat
  BY LogType
<1>2. \A j \in Positions : j > 1 =>
        /\ j - 1 \in Positions
        /\ Log[j].seq = IF Log[j].obj = Closed THEN Log[j - 1].seq + 1
                        ELSE Log[j - 1].seq
  <2>. SUFFICES ASSUME NEW j \in Positions, j > 1
                PROVE  /\ j - 1 \in Positions
                       /\ Log[j].seq = IF Log[j].obj = Closed
                                       THEN Log[j - 1].seq + 1
                                       ELSE Log[j - 1].seq
    OBVIOUS
  <2>1. PICK k \in 1 .. Len(Log) - 1 : j - 1 = k /\ j = k + 1
    BY <1>1 DEF Positions
  <2>2. Log[k + 1].seq = IF Log[k + 1].obj = Closed THEN Log[k].seq + 1
                         ELSE Log[k].seq
    BY EngineAssumption DEF WellFormedLog
  <2>3. k \in Positions
    BY <1>1 DEF Positions
  <2>. QED  BY <2>1, <2>2, <2>3
<1>. DEFINE T == {j \in Positions : i < j /\ ~(Log[i].seq <= Log[j].seq)}
<1>3. T = {}
  <2>. SUFFICES ASSUME T # {} PROVE FALSE
    OBVIOUS
  <2>1. PICK j \in T : \A k \in T : j <= k
    <3>1. T \in SUBSET Nat
      BY <1>1
    <3>. QED  BY <3>1, LeastNumber
  <2>2. j - 1 \in Positions /\ Log[j - 1].seq <= Log[j].seq
    <3>1. j \in Positions /\ j > 1
      BY <1>1, <2>1
    <3>. QED  BY <1>1, <1>2, <3>1
  <2>3. j - 1 \notin T
    BY <1>1, <2>1, <2>2
  <2>. QED  BY <1>1, <2>1, <2>2, <2>3
<1>4. ASSUME NEW j \in Positions, i < j, Log[j].obj = Closed
      PROVE  Log[i].seq < Log[j].seq
  <2>1. j - 1 \in Positions /\ Log[j].seq = Log[j - 1].seq + 1
    BY <1>1, <1>2, <1>4
  <2>2. Log[i].seq <= Log[j - 1].seq
    BY <1>1, <1>3, <1>4, <2>1
  <2>. QED  BY <1>1, <2>1, <2>2
<1>. QED  BY <1>3, <1>4

(* What is in a queue after an append, behind its head, and in the parts   *)
(* that a batch splits it into; each stays in rising order.                *)
Rising(q) == \A i, j \in DOMAIN q : i < j => q[i] < q[j]

LEMMA AppendElements ==
  ASSUME NEW q \in Seq(Positions), NEW e \in Positions
  PROVE  /\ Elements(Append(q, e)) = Elements(q) \cup {e}
         /\ Rising(q) /\ (\A x \in Elements(q) : x < e) => Rising(Append(q, e))
<1>. DEFINE s == Append(q, e)
<1>1. /\ s \in Seq(Positions) /\ Len(s) = Len(q) + 1
      /\ \A i \in 1 .. Len(q) : s[i] = q[i]
      /\ s[Len(q) + 1] = e
  BY AppendProperties
<1>2. Len(q) \in Nat /\ DOMAIN q = 1 .. Len(q) /\ DOMAIN s = 1 .. Len(q) + 1
  BY <1>1, LenProperties
<1>. HIDE DEF s
<1>. QED  BY <1>1, <1>2 DEF Elements, Rising, s

LEMMA TailElements ==
  ASSUME NEW q \in Seq(Positions), q # << >>
  PROVE  /\ Elements(q) = {Head(q)} \cup Elements(Tail(q))
         /\ Rising(q) => /\ Rising(Tail(q))
                         /\ \A x \in Elements(Tail(q)) : Head(q) < x
<1>1. /\ Tail(q) \in Seq(Positions) /\ Len(Tail(q)) = Len(q) - 1
      /\ \A i \in 1 .. Len(Tail(q)) : Tail(q)[i] = q[i + 1]
  BY HeadTailProperties
<1>2. PICK s \in Seq(Positions) : s = Tail(q)
  BY <1>1
<1>3. PICK m \in Nat \ {0} : m = Len(q)
  BY EmptySeq
<1>4. /\ DOMAIN q = 1 .. m /\ DOMAIN s = 1 .. m - 1
      /\ \A i \in 1 .. m - 1 : s[i] = q[i + 1]
  BY <1>1, <1>2, <1>3, LenProperties
<1>5. Head(q) = q[1]
  OBVIOUS
<1>6. \A x \in Elements(q) : x = q[1] \/ x \in Elements(s)
  <2>. TAKE x \in Elements(q)
  <2>1. PICK i \in 1 .. m : x = q[i]
    BY <1>4 DEF Elements
  <2>2. CASE i # 1
    <3>1. i - 1 \in 1 .. m - 1 /\ s[i - 1] = q[(i - 1) + 1] /\ (i - 1) + 1 = i
      BY <1>4, <2>2
    <3>. QED  BY <1>4, <2>1, <3>1 DEF Elements
  <2>. QED  BY <2>1, <2>2
<1>7. \A x \in Elements(s) : \E i \in 1 .. m - 1 : x = q[i + 1]
  BY <1>4 DEF Elements
<1>8. q[1] \in Elements(q) /\ Elements(s) \subseteq Elements(q)
  <2>1. 1 \in 1 .. m /\ \A i \in 1 .. m - 1 : i + 1 \in 1 .. m
    OBVIOUS
  <2>2. \A i \in 1 .. m : q[i] \in Elements(q)
    BY <1>4 DEF Elements
  <2>. QED  BY <1>7, <2>1, <2>2
<1>9. ASSUME Rising(q) PROVE Rising(s) /\ \A x \in Elements(s) : q[1] < x
  <2>1. \A i, j \in 1 .. m : i < j => q[i] < q[j]
    BY <1>4, <1>9 DEF Rising
  <2>2. \A i \in 1 .. m - 1 : i + 1 \in 1 .. m /\ 1 \in 1 .. m /\ 1 < i + 1
    OBVIOUS
  <2>3. \A i \in 1 .. m - 1 : q[1] < q[i + 1]
    BY <2>1, <2>2
  <2>4. ASSUME NEW i \in 1 .. m - 1, NEW j \in 1 .. m - 1, i < j
        PROVE  s[i] < s[j]
    BY <1>4, <2>1, <2>2, <2>4
  <2>. QED  BY <1>4, <1>7, <2>3, <2>4 DEF Rising
<1>. QED  BY <1>2, <1>5, <1>6, <1>8, <1>9

LEMMA SplitElements ==
  ASSUME NEW q \in Seq(Positions), NEW n \in 1 .. Len(q)
  PROVE  /\ Elements(q) = Elements(SubSeq(q, 1, n))
                            \cup Elements(SubSeq(q, n + 1, Len(q)))
         /\ Rising(q) => /\ Rising(SubSeq(q, 1, n))
                         /\ Rising(SubSeq(q, n + 1, Len(q)))
                         /\ \A x \in Elements(SubSeq(q, 1, n)),
                               y \in Elements(SubSeq(q, n + 1, Len(q))) : x < y
<1>. DEFINE b == SubSeq(q, 1, n)
            r == SubSeq(q, n + 1, Len(q))
<1>1. PICK m \in Nat : m = Len(q) /\ DOMAIN q = 1 .. m
  BY LenProperties
<1>2. \A i \in 1 .. m : q[i] \in Positions
  BY <1>1, ElementOfSeq
<1>3. DOMAIN b = 1 .. n /\ \A i \in 1 .. n : b[i] = q[i]
  <2>1. n \in Int /\ \A i \in 1 .. n : q[i] \in Positions
    BY <1>1, <1>2
  <2>2. /\ b \in Seq(Positions) /\ Len(b) = n
        /\ \A i \in 1 .. n - 1 + 1 : b[i] = q[1 + i - 1]
    BY <1>1, <2>1, SubSeqProperties
  <2>. QED  BY <1>1, <2>2, LenProperties
<1>4. DOMAIN r = 1 .. m - n /\ \A i \in 1 .. m - n : r[i] = q[n + i]
  <2>1. n + 1 \in Int /\ m \in Int /\ \A i \in n + 1 .. m : q[i] \in Positions
    BY <1>1, <1>2
  <2>2. /\ r \in Seq(Positions)
        /\ Len(r) = IF n + 1 <= m THEN m - (n + 1) + 1 ELSE 0
        /\ \A i \in 1 .. m - (n + 1) + 1 : r[i] = q[n + 1 + i - 1]
    BY <1>1, <2>1, SubSeqProperties
  <2>3. Len(r) = m - n /\ m - (n + 1) + 1 = m - n
    BY <1>1, <2>2
  <2>4. \A i \in 1 .. m - n : n + 1 + i - 1 = n + i
    BY <1>1
  <2>. QED  BY <1>1, <2>2, <2>3, <2>4, LenProperties
<1>. HIDE DEF b, r
<1>5. \A x \in Elements(q) : x \in Elements(b) \/ x \in Elements(r)
  <2>. TAKE x \in Elements(q)
  <2>1. PICK i \in 1 .. m : x = q[i]
    BY <1>1 DEF Elements
  <2>2. CASE i <= n
    <3>1. i \in 1 .. n /\ b[i] = q[i]
      BY <1>1, <1>3, <2>2
    <3>. QED  BY <1>3, <2>1, <3>1 DEF Elements
  <2>3. CASE ~(i <= n)
    <3>1. i - n \in 1 .. m - n /\ n + (i - n) = i
      BY <1>1, <2>3
    <3>2. r[i - n] = q[i]
      BY <1>4, <3>1
    <3>. QED  BY <1>4, <2>1, <3>1, <3>2 DEF Elements
  <2>. QED  BY <2>2, <2>3
<1>6. Elements(b) \subseteq Elements(q) /\ Elements(r) \subseteq Elements(q)
  <2>1. /\ \A i \in 1 .. n : i \in 1 .. m
        /\ \A i \in 1 .. m - n : n + i \in 1 .. m
    BY <1>1
  <2>2. \A i \in 1 .. m : q[i] \in Elements(q)
    BY <1>1 DEF Elements
  <2>3. Elements(b) \subseteq Elements(q)
    BY <1>3, <2>1, <2>2 DEF Elements
  <2>4. Elements(r) \subseteq Elements(q)
    BY <1>4, <2>1, <2>2 DEF Elements
  <2>. QED  BY <2>3, <2>4
<1>7. ASSUME Rising(q)
      PROVE  /\ Rising(b) /\ Rising(r)
             /\ \A x \in Elements(b), y \in Elements(r) : x < y
  <2>1. \A i, j \in 1 .. m : i < j => q[i] < q[j]
    BY <1>1, <1>7 DEF Rising
  <2>2. /\ \A i \in 1 .. n : i \in 1 .. m
        /\ \A i \in 1 .. m - n : n + i \in 1 .. m
        /\ \A i, j \in 1 .. m - n : i < j => n + i < n + j
        /\ \A i \in 1 .. n, j \in 1 .. m - n : i < n + j
    BY <1>1
  <2>3. Rising(b)
    BY <1>3, <2>1, <2>2 DEF Rising
  <2>4. Rising(r)
    BY <1>4, <2>1, <2>2 DEF Rising
  <2>5. \A i \in 1 .. n, j \in 1 .. m - n : b[i] < r[j]
    BY <1>3, <1>4, <2>1, <2>2
  <2>6. ASSUME NEW x \in Elements(b), NEW y \in Elements(r) PROVE x < y
    <3>1. PICK i \in 1 .. n : x = b[i]
      BY <1>3 DEF Elements
    <3>2. PICK j \in 1 .. m - n : y = r[j]
      BY <1>4 DEF Elements
    <3>. QED  BY <2>5, <3>1, <3>2
  <2>. QED  BY <2>3, <2>4, <2>6
<1>. QED  BY <1>5, <1>6, <1>7 DEF b, r

-----------------------------------------------------------------------------
(* What is lost. *)

(* The messages of the batch and behind them those of the queue are        *)
(* published, in the order of the log, and there is a batch only while one *)
(* is applied.                                                             *)
Queued == Elements(batch) \cup Elements(applyQueue)

QueueInv ==
  /\ apc # "apply" => batch = << >>
  /\ Rising(batch) /\ Rising(applyQueue)
  /\ \A x \in Elements(batch), y \in Elements(applyQueue) : x < y
  /\ \A x \in Queued : x <= pos

LEMMA EmptyElements == Elements(<< >>) = {} /\ Rising(<< >>)
BY DEF Elements, Rising

LEMMA QueuedType ==
  ASSUME TypeOK
  PROVE  /\ Elements(batch) \subseteq Positions
         /\ Elements(applyQueue) \subseteq Positions
         /\ Queued \subseteq Positions
         /\ pos \in Positions
BY LenProperties, ElementOfSeq DEF TypeOK, Elements, Queued

(* A published message goes to the end of the queue, unless the queue is   *)
(* thrown away or the connection has no stream.                            *)
LEMMA PublishQueue ==
  ASSUME TypeOK, QueueInv, Publish
  PROVE  /\ QueueInv'
         /\ pos + 1 \in Positions /\ pos' = pos + 1
         /\ \/ attached /\ Queued' = Queued \cup {pos + 1} /\ UNCHANGED <<ready, needResync>>
            \/ attached /\ Queued' = Elements(batch) /\ ~ready' /\ needResync'
            \/ ~attached /\ Queued' = Queued /\ UNCHANGED <<ready, needResync>>
<1>1. pos + 1 \in Positions /\ pos' = pos + 1 /\ UNCHANGED <<apc, batch>>
  BY LogType DEF Publish, Positions, TypeOK, applyVars
<1>2. /\ Elements(batch) \subseteq Nat /\ Elements(applyQueue) \subseteq Nat
      /\ pos \in Nat /\ Queued \subseteq Nat
  BY QueuedType, LogType
<1>3. CASE ~attached
  <2>1. UNCHANGED <<applyQueue, ready, needResync>>
    BY <1>3 DEF Publish
  <2>. QED  BY <1>1, <1>2, <1>3, <2>1 DEF QueueInv, Queued
<1>4. CASE attached /\ Len(applyQueue) > QueueCap
  <2>1. applyQueue' = << >> /\ ready' = FALSE /\ needResync' = TRUE
    BY <1>4 DEF Publish, EnqueueApply
  <2>2. Elements(batch') = Elements(batch) /\ Elements(applyQueue') = {}
    BY <1>1, <2>1, EmptyElements
  <2>3. Queued' = Elements(batch) /\ Elements(batch) \subseteq Queued
    BY <2>2 DEF Queued
  <2>4. QueueInv'
    BY <1>1, <1>2, <2>1, <2>2, <2>3, EmptyElements DEF QueueInv
  <2>. QED  BY <1>1, <1>4, <2>1, <2>3, <2>4
<1>5. CASE attached /\ ~(Len(applyQueue) > QueueCap)
  <2>1. applyQueue' = Append(applyQueue, pos + 1) /\ UNCHANGED <<ready, needResync>>
    BY <1>5 DEF Publish, EnqueueApply, EnqueueAppends
  <2>2. \A x \in Queued : x < pos + 1
    BY <1>2 DEF QueueInv
  <2>3. /\ Elements(applyQueue') = Elements(applyQueue) \cup {pos + 1}
        /\ Rising(applyQueue')
    BY <1>1, <2>1, <2>2, AppendElements DEF TypeOK, QueueInv, Queued
  <2>. QED  BY <1>1, <1>2, <1>5, <2>1, <2>2, <2>3 DEF QueueInv, Queued
<1>. QED  BY <1>3, <1>4, <1>5, <1>1

(* Taking a batch leaves what is queued as it is.                          *)
LEMMA TakeEntry ==
  ASSUME TypeOK, QueueInv, ApplyTake
  PROVE  QueueInv' /\ Queued' = Queued
<1>1. PICK n \in 1 .. Len(applyQueue) :
        /\ batch' = SubSeq(applyQueue, 1, n)
        /\ applyQueue' = SubSeq(applyQueue, n + 1, Len(applyQueue))
  <2>1. Len(applyQueue) \in Nat \ {0} /\ BatchMax \in Nat \ {0}
    BY EmptySeq, EngineAssumption DEF ApplyTake, TypeOK
  <2>2. CASE Len(applyQueue) < BatchMax
    BY <2>1, <2>2 DEF ApplyTake
  <2>3. CASE ~(Len(applyQueue) < BatchMax)
    <3>1. BatchMax \in 1 .. Len(applyQueue)
      BY <2>1, <2>3
    <3>. QED  BY <2>3, <3>1 DEF ApplyTake
  <2>. QED  BY <2>2, <2>3
<1>2. batch = << >> /\ apc' = "apply" /\ pos' = pos
  BY DEF ApplyTake, QueueInv, nodeVars
<1>3. /\ Elements(applyQueue) = Elements(batch') \cup Elements(applyQueue')
      /\ Rising(batch') /\ Rising(applyQueue')
      /\ \A x \in Elements(batch'), y \in Elements(applyQueue') : x < y
  <2>1. applyQueue \in Seq(Positions) /\ Rising(applyQueue)
    BY DEF TypeOK, QueueInv
  <2>. QED  BY <1>1, <2>1, SplitElements
<1>. QED  BY <1>2, <1>3, EmptyElements DEF QueueInv, Queued

(* An applied message is the first of all that are queued, and the only    *)
(* one that leaves, unless a handler throws.                               *)
LEMMA ItemQueue ==
  ASSUME TypeOK, QueueInv, ApplyItem \/ ApplyThrow
  PROVE  /\ QueueInv'
         /\ Head(batch) \in Queued /\ Head(batch) \in Positions
         /\ \A k \in Queued' : Head(batch) < k
         /\ ApplyItem => Queued = Queued' \cup {Head(batch)}
<1>1. batch # << >> /\ batch \in Seq(Positions)
  BY DEF ApplyItem, ApplyThrow, TypeOK
<1>2. /\ Elements(batch) = {Head(batch)} \cup Elements(Tail(batch))
      /\ Rising(Tail(batch))
      /\ \A x \in Elements(Tail(batch)) : Head(batch) < x
  BY <1>1, TailElements DEF QueueInv
<1>3. UNCHANGED <<applyQueue, pos>>
  BY DEF ApplyItem, ApplyThrow, queueVars, nodeVars
<1>4. Head(batch) \in Positions
  BY <1>1, HeadTailProperties
<1>5. \/ /\ batch' = Tail(batch)
         /\ apc' # "apply" => Tail(batch) = << >>
      \/ ApplyThrow /\ batch' = << >>
  BY DEF ApplyItem, ApplyThrow
<1>6. ApplyItem => batch' = Tail(batch)
  BY DEF ApplyItem
<1>7. Elements(batch') \subseteq Elements(Tail(batch)) /\ Rising(batch')
  BY <1>2, <1>5, EmptyElements
<1>8. apc' # "apply" => batch' = << >>
  BY <1>5
<1>. QED  BY <1>2, <1>3, <1>4, <1>6, <1>7, <1>8 DEF QueueInv, Queued

LEMMA QueueStep == TypeOK /\ TypeOK' /\ QueueInv /\ [Next]_vars => QueueInv'
<1>. SUFFICES ASSUME TypeOK, TypeOK', QueueInv, [Next]_vars PROVE QueueInv'
  OBVIOUS
<1>. USE DEF nodeVars, queueVars, applyVars
<1>a. pos \in Nat /\ pos' \in Nat /\ Queued \subseteq Nat
  BY QueuedType, LogType DEF TypeOK
<1>0. ASSUME UNCHANGED <<batch, applyQueue>>, pos' >= pos,
             apc' = "apply" \/ apc # "apply"
      PROVE  QueueInv'
  <2>1. Queued' = Queued
    BY <1>0 DEF Queued
  <2>2. \A x \in Queued' : x <= pos'
    BY <1>a, <1>0, <2>1 DEF QueueInv
  <2>. QED  BY <1>0, <2>2 DEF QueueInv
<1>1. CASE Publish
  BY <1>1, PublishQueue
<1>2. CASE SkipLedger
  <2>1. pos' >= pos
    BY <1>a, <1>2, LogType DEF SkipLedger
  <2>. QED  BY <1>0, <1>2, <2>1 DEF SkipLedger
<1>3. CASE ApplyTake
  BY <1>3, TakeEntry
<1>4. CASE ApplyItem \/ ApplyThrow
  BY <1>4, ItemQueue
<1>5. pos' = pos => pos' >= pos
  BY <1>a
<1>6. CASE Disconnect \/ ConnectOk \/ ConnectFail \/ Stop \/ UNCHANGED vars
  BY <1>0, <1>5, <1>6 DEF Disconnect, ConnectOk, ConnectFail, Stop, vars
<1>7. CASE ApplyExit \/ ApplyIdleCycle \/ ApplyAfter \/ MidCloseTick
             \/ TickStores
  BY <1>0, <1>5, <1>7 DEF ApplyExit, ApplyIdleCycle, ApplyAfter, MidCloseTick,
                          TickStores, BackToWait
<1>8. CASE SyncNext
  <2>1. UNCHANGED <<batch, applyQueue, apc, pos>>
    BY <1>8 DEF SyncNext, SyncStops, SyncConnected, SyncIdle, SyncSubscribe,
         SyncReset, SyncHeader, SyncLoadPage, SyncSkip, SyncPublish, SyncStores,
         SyncClearResync, SyncReady, SyncFollow, SyncCheck, SyncThrow, SyncRetry,
         Reconnect
  <2>. QED  BY <1>0, <1>5, <2>1
<1>. QED
  BY <1>1, <1>2, <1>3, <1>4, <1>6, <1>7, <1>8 DEF Next, NodeNext, ApplyNext

(* While a connect attempt is on, nothing is served and no load is on.     *)
ConnInv == conn = "connecting" => ~ready /\ spc \in {"waitConn", "done"}

LEMMA ConnStep == ConnInv /\ ExclusionInv /\ [Next]_vars => ConnInv'
<1>. SUFFICES ASSUME ConnInv, ExclusionInv, [Next]_vars PROVE ConnInv'
  OBVIOUS
<1>. USE DEF ConnInv, ExclusionInv, nodeVars, flagVars, syncVars, loadVars
<1>1. CASE NodeNext
  <2>1. ready' => ready
    BY <1>1 DEF NodeNext, Publish, EnqueueApply, EnqueueAppends, SkipLedger,
                Disconnect, ConnectOk, ConnectFail, OnDisconnect
  <2>2. spc' = spc /\ (conn' = "connecting" => conn = "connecting")
    BY <1>1 DEF NodeNext, Publish, SkipLedger, Disconnect, ConnectOk, ConnectFail
  <2>. QED  BY <2>1, <2>2
<1>2. CASE ApplyNext
  BY <1>2 DEF ApplyNext, ApplyExit, ApplyTake, ApplyIdleCycle, ApplyItem,
              ApplyThrow, ApplyAfter, MidCloseTick, TickStores
<1>3. CASE SyncStops \/ SyncConnected \/ SyncIdle \/ SyncSubscribe \/ SyncReset
             \/ SyncHeader \/ SyncLoadPage \/ SyncSkip \/ SyncPublish
             \/ SyncStores \/ SyncClearResync \/ SyncReady
  BY <1>3 DEF SyncStops, SyncConnected, SyncIdle, SyncSubscribe, SyncReset,
              SyncHeader, SyncLoadPage, SyncSkip, SyncPublish, SyncStores,
              SyncClearResync, SyncReady, SyncGoes
<1>4. CASE SyncFollow \/ SyncCheck \/ SyncThrow \/ SyncRetry
  BY <1>4 DEF SyncFollow, SyncCheck, SyncThrow, SyncRetry, SyncGoes, LeavesReady,
              Reconnect
<1>5. CASE Stop \/ UNCHANGED vars
  BY <1>5 DEF Stop, vars
<1>. QED  BY <1>1, <1>2, <1>3, <1>4, <1>5 DEF Next, SyncNext

(* From the header of a snapshot until it is dropped, as long as its       *)
(* connection is up: what is said of the messages below.                   *)
Loading ==
  snapSeq # 0 /\ spc \in {"load", "store", "clearResync", "setReady"}

Serving ==
  /\ Loading \/ InService
  /\ conn = "up" /\ faults["meta"] = 0 /\ faults["throw"] = 0

(* The ledger the engine is at is that of the snapshot or one whose close  *)
(* has been published.                                                     *)
AtLedger ==
  /\ currentSeq >= snapSeq
  /\ Loading => currentSeq = snapSeq
  /\ currentSeq = snapSeq \/ currentSeq <= Log[pos].seq

(* A connection that is up and has no stream was one before the snapshot.  *)
NoStreamNoNews ==
  ~attached => currentSeq = snapSeq /\ \A k \in Queued : Log[k].seq <= snapSeq

(* Nothing that will be applied is behind the engine, but for messages     *)
(* that are older than the snapshot.                                       *)
PendingAhead == \A k \in Pending : Log[k].seq >= currentSeq \/ Log[k].seq <= snapSeq

BuilderBehind ==
  \A o \in Obj : builder[o] # 0 /\ Log[builder[o]].seq > snapSeq
                   => \A k \in Pending : builder[o] < k

(* A transaction newer than the snapshot is applied, or on its way, or     *)
(* lost together with the close of its ledger, so the next close will show *)
(* a gap.                                                                  *)
CloseGone(i) ==
  /\ Log[i].seq > currentSeq
  /\ \A c \in Pending : ~(Log[c].obj = Closed /\ Log[c].seq = Log[i].seq)

NewerAccounted ==
  \A i \in Txs : Log[i].seq > snapSeq =>
    i \in Pending \/ builder[Log[i].obj] >= i \/ CloseGone(i)

OlderHeld ==
  spc # "load" => \A i \in Txs : Log[i].seq < snapSeq =>
                    builder[Log[i].obj] >= i \/ Log[i].obj \in skipped

PagesOfSnapshot ==
  spc = "load" => \A o \in Obj : builder[o] # 0 => IsVersionAt(builder[o], o, snapSeq)

ServingInv ==
  /\ AtLedger /\ NoStreamNoNews /\ PendingAhead /\ BuilderBehind
  /\ NewerAccounted /\ OlderHeld /\ PagesOfSnapshot

LossInv ==
  /\ spc = "header" => \A o \in Obj : builder[o] = 0
  /\ Serving => ServingInv

LEMMA PendingParts ==
  ASSUME TypeOK
  PROVE  /\ Pending = Queued \cup {i \in Positions : i > pos}
         /\ Pending \subseteq Positions /\ Positions \subseteq Nat \ {0}
         /\ pos \in Positions /\ currentSeq \in Nat /\ snapSeq \in Nat
         /\ builder \in [Obj -> Positions \cup {0}]
         /\ \A i \in Positions : Log[i].seq \in Nat \ {0}
         /\ \A i \in Txs : i \in Positions /\ Log[i].obj \in Obj /\ Log[i].obj # Closed
BY QueuedType, LogType DEF Pending, Queued, TypeOK, Txs

(* What is missing is of the snapshot's own ledger, or was refused.        *)
LEMMA LossFromInv ==
  ASSUME TypeOK, ExclusionInv, LossInv PROVE LossConfined
<1>. SUFFICES ASSUME InService, faults["meta"] = 0, faults["throw"] = 0,
                     NEW i \in Txs, Missing(i), Log[i].obj \notin skipped
              PROVE  Log[i].seq = snapSeq
  BY DEF LossConfined
<1>1. ServingInv /\ spc # "load"
  BY DEF LossInv, Serving, InService, ExclusionInv
<1>2. /\ Log[i].seq \in Nat /\ snapSeq \in Nat /\ currentSeq \in Nat /\ i \in Nat
      /\ builder[Log[i].obj] \in Nat
  BY PendingParts
<1>3. ~(Log[i].seq > snapSeq)
  BY <1>1, <1>2 DEF ServingInv, NewerAccounted, CloseGone, Missing
<1>4. ~(Log[i].seq < snapSeq)
  BY <1>1, <1>2 DEF ServingInv, OlderHeld, Missing
<1>. QED  BY <1>2, <1>3, <1>4

(* Most steps change nothing of it.                                        *)
LEMMA LossFrame ==
  ASSUME TypeOK, LossInv, Serving' => Serving,
         UNCHANGED <<pos, attached, builder, currentSeq, snapSeq>>,
         UNCHANGED skipped \/ spc' = "load",
         Queued' = Queued, Loading' => Loading, spc' = "load" => spc = "load",
         spc = "load" => spc' = "load" \/ ~Serving',
         spc' = "header" => spc = "header"
  PROVE  LossInv'
<1>1. Pending' = Pending
  BY DEF Pending, Queued
<1>2. ASSUME Serving' PROVE ServingInv'
  <2>1. ServingInv /\ (spc' # "load" => spc # "load")
    BY <1>2 DEF LossInv
  <2>2. AtLedger' /\ NoStreamNoNews' /\ PendingAhead' /\ BuilderBehind'
    BY <1>1, <2>1 DEF ServingInv, AtLedger, NoStreamNoNews, PendingAhead,
                      BuilderBehind
  <2>3. NewerAccounted'
    BY <1>1, <2>1 DEF ServingInv, NewerAccounted, CloseGone, Txs
  <2>4. OlderHeld' /\ PagesOfSnapshot'
    BY <2>1 DEF ServingInv, OlderHeld, PagesOfSnapshot, Txs, IsVersionAt, Writers
  <2>. QED  BY <2>2, <2>3, <2>4 DEF ServingInv
<1>. QED  BY <1>2 DEF LossInv

(* The close of a transaction's ledger comes before it.                    *)
LEMMA CloseBefore ==
  ASSUME NEW c \in Positions, NEW i \in Positions,
         Log[c].obj = Closed, Log[i].obj # Closed, Log[c].seq = Log[i].seq
  PROVE  c < i
<1>1. c \in Nat /\ i \in Nat /\ Log[c].seq \in Nat
  BY LogType
<1>2. i < c => Log[i].seq < Log[c].seq
  BY LogRises
<1>. QED  BY <1>1, <1>2

(* The node's next message, with or without a stream to carry it.          *)
LEMMA LossPublish ==
  ASSUME TypeOK, QueueInv, LossInv, LoadIsExclusive, Publish
  PROVE  LossInv'
<1>. USE DEF nodeVars, flagVars, queueVars, applyVars, syncVars, loadVars, dataVars
<1>1. UNCHANGED <<conn, attached, apc, batch, spc, snapSeq, skipped, builder,
                  currentSeq, faults>>
  BY DEF Publish
<1>2. /\ pos + 1 \in Positions /\ pos' = pos + 1
      /\ \/ attached /\ Queued' = Queued \cup {pos + 1} /\ UNCHANGED <<ready, needResync>>
         \/ attached /\ Queued' = Elements(batch) /\ ~ready' /\ needResync'
         \/ ~attached /\ Queued' = Queued /\ UNCHANGED <<ready, needResync>>
  BY PublishQueue
<1>. SUFFICES ASSUME Serving' PROVE ServingInv'
  BY <1>1 DEF LossInv
<1>3. Serving /\ Loading' = Loading
  BY <1>1, <1>2 DEF Serving, Loading, InService
<1>4. ServingInv
  BY <1>3 DEF LossInv
<1>5. /\ Pending = Queued \cup {i \in Positions : i > pos}
      /\ \A i \in Positions : i \in Nat
      /\ pos \in Positions /\ currentSeq \in Nat /\ snapSeq \in Nat
      /\ builder \in [Obj -> Positions \cup {0}]
      /\ \A i \in Positions : Log[i].seq \in Nat
      /\ \A x \in Queued : x \in Positions /\ x <= pos
  BY PendingParts, QueuedType DEF QueueInv
<1>6. Log[pos].seq <= Log[pos + 1].seq
  BY <1>2, <1>5, LogRises
<1>7. Pending' = Queued' \cup {i \in Positions : i > pos + 1}
  BY <1>2 DEF Pending, Queued
<1>8. Pending' \subseteq Pending
  <2>1. Elements(batch) \subseteq Queued
    BY DEF Queued
  <2>. QED  BY <1>2, <1>5, <1>7, <2>1
<1>9. AtLedger' /\ PendingAhead' /\ BuilderBehind' /\ OlderHeld' /\ PagesOfSnapshot'
  <2>1. AtLedger'
    BY <1>1, <1>2, <1>3, <1>4, <1>5, <1>6 DEF ServingInv, AtLedger
  <2>2. PendingAhead' /\ BuilderBehind'
    BY <1>1, <1>4, <1>8 DEF ServingInv, PendingAhead, BuilderBehind
  <2>3. OlderHeld' /\ PagesOfSnapshot'
    BY <1>1, <1>4 DEF ServingInv, OlderHeld, PagesOfSnapshot, Txs, IsVersionAt, Writers
  <2>. QED  BY <2>1, <2>2, <2>3
<1>10. NoStreamNoNews'
  BY <1>1, <1>2, <1>4 DEF ServingInv, NoStreamNoNews
(* Where the message is thrown away, the close of its ledger is gone too.  *)
<1>11. ASSUME NEW i \in Txs, Log[i].seq > snapSeq, i \in Pending, i \notin Pending'
       PROVE  CloseGone(i)'
  <2>1. i \in Positions /\ i <= pos + 1 /\ Log[i].obj # Closed
    BY <1>2, <1>5, <1>7, <1>11 DEF Txs
  <2>2. \A c \in Positions : Log[c].obj = Closed /\ Log[c].seq = Log[i].seq => c < i
    BY <2>1, CloseBefore
  <2>3. CASE attached
    <3>1. Queued' = Elements(batch) /\ ~ready'
      BY <1>2, <1>5, <1>7, <1>11, <2>1, <2>3
    <3>2. Loading
      BY <1>3, <3>1, <1>1 DEF Serving, InService, Loading
    <3>3. batch = << >> /\ currentSeq = snapSeq
      BY <1>4, <3>2 DEF QueueInv, LoadIsExclusive, Loading, ServingInv, AtLedger
    <3>4. Pending' = {k \in Positions : k > pos + 1}
      BY <1>7, <3>1, <3>3, EmptyElements
    <3>. QED  BY <1>1, <1>5, <1>11, <2>1, <2>2, <3>3, <3>4 DEF CloseGone
  <2>4. CASE ~attached
    <3>1. currentSeq = snapSeq /\ \A k \in Queued : Log[k].seq <= snapSeq
      BY <1>4, <2>4 DEF ServingInv, NoStreamNoNews
    <3>2. Queued' = Queued
      BY <1>2, <2>4
    <3>3. \A c \in Pending' : ~(Log[c].obj = Closed /\ Log[c].seq = Log[i].seq)
      BY <1>5, <1>7, <1>11, <2>1, <2>2, <3>1, <3>2
    <3>. QED  BY <1>1, <1>11, <3>1, <3>3 DEF CloseGone
  <2>. QED  BY <2>3, <2>4
<1>12. NewerAccounted'
  <2>. SUFFICES ASSUME NEW i \in Txs, Log[i].seq > snapSeq
                PROVE  i \in Pending' \/ builder[Log[i].obj] >= i \/ CloseGone(i)'
    BY <1>1 DEF NewerAccounted, Txs
  <2>1. i \in Pending \/ builder[Log[i].obj] >= i \/ CloseGone(i)
    BY <1>4 DEF ServingInv, NewerAccounted
  <2>2. CloseGone(i) => CloseGone(i)'
    BY <1>1, <1>8 DEF CloseGone
  <2>. QED  BY <1>11, <2>1, <2>2
<1>. QED  BY <1>9, <1>10, <1>12 DEF ServingInv

(* A ledger the stream leaves out is lost with its close.                  *)
LEMMA LossSkip ==
  ASSUME TypeOK, QueueInv, LossInv, SkipLedger
  PROVE  LossInv'
<1>. USE DEF nodeVars, flagVars, queueVars, applyVars, syncVars, loadVars, dataVars
<1>1. /\ UNCHANGED <<conn, attached, ready, needResync, apc, batch, applyQueue,
                     spc, snapSeq, skipped, builder, currentSeq>>
      /\ Queued' = Queued
  BY DEF SkipLedger, Queued
<1>2. pos \in Positions /\ pos + 1 \in Positions /\ Log[pos + 1].obj = Closed
  BY LogType DEF SkipLedger, TypeOK, Positions
<1>3. PICK n \in Positions : n >= pos + 1 /\ pos' = n
  BY <1>2, LogType DEF SkipLedger, Positions
<1>. SUFFICES ASSUME Serving' PROVE ServingInv'
  BY <1>1 DEF LossInv
<1>4. Serving /\ Loading' = Loading
  BY <1>1 DEF Serving, Loading, InService, SkipLedger, Fault, TypeOK, FaultKind
<1>5. ServingInv
  BY <1>4 DEF LossInv
<1>6. /\ Pending = Queued \cup {i \in Positions : i > pos}
      /\ \A i \in Positions : i \in Nat
      /\ currentSeq \in Nat /\ snapSeq \in Nat
      /\ builder \in [Obj -> Positions \cup {0}]
      /\ \A i \in Positions : Log[i].seq \in Nat
      /\ \A x \in Queued : x \in Positions /\ x <= pos
  BY PendingParts, QueuedType DEF QueueInv
<1>7. Pending' = Queued \cup {i \in Positions : i > n}
  BY <1>1, <1>3 DEF Pending, Queued
<1>8. Pending' \subseteq Pending
  BY <1>2, <1>3, <1>6, <1>7
<1>9. AtLedger' /\ PendingAhead' /\ BuilderBehind' /\ OlderHeld' /\ PagesOfSnapshot'
      /\ NoStreamNoNews'
  <2>1. Log[pos].seq <= Log[n].seq
    BY <1>2, <1>3, <1>6, LogRises
  <2>2. AtLedger'
    BY <1>1, <1>2, <1>3, <1>4, <1>5, <1>6, <2>1 DEF ServingInv, AtLedger
  <2>3. PendingAhead' /\ BuilderBehind' /\ NoStreamNoNews'
    BY <1>1, <1>5, <1>8
    DEF ServingInv, PendingAhead, BuilderBehind, NoStreamNoNews
  <2>4. OlderHeld' /\ PagesOfSnapshot'
    BY <1>1, <1>5 DEF ServingInv, OlderHeld, PagesOfSnapshot, Txs, IsVersionAt, Writers
  <2>. QED  BY <2>2, <2>3, <2>4
<1>10. ASSUME NEW i \in Txs, Log[i].seq > snapSeq, i \in Pending, i \notin Pending'
       PROVE  CloseGone(i)'
  <2>1. i \in Positions /\ i > pos /\ i <= n /\ Log[i].obj # Closed
    BY <1>2, <1>3, <1>6, <1>7, <1>10 DEF Txs
  <2>2. /\ Log[pos].seq < Log[pos + 1].seq
        /\ Log[pos + 1].seq <= Log[i].seq
    BY <1>2, <1>6, <2>1, LogRises
  <2>3. Log[i].seq > currentSeq
    BY <1>2, <1>5, <1>6, <1>10, <2>2 DEF ServingInv, AtLedger
  <2>4. \A k \in Queued : Log[k].seq <= Log[pos].seq
    BY <1>2, <1>6, LogRises
  <2>5. \A c \in Positions : Log[c].obj = Closed /\ Log[c].seq = Log[i].seq => c < i
    BY <2>1, CloseBefore
  <2>6. \A c \in Pending' : ~(Log[c].obj = Closed /\ Log[c].seq = Log[i].seq)
    BY <1>2, <1>3, <1>6, <1>7, <2>1, <2>2, <2>4, <2>5
  <2>. QED  BY <1>1, <2>3, <2>6 DEF CloseGone
<1>11. NewerAccounted'
  <2>. SUFFICES ASSUME NEW i \in Txs, Log[i].seq > snapSeq
                PROVE  i \in Pending' \/ builder[Log[i].obj] >= i \/ CloseGone(i)'
    BY <1>1 DEF NewerAccounted, Txs
  <2>1. i \in Pending \/ builder[Log[i].obj] >= i \/ CloseGone(i)
    BY <1>5 DEF ServingInv, NewerAccounted
  <2>2. CloseGone(i) => CloseGone(i)'
    BY <1>1, <1>8 DEF CloseGone
  <2>. QED  BY <1>10, <2>1, <2>2
<1>. QED  BY <1>9, <1>11 DEF ServingInv

LEMMA FaultCounts ==
  ASSUME faults \in [FaultKind -> Nat], NEW k \in FaultKind, Fault(k)
  PROVE  faults'[k] # 0
BY DEF Fault

(* A message applied: a close moves the engine on, and shows a gap if the  *)
(* close before it is gone; a transaction writes its object, or is older   *)
(* than the ledger the engine is at.                                       *)
LEMMA LossItem ==
  ASSUME TypeOK, QueueInv, LossInv, ExclusionInv, ServedInv, ApplyItem \/ ApplyThrow
  PROVE  LossInv'
<1>. USE DEF nodeVars, flagVars, queueVars, applyVars, syncVars, loadVars
<1>1. /\ UNCHANGED <<conn, attached, pos, ready, spc, snapSeq, skipped>>
      /\ spc \notin {"header", "load", "store", "clearResync", "setReady"}
  BY DEF ApplyItem, ApplyThrow, ExclusionInv, LoadIsExclusive
<1>. SUFFICES ASSUME Serving' PROVE ServingInv'
  BY <1>1 DEF LossInv
<1>2. ready /\ ~needResync' /\ faults'["throw"] = 0 /\ faults'["meta"] = 0 /\ conn = "up"
  BY <1>1 DEF Serving, InService, Loading
<1>3. ApplyItem
  <2>1. ~Fault("throw")
    BY <1>2, FaultCounts DEF TypeOK, FaultKind
  <2>. QED  BY <2>1 DEF ApplyThrow
<1>. DEFINE h == Head(batch)
<1>4. /\ h \in Queued /\ h \in Positions
      /\ \A k \in Queued' : h < k
      /\ Queued = Queued' \cup {h}
  BY <1>3, ItemQueue
<1>5. /\ Pending = Queued \cup {i \in Positions : i > pos}
      /\ \A i \in Positions : i \in Nat
      /\ currentSeq \in Nat /\ snapSeq \in Nat
      /\ builder \in [Obj -> Positions \cup {0}]
      /\ \A i \in Positions : Log[i].seq \in Nat
      /\ \A x \in Queued : x \in Positions /\ x <= pos
      /\ pos \in Positions
      /\ Pending \subseteq Positions
  BY PendingParts, QueuedType DEF QueueInv
<1>6. Pending' = Queued' \cup {i \in Positions : i > pos}
  BY <1>1 DEF Pending, Queued
<1>7. /\ Pending = Pending' \cup {h} /\ h \in Pending
      /\ \A k \in Pending' : h < k /\ k \in Positions
  BY <1>4, <1>5, <1>6
<1>8. \A k \in Pending' : Log[h].seq <= Log[k].seq
  BY <1>4, <1>7, LogRises
<1>9. h <= pos /\ Log[h].seq <= Log[pos].seq
  BY <1>4, <1>5, LogRises
<1>. HIDE DEF h
<1>10. \/ Log[h].obj = Closed /\ ApplyLedgerClosed(Log[h].seq) /\ UNCHANGED faults
       \/ Log[h].obj # Closed /\ ApplyTransaction(h) /\ UNCHANGED needResync
  BY <1>3 DEF ApplyItem, h
<1>11. ~needResync /\ faults["throw"] = 0 /\ faults["meta"] = 0
  BY <1>2, <1>10 DEF ApplyLedgerClosed, ApplyTransaction, Fault, TypeOK, FaultKind
<1>12. ServingInv
  BY <1>1, <1>2, <1>11 DEF LossInv, Serving, InService
<1>13. currentSeq # 0
  BY <1>2, <1>5 DEF ServedInv, HeldOnce, SnapshotHeld, LedgerOfSnapshot
<1>14. ~Loading' /\ spc' # "load"
  BY <1>1 DEF Loading
(* A step that moves neither the ledger nor the builder.                   *)
<1>15. ASSUME UNCHANGED <<builder, currentSeq>>,
              h \in Txs => ~(Log[h].seq > snapSeq)
       PROVE  ServingInv'
  <2>1. AtLedger' /\ NoStreamNoNews' /\ PendingAhead' /\ BuilderBehind'
        /\ OlderHeld' /\ PagesOfSnapshot'
    <3>1. AtLedger' /\ NoStreamNoNews'
      BY <1>1, <1>4, <1>12, <1>14, <1>15 DEF ServingInv, AtLedger, NoStreamNoNews
    <3>2. PendingAhead' /\ BuilderBehind'
      BY <1>1, <1>7, <1>12, <1>15 DEF ServingInv, PendingAhead, BuilderBehind
    <3>3. OlderHeld' /\ PagesOfSnapshot'
      BY <1>1, <1>12, <1>14, <1>15 DEF ServingInv, OlderHeld, PagesOfSnapshot, Txs
    <3>. QED  BY <3>1, <3>2, <3>3
  <2>2. ASSUME NEW i \in Txs, Log[i].seq > snapSeq
        PROVE  i \in Pending' \/ builder[Log[i].obj] >= i \/ CloseGone(i)'
    <3>1. i \in Pending \/ builder[Log[i].obj] >= i \/ CloseGone(i)
      BY <1>12, <2>2 DEF ServingInv, NewerAccounted
    <3>2. CloseGone(i) => CloseGone(i)'
      BY <1>7, <1>15 DEF CloseGone
    <3>3. i # h
      BY <1>15, <2>2
    <3>. QED  BY <1>7, <3>1, <3>2, <3>3
  <2>3. NewerAccounted'
    BY <1>1, <1>15, <2>2 DEF NewerAccounted, Txs
  <2>. QED  BY <2>1, <2>3 DEF ServingInv
<1>16. CASE Log[h].obj = Closed /\ IsOldClose(Log[h].seq)
  <2>1. UNCHANGED <<builder, currentSeq>>
    BY <1>10, <1>16 DEF ApplyLedgerClosed, dataVars
  <2>. QED  BY <1>15, <1>16, <2>1 DEF Txs
<1>17. CASE Log[h].obj = Closed /\ ~IsOldClose(Log[h].seq)
  <2>1. /\ currentSeq' = Log[h].seq /\ builder' = builder
        /\ ~GapFlagged(Log[h].seq)
    BY <1>2, <1>10, <1>17 DEF ApplyLedgerClosed
  <2>2. /\ Log[h].seq \in Nat /\ Log[h].seq = currentSeq + 1
        /\ currentSeq' = currentSeq + 1
    BY <1>4, <1>5, <1>13, <1>17, <2>1 DEF GapFlagged, IsOldClose
  <2>3. AtLedger'
    BY <1>1, <1>5, <1>9, <1>12, <1>14, <2>2 DEF ServingInv, AtLedger
  <2>4. NoStreamNoNews'
    <3>1. ASSUME ~attached PROVE FALSE
      <4>1. Log[h].seq <= snapSeq /\ currentSeq = snapSeq
        BY <1>4, <1>12, <3>1 DEF ServingInv, NoStreamNoNews
      <4>. QED  BY <1>5, <2>2, <4>1
    <3>. QED  BY <1>1, <3>1 DEF NoStreamNoNews
  <2>5. PendingAhead'
    BY <1>7, <1>5, <1>8, <2>1 DEF PendingAhead
  <2>6. BuilderBehind' /\ OlderHeld' /\ PagesOfSnapshot'
    BY <1>1, <1>7, <1>12, <1>14, <2>1
    DEF ServingInv, BuilderBehind, OlderHeld, PagesOfSnapshot, Txs
  <2>7. ASSUME NEW i \in Txs, Log[i].seq > snapSeq
        PROVE  i \in Pending' \/ builder[Log[i].obj] >= i \/ CloseGone(i)'
    <3>1. i \in Pending \/ builder[Log[i].obj] >= i \/ CloseGone(i)
      BY <1>12, <2>7 DEF ServingInv, NewerAccounted
    <3>2. i # h /\ i \in Positions
      BY <1>17 DEF Txs
    <3>3. ASSUME CloseGone(i) PROVE CloseGone(i)'
      <4>1. Log[i].seq > currentSeq /\ Log[i].seq # Log[h].seq
        BY <1>7, <1>17, <3>3 DEF CloseGone
      <4>2. Log[i].seq > currentSeq + 1
        BY <1>5, <2>2, <3>2, <4>1
      <4>. QED  BY <1>7, <2>2, <3>3, <4>2 DEF CloseGone
    <3>. QED  BY <1>7, <3>1, <3>2, <3>3
  <2>8. NewerAccounted'
    BY <1>1, <2>1, <2>7 DEF NewerAccounted, Txs
  <2>. QED  BY <2>3, <2>4, <2>5, <2>6, <2>8 DEF ServingInv
<1>18. CASE Log[h].obj # Closed /\ ~ShouldApplyStreamTx(Log[h].seq)
  <2>1. UNCHANGED <<builder, currentSeq>>
    BY <1>10, <1>18 DEF ApplyTransaction, dataVars
  <2>2. ~(Log[h].seq > snapSeq)
    BY <1>4, <1>5, <1>7, <1>12, <1>18
    DEF ServingInv, PendingAhead, ShouldApplyStreamTx
  <2>. QED  BY <1>15, <2>1, <2>2
<1>19. CASE Log[h].obj # Closed /\ ShouldApplyStreamTx(Log[h].seq)
  <2>1. builder' = [builder EXCEPT ![Log[h].obj] = h] /\ currentSeq' = currentSeq
    BY <1>2, <1>10, <1>11, <1>19 DEF ApplyTransaction, Fault, TypeOK, FaultKind
  <2>2. h \in Txs /\ Log[h].obj \in Obj /\ Log[h].seq >= currentSeq
    BY <1>4, <1>19, LogType DEF Txs, ShouldApplyStreamTx
  <2>3. AtLedger' /\ NoStreamNoNews' /\ PendingAhead'
    BY <1>1, <1>4, <1>7, <1>12, <1>14, <2>1
    DEF ServingInv, AtLedger, NoStreamNoNews, PendingAhead
  <2>4. BuilderBehind'
    BY <1>1, <1>5, <1>7, <1>12, <2>1, <2>2 DEF ServingInv, BuilderBehind
  <2>5. PagesOfSnapshot'
    BY <1>14 DEF PagesOfSnapshot
(* What is older than the ledger the engine is at comes before h.          *)
  <2>6. OlderHeld'
    <3>. SUFFICES ASSUME NEW i \in Txs, Log[i].seq < snapSeq,
                         Log[i].obj \notin skipped
                  PROVE  builder'[Log[i].obj] >= i
      BY <1>1 DEF OlderHeld, Txs
    <3>1. i \in Positions /\ Log[i].obj \in Obj /\ builder[Log[i].obj] >= i
      BY <1>1, <1>12, <1>14, PendingParts DEF ServingInv, OlderHeld
    <3>2. Log[i].seq < Log[h].seq
      BY <1>4, <1>5, <1>12, <2>2, <3>1 DEF ServingInv, AtLedger
    <3>3. i <= h
      BY <1>4, <1>5, <3>1, <3>2, LogRises
    <3>. QED  BY <1>5, <2>1, <2>2, <3>1, <3>3
  <2>7. ASSUME NEW i \in Txs, Log[i].seq > snapSeq
        PROVE  i \in Pending' \/ builder'[Log[i].obj] >= i \/ CloseGone(i)'
    <3>1. i \in Pending \/ builder[Log[i].obj] >= i \/ CloseGone(i)
      BY <1>12, <2>7 DEF ServingInv, NewerAccounted
    <3>2. CloseGone(i) => CloseGone(i)'
      BY <1>7, <2>1 DEF CloseGone
    <3>3. i \in Positions /\ Log[i].obj \in Obj
      BY PendingParts
    <3>4. CASE i = h
      BY <1>4, <1>5, <2>1, <2>2, <3>4
    <3>5. CASE i # h /\ Log[i].obj = Log[h].obj /\ builder[Log[i].obj] >= i
      <4>. DEFINE b == builder[Log[i].obj]
      <4>1. b \in Positions /\ b # 0 /\ i <= b
        BY <1>5, <3>3, <3>5, LogType
      <4>. HIDE DEF b
      <4>2. Log[i].seq <= Log[b].seq
        BY <1>5, <3>3, <4>1, LogRises
      <4>3. Log[b].seq > snapSeq
        BY <1>5, <2>7, <3>3, <4>1, <4>2
      <4>4. b < h
        BY <1>7, <1>12, <3>3, <4>1, <4>3 DEF ServingInv, BuilderBehind, b
      <4>5. h >= i
        BY <1>4, <1>5, <3>3, <4>1, <4>4
      <4>. QED  BY <1>5, <2>1, <2>2, <3>5, <4>5
    <3>6. CASE i # h /\ ~(Log[i].obj = Log[h].obj /\ builder[Log[i].obj] >= i)
      BY <1>5, <1>7, <2>1, <3>1, <3>2, <3>3, <3>6
    <3>. QED  BY <3>4, <3>5, <3>6
  <2>8. NewerAccounted'
    BY <1>1, <2>7 DEF NewerAccounted, Txs
  <2>. QED  BY <2>3, <2>4, <2>5, <2>6, <2>8 DEF ServingInv
<1>. QED  BY <1>16, <1>17, <1>18, <1>19

(* The snapshot's header: everything newer is still to come.               *)
LEMMA LossHeader ==
  ASSUME TypeOK, QueueInv, LossInv, ExclusionInv, SyncHeader
  PROVE  LossInv'
<1>. USE DEF nodeVars, flagVars, queueVars, applyVars, syncVars, loadVars
<1>0. ASSUME snapSeq' = 0 PROVE LossInv'
  <2>1. ~ready' /\ spc' = "load"
    BY DEF SyncHeader, SyncGoes, ExclusionInv
  <2>. QED  BY <1>0, <2>1 DEF LossInv, Serving, Loading, InService
<1>. SUFFICES ASSUME snapSeq' # 0 PROVE LossInv'
  BY <1>0
<1>1. /\ UNCHANGED <<pos, attached, batch, applyQueue, builder>>
      /\ spc = "header" /\ spc' = "load" /\ currentSeq' = snapSeq'
      /\ currentSeq' \in {Log[pos].seq, Log[pos].seq + 1}
  BY DEF SyncHeader, SyncGoes
<1>2. /\ Pending = Queued \cup {i \in Positions : i > pos}
      /\ \A i \in Positions : i \in Nat
      /\ \A i \in Positions : Log[i].seq \in Nat
      /\ \A x \in Queued : x \in Positions /\ x <= pos
      /\ pos \in Positions
  BY PendingParts, QueuedType DEF QueueInv
<1>3. Pending' = Pending /\ Queued' = Queued
  BY <1>1 DEF Pending, Queued
<1>4. Log[pos].seq \in Nat /\ currentSeq' >= Log[pos].seq /\ currentSeq' \in Nat
  BY <1>1, <1>2
<1>5. \A o \in Obj : builder[o] = 0
  BY <1>1 DEF LossInv
<1>6. \A i \in Positions : i <= pos => Log[i].seq <= currentSeq'
  <2>. SUFFICES ASSUME NEW i \in Positions, i <= pos PROVE Log[i].seq <= currentSeq'
    OBVIOUS
  <2>1. Log[i].seq <= Log[pos].seq
    BY <1>2, LogRises
  <2>. QED  BY <1>2, <1>4, <2>1
<1>7. \A i \in Positions : i > pos => Log[i].seq >= Log[pos].seq
  BY <1>2, LogRises
<1>8. AtLedger' /\ NoStreamNoNews' /\ BuilderBehind' /\ OlderHeld' /\ PagesOfSnapshot'
  BY <1>1, <1>2, <1>3, <1>4, <1>5, <1>6 DEF AtLedger, NoStreamNoNews, BuilderBehind,
       OlderHeld, PagesOfSnapshot
<1>9. PendingAhead'
  <2>. SUFFICES ASSUME NEW k \in Pending, ~(Log[k].seq <= currentSeq')
                PROVE  Log[k].seq >= currentSeq'
    BY <1>1, <1>3 DEF PendingAhead
  <2>. QED  BY <1>2, <1>4
<1>10. NewerAccounted'
  <2>. SUFFICES ASSUME NEW i \in Txs, Log[i].seq > currentSeq'
                PROVE  i \in Pending
    BY <1>1, <1>3 DEF NewerAccounted, Txs
  <2>1. i \in Positions /\ ~(i <= pos)
    BY <1>2, <1>4, <1>6 DEF Txs
  <2>. QED  BY <1>2, <2>1
<1>. QED  BY <1>1, <1>8, <1>9, <1>10 DEF LossInv, ServingInv

(* One page: an object as it is in the snapshot's ledger.                  *)
LEMMA LossPage ==
  ASSUME TypeOK, QueueInv, LossInv, SyncLoadPage
  PROVE  LossInv'
<1>. USE DEF nodeVars, flagVars, queueVars, applyVars, syncVars, loadVars
<1>1. /\ UNCHANGED <<pos, conn, attached, ready, needResync, batch, applyQueue,
                     snapSeq, currentSeq, faults>>
      /\ spc = "load" /\ spc' = "load"
  BY DEF SyncLoadPage, SyncGoes
<1>. SUFFICES ASSUME Serving' PROVE ServingInv'
  BY <1>1 DEF LossInv
<1>2. ServingInv
  BY <1>1 DEF LossInv, Serving, Loading, InService
<1>3. PICK o \in Known(snapSeq) \ Present, i \in Txs :
        IsVersionAt(i, o, snapSeq) /\ builder' = [builder EXCEPT ![o] = i]
  <2>1. NextType \subseteq Known(snapSeq) \ Present
    BY DEF NextType, Unloaded
  <2>. QED  BY <2>1 DEF SyncLoadPage
<1>4. /\ o \in Obj /\ builder[o] = 0 /\ i \in Positions /\ Log[i].seq <= snapSeq
      /\ Log[i].seq \in Nat /\ snapSeq \in Nat /\ i \in Nat
      /\ builder \in [Obj -> Positions \cup {0}]
  BY <1>3, PendingParts DEF Known, Present, IsVersionAt, Writers
<1>5. Pending' = Pending /\ Queued' = Queued
  BY <1>1 DEF Pending, Queued
<1>6. AtLedger' /\ NoStreamNoNews' /\ PendingAhead'
  BY <1>1, <1>2, <1>5 DEF ServingInv, AtLedger, NoStreamNoNews, PendingAhead, Loading
<1>7. BuilderBehind'
  BY <1>1, <1>2, <1>3, <1>4, <1>5 DEF ServingInv, BuilderBehind
<1>8. OlderHeld'
  BY <1>1 DEF OlderHeld
<1>9. PagesOfSnapshot'
  <2>. SUFFICES ASSUME NEW p \in Obj, builder'[p] # 0
                PROVE  IsVersionAt(builder'[p], p, snapSeq)
    BY <1>1 DEF PagesOfSnapshot, IsVersionAt, Writers, Txs
  <2>1. CASE p = o
    BY <1>3, <1>4, <2>1
  <2>2. CASE p # o
    <3>1. builder'[p] = builder[p]
      BY <1>3, <1>4, <2>2
    <3>. QED  BY <1>1, <1>2, <3>1 DEF ServingInv, PagesOfSnapshot
  <2>. QED  BY <2>1, <2>2
<1>10. NewerAccounted'
  <2>. SUFFICES ASSUME NEW j \in Txs, Log[j].seq > snapSeq
                PROVE  j \in Pending \/ builder'[Log[j].obj] >= j \/ CloseGone(j)
    BY <1>1, <1>5 DEF NewerAccounted, Txs, CloseGone
  <2>1. j \in Pending \/ builder[Log[j].obj] >= j \/ CloseGone(j)
    BY <1>2 DEF ServingInv, NewerAccounted
  <2>2. j \in Nat \ {0} /\ Log[j].obj \in Obj
    BY PendingParts
  <2>3. builder[Log[j].obj] >= j => builder'[Log[j].obj] >= j
    BY <1>3, <1>4, <2>2
  <2>. QED  BY <2>1, <2>3
<1>. QED  BY <1>6, <1>7, <1>8, <1>9, <1>10 DEF ServingInv

(* The last page: all that is older than the snapshot's ledger is there.   *)
LEMMA LossLastPage ==
  ASSUME TypeOK, QueueInv, LossInv, SyncPublish
  PROVE  LossInv'
<1>. USE DEF nodeVars, flagVars, queueVars, applyVars, syncVars, loadVars
<1>1. /\ UNCHANGED <<pos, conn, attached, ready, needResync, batch, applyQueue,
                     snapSeq, skipped, builder, currentSeq, faults>>
      /\ spc = "load" /\ spc' = "store" /\ LastPage
  BY DEF SyncPublish, SyncGoes, dataVars
<1>. SUFFICES ASSUME Serving' PROVE ServingInv'
  BY <1>1 DEF LossInv
<1>2. ServingInv
  BY <1>1 DEF LossInv, Serving, Loading, InService
<1>3. Pending' = Pending /\ Queued' = Queued
  BY <1>1 DEF Pending, Queued
<1>4. AtLedger' /\ NoStreamNoNews' /\ PendingAhead' /\ BuilderBehind' /\ PagesOfSnapshot'
  BY <1>1, <1>2, <1>3 DEF ServingInv, AtLedger, NoStreamNoNews, PendingAhead,
       BuilderBehind, PagesOfSnapshot, Loading
<1>5. NewerAccounted'
  BY <1>1, <1>2, <1>3 DEF ServingInv, NewerAccounted, CloseGone, Txs
<1>6. OlderHeld'
  <2>. SUFFICES ASSUME NEW i \in Txs, Log[i].seq < snapSeq,
                       Log[i].obj \notin skipped
                PROVE  builder[Log[i].obj] >= i
    BY <1>1 DEF OlderHeld, Txs
  <2>1. /\ i \in Positions /\ Log[i].obj \in Obj /\ Log[i].seq \in Nat
        /\ snapSeq \in Nat
    BY PendingParts
  <2>2. i \in Writers(Log[i].obj, snapSeq)
    BY <2>1 DEF Writers
  <2>3. builder[Log[i].obj] # 0
    BY <1>1, <2>1, <2>2 DEF LastPage, Unloaded, Known, Present
  <2>4. IsVersionAt(builder[Log[i].obj], Log[i].obj, snapSeq)
    BY <1>1, <1>2, <2>1, <2>3 DEF ServingInv, PagesOfSnapshot
  <2>5. i <= builder[Log[i].obj]
    BY <2>2, <2>4 DEF IsVersionAt
  <2>. QED  BY <2>1, <2>5, PendingParts
<1>. QED  BY <1>4, <1>5, <1>6 DEF ServingInv

LEMMA LossStep ==
  ASSUME TypeOK, QueueInv, LossInv, ExclusionInv, ServedInv, ConnInv, [Next]_vars
  PROVE  LossInv'
<1>. USE DEF nodeVars, flagVars, queueVars, applyVars, syncVars, loadVars, dataVars
<1>1. CASE Publish
  BY <1>1, LossPublish DEF ExclusionInv
<1>2. CASE SkipLedger
  BY <1>2, LossSkip
<1>3. CASE Disconnect \/ ConnectFail
  <2>1. ~Serving' /\ Queued' = Queued
        /\ UNCHANGED <<pos, builder, currentSeq, snapSeq, spc>>
    BY <1>3 DEF Disconnect, ConnectFail, Serving, Queued
  <2>. QED  BY <2>1 DEF LossInv
<1>4. CASE ConnectOk
  <2>1. ~Serving' /\ UNCHANGED <<builder, spc>>
    BY <1>4 DEF ConnectOk, Serving, ConnInv, Loading, InService
  <2>. QED  BY <2>1 DEF LossInv
<1>5. CASE ApplyTake
  <2>1. Queued' = Queued
    BY <1>5, TakeEntry
  <2>. QED  BY <1>5, <2>1, LossFrame DEF ApplyTake, Serving, Loading, InService
<1>6. CASE ApplyItem \/ ApplyThrow
  BY <1>6, LossItem
<1>7. CASE ApplyExit \/ ApplyIdleCycle \/ ApplyAfter \/ MidCloseTick
             \/ TickStores \/ Stop \/ UNCHANGED vars
  <2>1. /\ UNCHANGED <<pos, conn, attached, ready, needResync, batch, applyQueue,
                       spc, snapSeq, skipped, builder, currentSeq, faults>>
    BY <1>7 DEF ApplyExit, ApplyIdleCycle, ApplyAfter, MidCloseTick, TickStores,
                Stop, vars
  <2>2. Queued' = Queued
    BY <2>1 DEF Queued
  <2>. QED  BY <2>1, <2>2, LossFrame DEF Serving, Loading, InService
(* Where the sync thread is before a load or after a failed one, nothing   *)
(* is served.                                                              *)
<1>8. CASE SyncConnected \/ SyncIdle \/ SyncSubscribe \/ SyncFollow \/ SyncCheck
             \/ SyncThrow \/ SyncRetry
  <2>1. ~ready' /\ spc' \notin {"header", "load", "store", "clearResync", "setReady"}
    BY <1>8 DEF SyncConnected, SyncIdle, SyncSubscribe, SyncFollow, SyncCheck,
         SyncThrow, SyncRetry, SyncGoes, LeavesReady, ExclusionInv
  <2>. QED  BY <2>1 DEF LossInv, Serving, Loading, InService
<1>9. CASE SyncReset
  <2>1. ~ready' /\ spc' = "header" /\ builder' = [o \in Obj |-> 0]
    BY <1>9 DEF SyncReset, SyncGoes, ExclusionInv
  <2>. QED  BY <2>1 DEF LossInv, Serving, Loading, InService
<1>10. CASE SyncHeader
  BY <1>10, LossHeader
<1>11. CASE SyncLoadPage
  BY <1>11, LossPage
<1>12. CASE SyncPublish
  BY <1>12, LossLastPage
<1>13. CASE SyncStops \/ SyncStores \/ SyncClearResync \/ SyncReady
  <2>1. /\ UNCHANGED <<pos, conn, attached, batch, applyQueue, snapSeq, skipped,
                       builder, currentSeq, faults>>
        /\ \/ spc' = "done" /\ UNCHANGED <<ready, needResync>> /\ spc \in StopSeen
           \/ spc = "store" /\ spc' = "clearResync" /\ ~ready'
           \/ spc = "clearResync" /\ spc' = "setReady" /\ ~ready'
           \/ spc = "setReady" /\ spc' = "follow" /\ snapSeq # 0
    BY <1>13 DEF SyncStops, SyncStores, SyncClearResync, SyncReady, SyncGoes,
                 ExclusionInv, ServedInv, HeldOnce, SnapshotHeld
  <2>2. Queued' = Queued
    BY <2>1 DEF Queued
  <2>. QED  BY <2>1, <2>2, LossFrame DEF Serving, Loading, InService, StopSeen
(* A type is skipped: the load goes on.                                    *)
<1>14. CASE SyncSkip
  <2>1. /\ UNCHANGED <<pos, conn, attached, ready, needResync, batch, applyQueue,
                       snapSeq, builder, currentSeq>>
        /\ spc = "load" /\ spc' = "load"
        /\ \A k \in {"meta", "throw"} : faults'[k] = faults[k]
    BY <1>14 DEF SyncSkip, SyncGoes, Fault, TypeOK, FaultKind
  <2>2. Queued' = Queued
    BY <2>1 DEF Queued
  <2>. QED  BY <2>1, <2>2, LossFrame DEF Serving, Loading, InService
<1>. QED
  BY <1>1, <1>2, <1>3, <1>4, <1>5, <1>6, <1>7, <1>8, <1>9, <1>10, <1>11, <1>12,
     <1>13, <1>14 DEF Next, NodeNext, ApplyNext, SyncNext

(* No transaction is lost silently: while the engine serves and plans no   *)
(* new snapshot, only transactions of the snapshot's own ledger, or of an  *)
(* object whose type the snapshot was refused, can be missing, whatever    *)
(* broke, overflowed or was left out before.                               *)
THEOREM NothingLostSilently == Spec => []LossConfined
<1>1. Init => QueueInv /\ ConnInv /\ LossInv /\ ExclusionInv /\ ServedInv
  BY EmptyElements DEF Init, QueueInv, ConnInv, LossInv, ExclusionInv, ServedInv,
       ReadyPlace, LedgerOfSnapshot, HeldOnce, SomeView, WholeView, AtSnapshot,
       LoadIsExclusive, Queued, Serving, Loading, InService
<1>2. TypeOK /\ TypeOK' /\ QueueInv /\ ConnInv /\ LossInv /\ ExclusionInv /\ ServedInv
        /\ [Next]_vars
      => QueueInv' /\ ConnInv' /\ LossInv' /\ ExclusionInv' /\ ServedInv'
  BY QueueStep, ConnStep, LossStep, ExclusionStep, ServedStep
<1>3. TypeOK /\ ExclusionInv /\ LossInv => LossConfined
  BY LossFromInv
<1>. QED  BY <1>1, <1>2, <1>3, TypeCorrect, PTL DEF Spec
===============================================================================
