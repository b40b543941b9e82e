---------------------------- MODULE LedgerBuilder ----------------------------
(***************************************************************************)
(* LedgerBuilder and MemoryLedger (src/src/edgy/memory_ledger.cpp): a base *)
(* map that is frozen by the first publish, an overlay map over it, and    *)
(* views that share both with the builder through reference counts.        *)
(*                                                                         *)
(* bases and overlays are the heap: what each allocated map holds.  The    *)
(* builder and every view hold references into it, so a write through one  *)
(* reference is seen through every other, unless cowOverlay copied first.  *)
(* An overlay maps a key to an object, to Absent (a tombstone: deleted     *)
(* since the snapshot) or to Unset (the base decides).                     *)
(***************************************************************************)
EXTENDS Integers, FiniteSets

CONSTANTS Key, FeeKey, Val, Absent, Slot, NoView, Seqs, NoFees,
  Unset,    \* a key the overlay does not mention
  BaseId,   \* addresses of base maps
  OvlId     \* addresses of overlay maps

ASSUME BuilderAssumption ==
  /\ Key \subseteq Nat \ {0} /\ IsFiniteSet(Key) /\ FeeKey \in Key
  /\ Absent \notin Val /\ Unset \notin Val \cup {Absent}
  /\ NoFees \notin Val
  /\ NoView \notin [base : BaseId, overlay : OvlId,
                    header : [seq : Seqs, open : BOOLEAN],
                    fees : Val \cup {NoFees}]
  /\ BaseId # {} /\ OvlId # {} /\ Seqs # {}

VARIABLES
  bases, overlays,  \* the heap
  base, overlay,    \* base_ and overlay_ of the builder
  frozen, header, fees,
  views             \* the views that are held

heap == <<bases, overlays>>
vars == <<bases, overlays, base, overlay, frozen, header, fees, views>>

Header == [seq : Seqs, open : BOOLEAN]
ViewRec == [base : BaseId, overlay : OvlId, header : Header,
            fees : Val \cup {NoFees}]
NoObjects == [k \in Key |-> Absent]
NoChanges == [k \in Key |-> Unset]

Held(s) == views[s] # NoView

(* A base or an overlay somebody still points to. *)
BaseInUse(b) == b = base \/ \E s \in Slot : Held(s) /\ views[s].base = b
OvlInUse(o) == o = overlay \/ \E s \in Slot : Held(s) /\ views[s].overlay = o

(* overlay_.use_count() > 1: a view holds the builder's overlay. *)
Shared == \E s \in Slot : Held(s) /\ views[s].overlay = overlay

-----------------------------------------------------------------------------
(* Reading (MemoryLedger). *)

(* The overlay's word is final, even when it says the object is gone. *)
Find(b, o, k) == IF overlays[o][k] # Unset THEN overlays[o][k] ELSE bases[b][k]

Content(b, o) == [k \in Key |-> Find(b, o, k)]
Live(b, o) == {k \in Key : Find(b, o, k) # Absent}

InBase(b, k) == bases[b][k] # Absent

(* size(): the base, corrected by what the overlay adds and removes. *)
Size(b, o) ==
  Cardinality({k \in Key : InBase(b, k)})
    + Cardinality({k \in Key : overlays[o][k] \in Val /\ ~InBase(b, k)})
    - Cardinality({k \in Key : overlays[o][k] = Absent /\ InBase(b, k)})

None == -1
Least(S) == CHOOSE k \in S : \A j \in S : k <= j

(* Slip: the base key is not stepped over together with its tombstone. *)
SuccSeesErased(b, o, key, last) ==
  LET S == {k \in Key : /\ k > key /\ (last = None \/ k < last)
                        /\ InBase(b, k) \/ overlays[o][k] \in Val}
  IN  IF S = {} THEN None ELSE Least(S)

(* succ(): the sorted keys of the base and the overlay are walked together *)
(* from key on; at a tie the overlay's entry counts and the base's is      *)
(* stepped over; a tombstone is skipped; the walk ends at last.            *)
Succ(b, o, key, last) ==
  LET walk[k \in Key \cup {key}] ==
        LET ahead == {j \in Key : j > k /\ (InBase(b, j) \/ overlays[o][j] # Unset)}
            cand  == Least(ahead)
        IN  IF ahead = {} THEN None
            ELSE IF last # None /\ cand >= last THEN None
            ELSE IF overlays[o][cand] = Absent THEN walk[cand]
            ELSE cand
  IN  walk[key]

-----------------------------------------------------------------------------
(* Writing (LedgerBuilder). *)

Init ==
  /\ base \in BaseId /\ overlay \in OvlId
  /\ bases = [b \in BaseId |-> NoObjects]
  /\ overlays = [o \in OvlId |-> NoChanges]
  /\ frozen = FALSE
  /\ header \in [seq : Seqs, open : {FALSE}]
  /\ fees = NoFees
  /\ views = [s \in Slot |-> NoView]

(* cowOverlay() and the write after it: in place when nobody else holds    *)
(* the overlay, else into a fresh copy.                                    *)
WriteInPlace(k, x) ==
  /\ overlays' = [overlays EXCEPT ![overlay][k] = x]
  /\ UNCHANGED overlay

WriteOverlay(k, x) ==
  IF Shared
  THEN \E o \in OvlId :
         /\ ~OvlInUse(o)
         /\ overlays' = [overlays EXCEPT ![o] = [overlays[overlay] EXCEPT ![k] = x]]
         /\ overlay' = o
  ELSE WriteInPlace(k, x)

(* put() and erase(): the base until it is frozen, then the overlay. *)
Write(k, x) ==
  /\ IF frozen
     THEN WriteOverlay(k, x) /\ UNCHANGED bases
     ELSE bases' = [bases EXCEPT ![base][k] = x] /\ UNCHANGED <<overlays, overlay>>
  /\ UNCHANGED <<base, frozen, header, fees, views>>

Upsert(k, v) == Write(k, v)

Erase(k) == Write(k, Absent)

Clear ==
  /\ \E b \in BaseId, o \in OvlId :
       /\ ~BaseInUse(b) /\ ~OvlInUse(o)
       /\ bases' = [bases EXCEPT ![b] = NoObjects]
       /\ overlays' = [overlays EXCEPT ![o] = NoChanges]
       /\ base' = b /\ overlay' = o
  /\ frozen' = FALSE
  /\ header' = [header EXCEPT !.open = FALSE]
  /\ UNCHANGED <<fees, views>>

SetHeader(seq) ==
  /\ header' = [header EXCEPT !.seq = seq]
  /\ UNCHANGED <<heap, base, overlay, frozen, fees, views>>

SetOpen(b) ==
  /\ header' = [header EXCEPT !.open = b]
  /\ UNCHANGED <<heap, base, overlay, frozen, fees, views>>

(* applyFeeAndRules(): a first view is built to read the fee object from,  *)
(* and the one handed out is built again with what was found.              *)
FeesRead ==
  IF Find(base, overlay, FeeKey) # Absent THEN Find(base, overlay, FeeKey) ELSE fees

(* Slip: the base stays writable after a view was made of it. *)
NeverFreeze == UNCHANGED frozen

FreezeBase == frozen' = TRUE

Publish(s) ==
  /\ FreezeBase
  /\ fees' = FeesRead
  /\ views' = [views EXCEPT ![s] =
                 [base |-> base, overlay |-> overlay, header |-> header, fees |-> fees']]
  /\ UNCHANGED <<heap, base, overlay, header>>

(* The last holder lets go of a view: a worker, a session, the cache. *)
Release(s) ==
  /\ Held(s)
  /\ views' = [views EXCEPT ![s] = NoView]
  /\ UNCHANGED <<heap, base, overlay, frozen, header, fees>>

Next ==
  \/ \E k \in Key : Erase(k) \/ \E v \in Val : Upsert(k, v)
  \/ Clear
  \/ \E q \in Seqs : SetHeader(q)
  \/ \E b \in BOOLEAN : SetOpen(b)
  \/ \E s \in Slot : Publish(s) \/ Release(s)

Spec == Init /\ [][Next]_vars

-----------------------------------------------------------------------------
(* Properties. *)

(* Every reference points into the heap and every map holds objects. *)
TypeOK ==
  /\ bases \in [BaseId -> [Key -> Val \cup {Absent}]]
  /\ overlays \in [OvlId -> [Key -> Val \cup {Absent, Unset}]]
  /\ base \in BaseId /\ overlay \in OvlId
  /\ frozen \in BOOLEAN /\ header \in Header
  /\ fees \in Val \cup {NoFees}
  /\ views \in [Slot -> ViewRec \cup {NoView}]

(* The references keep their types and, until it is frozen, the base is    *)
(* the builder's alone and the overlay over it is empty: writing it in     *)
(* place disturbs no view.                                                 *)
UnfrozenIsPrivate ==
  /\ TypeOK
  /\ ~frozen => /\ overlays[overlay] = NoChanges
                /\ \A s \in Slot : Held(s) => views[s].base # base

(* succ() returns the least live key after key and before last, if any:    *)
(* walking a view with it from zero on visits every object a read finds    *)
(* and no other, as many as size() says there are.                         *)
SuccIsNext ==
  \A s \in Slot : Held(s) =>
    /\ Size(views[s].base, views[s].overlay)
         = Cardinality(Live(views[s].base, views[s].overlay))
    /\ \A key \in Key \cup {0}, last \in Key \cup {None} :
         LET b == views[s].base
             o == views[s].overlay
             S == {k \in Live(b, o) : k > key /\ (last = None \/ k < last)}
         IN  Succ(b, o, key, last) = IF S = {} THEN None ELSE Least(S)

(* What a reader of the abstract ledger sees. *)
ViewContent(s) ==
  IF Held(s)
  THEN [map |-> Content(views[s].base, views[s].overlay),
        header |-> views[s].header, fees |-> views[s].fees]
  ELSE NoView

Ledger == INSTANCE LedgerSnapshots WITH
  current <- Content(base, overlay), views <- [s \in Slot |-> ViewContent(s)]

(* The builder with its shared maps implements one ledger with immutable   *)
(* views: no write, clear or release changes what a held view contains.    *)
ImplementsLedger == Ledger!Spec
=============================================================================
