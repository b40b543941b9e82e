---------------------------- MODULE LedgerProofs ----------------------------
(***************************************************************************)
(* Proofs about what the engine keeps of the ledger, for any keys,         *)
(* contents, holders, heap, assets, directories, pools, accounts, sessions *)
(* and limits.  LedgerBuilder: its types, the privacy of an unfrozen base, *)
(* that it implements one ledger with immutable views, and that a walk     *)
(* visits what a read finds.  OrderBooks: that its indexes agree and that  *)
(* they follow the ledger.  AssetCache: that the lines and the pins are    *)
(* counted, and that nobody sees a vector change.                          *)
(***************************************************************************)
EXTENDS LedgerBuilder, OrderBooks, AssetCache, SharedLemmas, FiniteSetTheorems

(* Writing a key leaves every reference, every view and the types alone.   *)
LEMMA WriteType ==
  ASSUME TypeOK, NEW k \in Key, NEW x \in Val \cup {Absent}, Write(k, x)
  PROVE  TypeOK'
<1>1. /\ UNCHANGED <<base, frozen, header, fees, views>>
      /\ bases \in [BaseId -> [Key -> Val \cup {Absent}]]
      /\ overlays \in [OvlId -> [Key -> Val \cup {Absent, Unset}]]
      /\ base \in BaseId /\ overlay \in OvlId
  BY DEF Write, TypeOK
<1>2. /\ [bases[base] EXCEPT ![k] = x] \in [Key -> Val \cup {Absent}]
      /\ [overlays[overlay] EXCEPT ![k] = x] \in [Key -> Val \cup {Absent, Unset}]
  BY <1>1
<1>3. /\ bases' \in [BaseId -> [Key -> Val \cup {Absent}]]
      /\ overlays' \in [OvlId -> [Key -> Val \cup {Absent, Unset}]]
      /\ overlay' \in OvlId
  <2>1. CASE ~frozen
    BY <1>1, <1>2, <2>1 DEF Write
  <2>2. CASE frozen /\ ~Shared
    BY <1>1, <1>2, <2>2 DEF Write, WriteOverlay, WriteInPlace
  <2>3. CASE frozen /\ Shared
    BY <1>1, <1>2, <2>3 DEF Write, WriteOverlay
  <2>. QED  BY <2>1, <2>2, <2>3
<1>. QED  BY <1>1, <1>3 DEF TypeOK

(* Every reference points into the heap and every map holds objects: the   *)
(* type invariant of the builder and its views.                            *)
THEOREM TypeCorrect == Spec => []TypeOK
<1>. USE BuilderAssumption DEF TypeOK
<1>1. Init => TypeOK
  <2>. SUFFICES ASSUME Init PROVE TypeOK
    OBVIOUS
  <2>1. /\ NoObjects \in [Key -> Val \cup {Absent}]
        /\ NoChanges \in [Key -> Val \cup {Absent, Unset}]
    BY DEF NoObjects, NoChanges
  <2>2. /\ bases \in [BaseId -> [Key -> Val \cup {Absent}]]
        /\ overlays \in [OvlId -> [Key -> Val \cup {Absent, Unset}]]
    BY <2>1 DEF Init
  <2>3. header \in Header
    BY DEF Init, Header
  <2>4. views \in [Slot -> ViewRec \cup {NoView}]
    BY DEF Init
  <2>. QED  BY <2>2, <2>3, <2>4 DEF Init
<1>2. TypeOK /\ [Next]_vars => TypeOK'
  <2>. SUFFICES ASSUME TypeOK, [Next]_vars PROVE TypeOK'
    OBVIOUS
  <2>1. ASSUME NEW k \in Key, Erase(k) PROVE TypeOK'
    BY <2>1, WriteType DEF Erase
  <2>2. ASSUME NEW k \in Key, NEW v \in Val, Upsert(k, v) PROVE TypeOK'
    BY <2>2, WriteType DEF Upsert
  <2>3. CASE Clear
    <3>1. /\ NoObjects \in [Key -> Val \cup {Absent}]
          /\ NoChanges \in [Key -> Val \cup {Absent, Unset}]
      BY DEF NoObjects, NoChanges
    <3>2. /\ bases' \in [BaseId -> [Key -> Val \cup {Absent}]]
          /\ overlays' \in [OvlId -> [Key -> Val \cup {Absent, Unset}]]
          /\ base' \in BaseId /\ overlay' \in OvlId
      BY <2>3, <3>1 DEF Clear
    <3>3. header' \in Header
      BY <2>3 DEF Clear, Header
    <3>. QED  BY <2>3, <3>2, <3>3 DEF Clear
  <2>4. ASSUME NEW q \in Seqs, SetHeader(q) PROVE TypeOK'
    BY <2>4 DEF SetHeader, Header, heap
  <2>5. ASSUME NEW b \in BOOLEAN, SetOpen(b) PROVE TypeOK'
    BY <2>5 DEF SetOpen, Header, heap
  <2>6. ASSUME NEW s \in Slot, Publish(s) PROVE TypeOK'
    <3>1. fees' \in Val \cup {NoFees}
      BY <2>6 DEF Publish, FeesRead, Find
    <3>2. [base |-> base, overlay |-> overlay, header |-> header, fees |-> fees']
            \in ViewRec
      BY <3>1 DEF ViewRec
    <3>. QED  BY <2>6, <3>1, <3>2 DEF Publish, FreezeBase, heap
  <2>7. ASSUME NEW s \in Slot, Release(s) PROVE TypeOK'
    BY <2>7 DEF Release, heap
  <2>8. CASE UNCHANGED vars
    BY <2>8 DEF vars
  <2>. QED  BY <2>1, <2>2, <2>3, <2>4, <2>5, <2>6, <2>7, <2>8 DEF Next
<1>. QED  BY <1>1, <1>2, PTL DEF Spec

-----------------------------------------------------------------------------
(* Privacy of the unfrozen base. *)

(* Only clear() makes the base writable again, and it takes new maps;      *)
(* a publish, which shares the maps, freezes it in the same step.          *)
BaseIsPrivate ==
  ~frozen => /\ overlays[overlay] = NoChanges
             /\ \A s \in Slot : Held(s) => views[s].base # base

LEMMA BasePrivate == Spec => []BaseIsPrivate
<1>. USE BuilderAssumption
<1>1. Init => BaseIsPrivate
  BY DEF Init, BaseIsPrivate, Held
<1>2. TypeOK /\ BaseIsPrivate /\ [Next]_vars => BaseIsPrivate'
  <2>. SUFFICES ASSUME TypeOK, BaseIsPrivate, [Next]_vars
                PROVE  BaseIsPrivate'
    OBVIOUS
  <2>. USE DEF BaseIsPrivate, Held
  <2>1. ASSUME NEW k \in Key, NEW x, Write(k, x) PROVE BaseIsPrivate'
    BY <2>1 DEF Write
  <2>2. CASE Clear
    <3>1. PICK b \in BaseId, o \in OvlId :
            /\ ~BaseInUse(b) /\ base' = b
            /\ overlays' = [overlays EXCEPT ![o] = NoChanges] /\ overlay' = o
            /\ UNCHANGED views
      BY <2>2 DEF Clear
    <3>2. overlays'[overlay'] = NoChanges'
      BY <3>1 DEF TypeOK, NoChanges
    <3>3. \A s \in Slot : views'[s] # NoView => views'[s].base # base'
      BY <3>1 DEF BaseInUse
    <3>. QED  BY <3>2, <3>3
  <2>3. ASSUME NEW q \in Seqs, SetHeader(q) PROVE BaseIsPrivate'
    BY <2>3 DEF SetHeader, heap, NoChanges
  <2>4. ASSUME NEW b \in BOOLEAN, SetOpen(b) PROVE BaseIsPrivate'
    BY <2>4 DEF SetOpen, heap, NoChanges
  <2>5. ASSUME NEW s \in Slot, Publish(s) PROVE BaseIsPrivate'
    BY <2>5 DEF Publish, FreezeBase
  <2>6. ASSUME NEW s \in Slot, Release(s) PROVE BaseIsPrivate'
    BY <2>6 DEF Release, heap, NoChanges, TypeOK
  <2>7. CASE UNCHANGED vars
    BY <2>7 DEF vars, heap, NoChanges
  <2>. QED
    BY <2>1, <2>2, <2>3, <2>4, <2>5, <2>6, <2>7 DEF Next, Erase, Upsert
<1>. QED  BY <1>1, <1>2, TypeCorrect, PTL DEF Spec

(* UnfrozenIsPrivate: every reference points into the heap, and a base     *)
(* that is still written in place is referred to by no published view.     *)
THEOREM PrivateUntilFrozen == Spec => []UnfrozenIsPrivate
<1>1. TypeOK /\ BaseIsPrivate => UnfrozenIsPrivate
  BY DEF BaseIsPrivate, UnfrozenIsPrivate
<1>. QED  BY <1>1, TypeCorrect, BasePrivate, PTL

-----------------------------------------------------------------------------
(* The refinement. *)

AbsContent == Content(base, overlay)
AbsViews == [s \in Slot |-> ViewContent(s)]

(* A step that leaves every held view and the maps under it alone leaves   *)
(* the abstract views alone.                                               *)
LEMMA ViewsKept ==
  ASSUME UNCHANGED views,
         \A s \in Slot : Held(s) =>
           /\ bases'[views[s].base] = bases[views[s].base]
           /\ overlays'[views[s].overlay] = overlays[views[s].overlay]
  PROVE  AbsViews' = AbsViews
<1>1. ASSUME NEW s \in Slot PROVE ViewContent(s)' = ViewContent(s)
  BY <1>1 DEF ViewContent, Held, Content, Find
<1>. QED  BY <1>1 DEF AbsViews

(* A write changes the builder's content at its key and no view: into a    *)
(* private base, a private overlay, or a copy at an address nobody holds.  *)
LEMMA WriteRefines ==
  ASSUME BuilderAssumption, TypeOK, BaseIsPrivate,
         NEW k \in Key, NEW x \in Val \cup {Absent}, Write(k, x)
  PROVE  /\ AbsContent' = [AbsContent EXCEPT ![k] = x]
         /\ AbsViews' = AbsViews
         /\ UNCHANGED <<header, fees>>
<1>. x # Unset
  BY DEF BuilderAssumption
<1>1. /\ UNCHANGED <<base, frozen, header, fees, views>>
      /\ bases \in [BaseId -> [Key -> Val \cup {Absent}]]
      /\ overlays \in [OvlId -> [Key -> Val \cup {Absent, Unset}]]
      /\ base \in BaseId /\ overlay \in OvlId
      /\ \A s \in Slot : Held(s) => /\ views[s].base \in BaseId
                                    /\ views[s].overlay \in OvlId
  BY DEF Write, TypeOK, Held, ViewRec
<1>. SUFFICES /\ \A j \in Key : Find(base, overlay, j)'
                                  = IF j = k THEN x ELSE Find(base, overlay, j)
              /\ \A s \in Slot : Held(s) =>
                   /\ bases'[views[s].base] = bases[views[s].base]
                   /\ overlays'[views[s].overlay] = overlays[views[s].overlay]
  <2>1. AbsViews' = AbsViews
    BY <1>1, ViewsKept
  <2>2. AbsContent' = [AbsContent EXCEPT ![k] = x]
    BY <1>1 DEF AbsContent, Content
  <2>. QED  BY <1>1, <2>1, <2>2
<1>2. CASE ~frozen
  <2>1. /\ bases' = [bases EXCEPT ![base][k] = x]
        /\ overlays' = overlays /\ overlay' = overlay /\ base' = base
    BY <1>1, <1>2 DEF Write
  <2>2. \A j \in Key : overlays[overlay][j] = Unset
    BY <1>2 DEF BaseIsPrivate, NoChanges
  <2>3. \A s \in Slot : Held(s) => views[s].base # base
    BY <1>2 DEF BaseIsPrivate
  <2>. QED  BY <1>1, <2>1, <2>2, <2>3 DEF Find
<1>3. CASE frozen /\ ~Shared
  <2>1. /\ overlays' = [overlays EXCEPT ![overlay][k] = x]
        /\ bases' = bases /\ overlay' = overlay /\ base' = base
    BY <1>1, <1>3 DEF Write, WriteOverlay, WriteInPlace
  <2>2. \A s \in Slot : Held(s) => views[s].overlay # overlay
    BY <1>3 DEF Shared
  <2>. QED  BY <1>1, <2>1, <2>2 DEF Find
<1>4. CASE frozen /\ Shared
  <2>1. PICK o \in OvlId :
          /\ ~OvlInUse(o)
          /\ overlays' = [overlays EXCEPT ![o] = [overlays[overlay] EXCEPT ![k] = x]]
          /\ overlay' = o /\ bases' = bases /\ base' = base
    BY <1>1, <1>4 DEF Write, WriteOverlay
  <2>2. \A s \in Slot : Held(s) => views[s].overlay # o
    BY <2>1 DEF OvlInUse
  <2>. QED  BY <1>1, <2>1, <2>2 DEF Find
<1>. QED  BY <1>2, <1>3, <1>4

(* A publish freezes what the builder holds as the view of its holder; it  *)
(* copies nothing and moves no other view.                                 *)
LEMMA PublishRefines ==
  ASSUME BuilderAssumption, TypeOK, NEW s \in Slot, Publish(s)
  PROVE  /\ AbsContent' = AbsContent
         /\ fees' = IF AbsContent[FeeKey] # Absent THEN AbsContent[FeeKey] ELSE fees
         /\ AbsViews' = [AbsViews EXCEPT ![s] =
              [map |-> AbsContent, header |-> header, fees |-> fees']]
         /\ UNCHANGED header
<1>1. /\ UNCHANGED <<heap, base, overlay, header>>
      /\ fees' = FeesRead
      /\ views' = [views EXCEPT ![s] =
           [base |-> base, overlay |-> overlay, header |-> header, fees |-> fees']]
  BY DEF Publish
<1>2. AbsContent' = AbsContent
  BY <1>1 DEF AbsContent, Content, Find, heap
<1>3. fees' = IF AbsContent[FeeKey] # Absent THEN AbsContent[FeeKey] ELSE fees
  BY <1>1 DEF FeesRead, AbsContent, Content, BuilderAssumption
<1>4. [base |-> base, overlay |-> overlay, header |-> header, fees |-> fees'] # NoView
  <2>1. fees' \in Val \cup {NoFees}
    BY <1>1 DEF FeesRead, Find, TypeOK, BuilderAssumption
  <2>. QED  BY <2>1 DEF BuilderAssumption, TypeOK, Header
<1>5. ViewContent(s)' = [map |-> AbsContent, header |-> header, fees |-> fees']
  BY <1>1, <1>4 DEF ViewContent, Held, TypeOK, AbsContent, Content, Find, heap
<1>6. ASSUME NEW t \in Slot, t # s PROVE ViewContent(t)' = ViewContent(t)
  BY <1>1, <1>6 DEF ViewContent, Held, TypeOK, Content, Find, heap
<1>7. AbsViews' = [AbsViews EXCEPT ![s] =
        [map |-> AbsContent, header |-> header, fees |-> fees']]
  BY <1>5, <1>6 DEF AbsViews
<1>. QED  BY <1>1, <1>2, <1>3, <1>7

(* clear() takes new maps, so that whoever reads an old view goes on       *)
(* reading the old ones.                                                   *)
LEMMA ClearRefines ==
  ASSUME BuilderAssumption, TypeOK, Clear
  PROVE  /\ AbsContent' = [k \in Key |-> Absent]
         /\ AbsViews' = AbsViews
<1>1. PICK b \in BaseId, o \in OvlId :
        /\ ~BaseInUse(b) /\ ~OvlInUse(o)
        /\ bases' = [bases EXCEPT ![b] = NoObjects]
        /\ overlays' = [overlays EXCEPT ![o] = NoChanges]
        /\ base' = b /\ overlay' = o
  BY DEF Clear
<1>2. \A k \in Key : Find(base, overlay, k)' = Absent
  BY <1>1 DEF Find, NoObjects, NoChanges, TypeOK, BuilderAssumption
<1>3. \A s \in Slot : Held(s) => /\ bases'[views[s].base] = bases[views[s].base]
                                 /\ overlays'[views[s].overlay]
                                      = overlays[views[s].overlay]
  BY <1>1 DEF BaseInUse, OvlInUse, TypeOK, Held, ViewRec
<1>4. UNCHANGED views
  BY DEF Clear
<1>. QED  BY <1>2, <1>3, <1>4, ViewsKept DEF AbsContent, Content

(* The builder with its shared, reference-counted maps implements one      *)
(* ledger with immutable views: writes, clears, publishes and releases in  *)
(* any order never change what a reader of a held view finds.              *)
THEOREM ViewsAreImmutable == Spec => ImplementsLedger
<1>. USE BuilderAssumption
<1>. DEFINE Inv == TypeOK /\ BaseIsPrivate
<1>1. Init => Ledger!Init
  <2>. SUFFICES ASSUME Init PROVE Ledger!Init
    OBVIOUS
  <2>1. Content(base, overlay) = [k \in Key |-> Absent]
    BY DEF Init, Content, Find, NoObjects, NoChanges
  <2>2. \A s \in Slot : ViewContent(s) = NoView
    BY DEF Init, ViewContent, Held
  <2>. QED  BY <2>1, <2>2 DEF Init, Ledger!Init, Ledger!Empty
<1>2. Inv /\ [Next]_vars => [Ledger!Next]_(Ledger!vars)
  <2>. SUFFICES ASSUME TypeOK, BaseIsPrivate, [Next]_vars
                PROVE  Ledger!Next \/ UNCHANGED Ledger!vars
    OBVIOUS
  <2>1. ASSUME NEW k \in Key, Erase(k) PROVE Ledger!Erase(k)
    BY <2>1, WriteRefines DEF Erase, Ledger!Erase, AbsContent, AbsViews
  <2>2. ASSUME NEW k \in Key, NEW v \in Val, Upsert(k, v) PROVE Ledger!Upsert(k, v)
    BY <2>2, WriteRefines DEF Upsert, Ledger!Upsert, AbsContent, AbsViews
  <2>3. CASE Clear
    <3>1. header' = [header EXCEPT !.open = FALSE] /\ UNCHANGED fees
      BY <2>3 DEF Clear
    <3>2. Ledger!Clear
      BY <2>3, <3>1, ClearRefines
      DEF Ledger!Clear, Ledger!Empty, AbsContent, AbsViews
    <3>. QED  BY <3>2 DEF Ledger!Next
  <2>4. ASSUME NEW q \in Seqs, SetHeader(q) PROVE Ledger!SetHeader(q)
    BY <2>4, ViewsKept
    DEF SetHeader, Ledger!SetHeader, heap, AbsViews, Content, Find
  <2>5. ASSUME NEW b \in BOOLEAN, SetOpen(b) PROVE Ledger!SetOpen(b)
    BY <2>5, ViewsKept
    DEF SetOpen, Ledger!SetOpen, heap, AbsViews, Content, Find
  <2>6. ASSUME NEW s \in Slot, Publish(s) PROVE Ledger!Publish(s)
    BY <2>6, PublishRefines DEF Ledger!Publish, AbsContent, AbsViews
  <2>7. ASSUME NEW s \in Slot, Release(s) PROVE Ledger!Release(s)
    <3>1. Content(base, overlay)' = Content(base, overlay)
      BY <2>7 DEF Release, heap, Content, Find
    <3>2. \A t \in Slot : ViewContent(t)' = IF t = s THEN NoView ELSE ViewContent(t)
      BY <2>7 DEF Release, heap, ViewContent, Held, Content, Find, TypeOK
    <3>. QED  BY <2>7, <3>1, <3>2 DEF Release, Ledger!Release
  <2>8. CASE UNCHANGED vars
    <3>1. Content(base, overlay)' = Content(base, overlay) /\ AbsViews' = AbsViews
      BY <2>8, ViewsKept DEF vars, heap, Content, Find
    <3>. QED  BY <2>8, <3>1 DEF vars, Ledger!vars, AbsViews
  <2>. QED
    BY <2>1, <2>2, <2>3, <2>4, <2>5, <2>6, <2>7, <2>8 DEF Next, Ledger!Next
<1>3. Spec => []Inv
  BY TypeCorrect, BasePrivate, PTL
<1>. QED  BY <1>1, <1>2, <1>3, PTL DEF Spec, ImplementsLedger, Ledger!Spec

-----------------------------------------------------------------------------
(* Walking a view.  The walk goes up through the keys the base or the      *)
(* overlay has; what it should return from a key on is Following.          *)

Ahead(b, o, k) == {j \in Key : j > k /\ (InBase(b, j) \/ overlays[o][j] # Unset)}

Coming(b, o, k, last) == {j \in Live(b, o) : j > k /\ (last = None \/ j < last)}

Following(b, o, k, last) ==
  IF Coming(b, o, k, last) = {} THEN None ELSE Least(Coming(b, o, k, last))

StepFrom(b, o, last, w, k) ==
  IF Ahead(b, o, k) = {} THEN None
  ELSE IF last # None /\ Least(Ahead(b, o, k)) >= last THEN None
  ELSE IF overlays[o][Least(Ahead(b, o, k))] = Absent THEN w[Least(Ahead(b, o, k))]
  ELSE Least(Ahead(b, o, k))

IsWalk(w, b, o, key, last) == w = [k \in Key \cup {key} |-> StepFrom(b, o, last, w, k)]

LEMMA SuccWalks ==
  ASSUME NEW b, NEW o, NEW key, NEW last
  PROVE  Succ(b, o, key, last) = (CHOOSE w : IsWalk(w, b, o, key, last))[key]
BY DEF Succ, IsWalk, StepFrom, Ahead

LEMMA LeastIn ==
  ASSUME NEW S \in SUBSET Nat, S # {}
  PROVE  Least(S) \in S /\ \A j \in S : Least(S) <= j
<1>1. \E x \in S : \A y \in S : x <= y
  BY LeastNumber
<1>. QED  BY <1>1 DEF Least

LEMMA LeastIs ==
  ASSUME NEW S \in SUBSET Nat, NEW x \in S, \A y \in S : x <= y
  PROVE  Least(S) = x
<1>1. Least(S) \in S /\ \A j \in S : Least(S) <= j
  BY LeastIn
<1>2. Least(S) <= x /\ x <= Least(S) /\ Least(S) \in Nat /\ x \in Nat
  BY <1>1
<1>. QED  BY <1>2

(* One step of the walk is right if the steps after it are: a tombstone is *)
(* not live, and there is nothing live before the least key ahead.         *)
LEMMA StepIsRight ==
  ASSUME NEW b, NEW o, NEW k \in Nat, NEW last \in Key \cup {None}, NEW w,
         \A j \in Ahead(b, o, k) : w[j] = Following(b, o, j, last)
  PROVE  StepFrom(b, o, last, w, k) = Following(b, o, k, last)
<1>. DEFINE A == Ahead(b, o, k)
            c == Least(A)
<1>1. /\ Key \subseteq Nat /\ Unset # Absent /\ A \subseteq Key
      /\ A \in SUBSET Nat /\ Live(b, o) \subseteq Key
      /\ Coming(b, o, k, last) \in SUBSET Nat /\ (last = None \/ last \in Nat)
  BY BuilderAssumption DEF Ahead, Live, Coming
<1>2. Live(b, o) \cap {j \in Key : j > k} \subseteq A
  BY DEF Live, Find, InBase, Ahead
<1>3. CASE A = {}
  <2>1. Coming(b, o, k, last) = {}
    BY <1>1, <1>2, <1>3 DEF Coming
  <2>. QED  BY <1>3, <2>1 DEF StepFrom, Following
<1>4. CASE A # {}
  <2>1. c \in A /\ c \in Key /\ c \in Nat /\ c > k /\ \A j \in A : c <= j
    <3>1. c \in A /\ \A j \in A : c <= j
      BY <1>1, <1>4, LeastIn
    <3>. QED  BY <1>1, <3>1 DEF Ahead
  <2>. HIDE DEF c
  <2>2. \A j \in Live(b, o) : j > k => c <= j
    BY <1>1, <1>2, <2>1
  <2>3. CASE last # None /\ c >= last
    <3>1. ASSUME NEW j \in Coming(b, o, k, last) PROVE FALSE
      <4>1. j \in Live(b, o) /\ j > k /\ j < last
        BY <2>3 DEF Coming
      <4>2. j \in Nat /\ last \in Nat /\ c <= j
        BY <1>1, <2>2, <2>3, <4>1
      <4>. QED  BY <2>1, <2>3, <4>1, <4>2
    <3>2. StepFrom(b, o, last, w, k) = None
      BY <1>4, <2>3 DEF StepFrom, c
    <3>. QED  BY <3>1, <3>2 DEF Following
  <2>4. CASE ~(last # None /\ c >= last) /\ overlays[o][c] = Absent
    <3>1. StepFrom(b, o, last, w, k) = w[c]
      BY <1>4, <2>4 DEF StepFrom, c
    <3>2. c \notin Live(b, o)
      BY <1>1, <2>4 DEF Live, Find
    <3>3. \A j \in Live(b, o) : j \in Nat /\ (j > k <=> j > c)
      <4>. SUFFICES ASSUME NEW j \in Live(b, o) PROVE j \in Nat /\ (j > k <=> j > c)
        OBVIOUS
      <4>1. j \in Nat /\ j # c /\ (j > k => c <= j)
        BY <1>1, <2>2, <3>2
      <4>. QED  BY <2>1, <4>1
    <3>4. Coming(b, o, k, last) = Coming(b, o, c, last)
      BY <3>3 DEF Coming
    <3>5. Following(b, o, k, last) = Following(b, o, c, last)
      BY <3>4 DEF Following
    <3>. QED  BY <2>1, <3>1, <3>5
  <2>5. CASE ~(last # None /\ c >= last) /\ overlays[o][c] # Absent
    <3>1. StepFrom(b, o, last, w, k) = c
      BY <1>4, <2>5 DEF StepFrom, c
    <3>2. c \in Live(b, o)
      BY <1>1, <2>1, <2>5 DEF Live, Find, InBase, Ahead
    <3>3. c \in Coming(b, o, k, last)
      BY <1>1, <2>1, <2>5, <3>2 DEF Coming
    <3>4. \A j \in Coming(b, o, k, last) : c <= j
      BY <2>2 DEF Coming
    <3>5. Least(Coming(b, o, k, last)) = c
      <4>. DEFINE S == Coming(b, o, k, last)
      <4>1. S \in SUBSET Nat
        <5>1. S \subseteq Key
          BY DEF Coming, Live
        <5>2. Key \subseteq Nat
          BY <1>1
        <5>. HIDE DEF S
        <5>. QED  BY <5>1, <5>2
      <4>2. c \in S
        BY <3>3
      <4>3. \A j \in S : c <= j
        BY <3>4
      <4>. HIDE DEF S
      <4>4. Least(S) = c
        BY <4>1, <4>2, <4>3, LeastIs
      <4>. QED  BY <4>4 DEF S
    <3>. QED  BY <3>1, <3>3, <3>5 DEF Following
  <2>. QED  BY <2>3, <2>4, <2>5
<1>. QED  BY <1>3, <1>4

(* There is a walk: the right one.  There is no other: of the keys where   *)
(* one goes wrong take one with the fewest ahead of it.                    *)
LEMMA WalksExist ==
  ASSUME NEW b, NEW o, NEW key \in Key \cup {0}, NEW last \in Key \cup {None}
  PROVE  \E w : IsWalk(w, b, o, key, last)
<1>. DEFINE f == [k \in Key \cup {key} |-> Following(b, o, k, last)]
<1>1. ASSUME NEW k \in Key \cup {key} PROVE f[k] = StepFrom(b, o, last, f, k)
  <2>1. k \in Nat
    BY BuilderAssumption
  <2>2. \A j \in Ahead(b, o, k) : f[j] = Following(b, o, j, last)
    BY DEF Ahead
  <2>. HIDE DEF f
  <2>3. StepFrom(b, o, last, f, k) = Following(b, o, k, last)
    BY <2>1, <2>2, StepIsRight
  <2>. QED  BY <2>3 DEF f
<1>2. f = [k \in Key \cup {key} |-> StepFrom(b, o, last, f, k)]
  BY <1>1
<1>. QED  BY <1>2 DEF IsWalk

LEMMA WalksAgree ==
  ASSUME NEW b, NEW o, NEW key \in Key \cup {0}, NEW last \in Key \cup {None},
         NEW w, IsWalk(w, b, o, key, last)
  PROVE  \A k \in Key \cup {key} : w[k] = Following(b, o, k, last)
<1>. DEFINE Wrong == {k \in Key \cup {key} : w[k] # Following(b, o, k, last)}
            R == StrictSubsetOrdering(Key)
<1>. SUFFICES ASSUME Wrong # {} PROVE FALSE
  OBVIOUS
<1>1. IsWellFoundedOn(R, FiniteSubsetsOf(Key))
  BY FS_StrictSubsetOrderingWellFounded
<1>2. \A k : Ahead(b, o, k) \in FiniteSubsetsOf(Key)
  <2>1. \A k : Ahead(b, o, k) \in SUBSET Key
    BY DEF Ahead
  <2>2. \A T \in SUBSET Key : IsFiniteSet(T)
    BY BuilderAssumption, FS_Subset
  <2>. QED  BY <2>1, <2>2 DEF FiniteSubsetsOf
<1>3. PICK k \in Wrong : \A j \in Wrong : ~(<<Ahead(b, o, j), Ahead(b, o, k)>> \in R)
  <2>. DEFINE T == {Ahead(b, o, j) : j \in Wrong}
  <2>1. T \subseteq FiniteSubsetsOf(Key) /\ T # {}
    BY <1>2
  <2>. HIDE DEF R
  <2>2. PICK x \in T : \A y \in T : ~(<<y, x>> \in R)
    BY <1>1, <2>1, WFMin
  <2>. QED  BY <2>2
<1>4. k \in Nat /\ k \in Key \cup {key}
  BY BuilderAssumption
<1>5. ASSUME NEW j \in Ahead(b, o, k) PROVE w[j] = Following(b, o, j, last)
  <2>1. j \in Key /\ j \in Nat /\ j > k
    BY BuilderAssumption DEF Ahead
  <2>2. Ahead(b, o, j) \subseteq Ahead(b, o, k)
    <3>1. \A i \in Key : i > j => i > k
      BY <1>4, <2>1, BuilderAssumption
    <3>. QED  BY <3>1 DEF Ahead
  <2>3. j \notin Ahead(b, o, j)
    BY <2>1 DEF Ahead
  <2>4. <<Ahead(b, o, j), Ahead(b, o, k)>> \in R
    BY <2>2, <2>3 DEF StrictSubsetOrdering, Ahead
  <2>. QED  BY <1>3, <2>1, <2>4
<1>6. StepFrom(b, o, last, w, k) = Following(b, o, k, last)
  BY <1>4, <1>5, StepIsRight
<1>7. w[k] = StepFrom(b, o, last, w, k)
  BY <1>4 DEF IsWalk
<1>. QED  BY <1>6, <1>7

LEMMA SuccFollows ==
  ASSUME NEW b, NEW o, NEW key \in Key \cup {0}, NEW last \in Key \cup {None}
  PROVE  Succ(b, o, key, last) = Following(b, o, key, last)
<1>. DEFINE w == CHOOSE w : IsWalk(w, b, o, key, last)
<1>1. IsWalk(w, b, o, key, last)
  BY WalksExist
<1>2. w[key] = Following(b, o, key, last)
  <2>. HIDE DEF w
  <2>. QED  BY <1>1, WalksAgree
<1>. QED  BY <1>2, SuccWalks

(* size(): what the overlay adds to the base and takes from it are apart.  *)
LEMMA SizeCounts ==
  ASSUME TypeOK, NEW b \in BaseId, NEW o \in OvlId
  PROVE  Size(b, o) = Cardinality(Live(b, o))
<1>. DEFINE Inside == {k \in Key : InBase(b, k)}
            Added == {k \in Key : overlays[o][k] \in Val /\ ~InBase(b, k)}
            Erased == {k \in Key : overlays[o][k] = Absent /\ InBase(b, k)}
<1>1. IsFiniteSet(Inside) /\ IsFiniteSet(Added) /\ IsFiniteSet(Erased)
  BY BuilderAssumption, FS_Subset
<1>2. Live(b, o) = (Inside \ Erased) \cup Added
  <2>1. ASSUME NEW k \in Key
        PROVE  Find(b, o, k) # Absent <=> (InBase(b, k) /\ overlays[o][k] # Absent)
                                          \/ (overlays[o][k] \in Val /\ ~InBase(b, k))
    <3>1. /\ overlays[o][k] \in Val \cup {Absent, Unset}
          /\ Absent \notin Val /\ Unset \notin Val /\ Unset # Absent
      BY BuilderAssumption DEF TypeOK
    <3>. QED  BY <3>1 DEF Find, InBase
  <2>. QED  BY <2>1 DEF Live
<1>3. Inside \cap Erased = Erased /\ (Inside \ Erased) \cap Added = {}
  OBVIOUS
<1>. HIDE DEF Inside, Added, Erased
<1>4. IsFiniteSet(Inside \ Erased) /\ Cardinality(Inside \ Erased) = Cardinality(Inside) - Cardinality(Erased)
  <2>1. /\ IsFiniteSet(Inside \ Erased)
        /\ Cardinality(Inside \ Erased) = Cardinality(Inside) - Cardinality(Inside \cap Erased)
    BY <1>1, FS_Difference
  <2>. QED  BY <1>3, <2>1
<1>5. Cardinality(Live(b, o)) = Cardinality(Inside \ Erased) + Cardinality(Added) - Cardinality({})
  BY <1>1, <1>2, <1>3, <1>4, FS_Union
<1>6. Cardinality({}) = 0
  BY FS_EmptySet
<1>7. Cardinality(Inside) \in Nat /\ Cardinality(Added) \in Nat /\ Cardinality(Erased) \in Nat
  BY <1>1, FS_CardinalityType
<1>8. Size(b, o) = Cardinality(Inside) + Cardinality(Added) - Cardinality(Erased)
  BY DEF Size, Inside, Added, Erased
<1>. QED  BY <1>4, <1>5, <1>6, <1>7, <1>8

(* SuccIsNext: whatever has been written, erased and published, a walk of  *)
(* a held view visits each object a read finds, once and in order, and     *)
(* size() says how many they are (MemoryLedger::succ and size).            *)
THEOREM WalkVisitsWhatIsThere == Spec => []SuccIsNext
<1>1. TypeOK => SuccIsNext
  <2>. SUFFICES ASSUME TypeOK, NEW s \in Slot, Held(s)
                PROVE  /\ Size(views[s].base, views[s].overlay)
                            = Cardinality(Live(views[s].base, views[s].overlay))
                       /\ \A key \in Key \cup {0}, last \in Key \cup {None} :
                            Succ(views[s].base, views[s].overlay, key, last)
                              = Following(views[s].base, views[s].overlay, key, last)
    BY DEF SuccIsNext, Following, Coming
  <2>1. views[s].base \in BaseId /\ views[s].overlay \in OvlId
    BY DEF TypeOK, Held, ViewRec
  <2>. QED  BY <2>1, SizeCounts, SuccFollows
<1>. QED  BY <1>1, TypeCorrect, PTL

-----------------------------------------------------------------------------
(* The order books, kept in step with the same ledger; the names of        *)
(* OrderBooks differ from LedgerBuilder's so that both fit here.  What     *)
(* AddBooks and RemoveBooks do to the indexes, pair by pair: a book is one *)
(* entry of each index it is in.                                           *)

Place(a, b, d) == [in |-> a, out |-> b, domain |-> d]

(* A book is where it is filed. *)
LEMMA BookParts ==
  ASSUME NEW B \in SUBSET Book
  PROVE  /\ \A b \in B : /\ b.in \in Asset /\ b.out \in Asset /\ b.domain \in Domain \cup {NoDomain}
                         /\ b = Place(b.in, b.out, b.domain)
         /\ \A a, b, d : /\ Place(a, b, d).in = a /\ Place(a, b, d).out = b
                         /\ Place(a, b, d).domain = d
BY DEF Book, Place

(* The entries of some books in each index are the entries of each. *)
LEMMA Filed ==
  ASSUME BookAssumption, NEW B \in SUBSET Book
  PROVE  /\ \A a, b : <<a, b>> \in Out(InOpen(B)) <=> Place(a, b, NoDomain) \in B
         /\ \A a, b : <<b, a>> \in In(InOpen(B)) <=> Place(a, b, NoDomain) \in B
         /\ \A a : a \in ToNative(InOpen(B)) <=> Place(a, Native, NoDomain) \in B
         /\ \A a, b, d : <<a, d, b>> \in DomOut(InDomain(B))
                           <=> Place(a, b, d) \in B /\ d # NoDomain
         /\ \A a, b, d : <<b, d, a>> \in DomIn(InDomain(B))
                           <=> Place(a, b, d) \in B /\ d # NoDomain
         /\ \A a, d : <<a, d>> \in DomToNative(InDomain(B))
                        <=> Place(a, Native, d) \in B /\ d # NoDomain
         /\ \A t, b : <<t, b>> \in TokFwd(InOpen(B))
                        <=> \E a \in Asset : TokenOf[a] = t /\ Place(a, b, NoDomain) \in B
         /\ \A t, a : <<t, a>> \in TokRev(InOpen(B))
                        <=> \E b \in Asset : TokenOf[b] = t /\ Place(a, b, NoDomain) \in B
<1>1. /\ \A b \in B : /\ b.in \in Asset /\ b.out \in Asset
                      /\ b = Place(b.in, b.out, b.domain)
      /\ \A a, b, d : /\ Place(a, b, d).in = a /\ Place(a, b, d).out = b
                      /\ Place(a, b, d).domain = d
  BY BookParts
<1>2. \A b : /\ b \in InOpen(B) <=> b \in B /\ b.domain = NoDomain
             /\ b \in InDomain(B) <=> b \in B /\ b.domain # NoDomain
  BY DEF InOpen, InDomain
<1>3. \A a, b : <<a, b>> \in Out(InOpen(B)) <=> Place(a, b, NoDomain) \in B
  BY <1>1, <1>2 DEF Out
<1>4. \A a, b : <<b, a>> \in In(InOpen(B)) <=> Place(a, b, NoDomain) \in B
  BY <1>1, <1>2 DEF In
<1>5. \A a : a \in ToNative(InOpen(B)) <=> Place(a, Native, NoDomain) \in B
  BY <1>1, <1>2 DEF ToNative
<1>6. \A a, b, d : <<a, d, b>> \in DomOut(InDomain(B)) <=> Place(a, b, d) \in B /\ d # NoDomain
  BY <1>1, <1>2 DEF DomOut
<1>7. \A a, b, d : <<b, d, a>> \in DomIn(InDomain(B)) <=> Place(a, b, d) \in B /\ d # NoDomain
  BY <1>1, <1>2 DEF DomIn
<1>8. \A a, d : <<a, d>> \in DomToNative(InDomain(B))
                  <=> Place(a, Native, d) \in B /\ d # NoDomain
  BY <1>1, <1>2 DEF DomToNative
<1>9. \A t, b : <<t, b>> \in TokFwd(InOpen(B))
                  <=> \E a \in Asset : TokenOf[a] = t /\ Place(a, b, NoDomain) \in B
  BY <1>1, <1>2 DEF TokFwd
<1>10. \A t, a : <<t, a>> \in TokRev(InOpen(B))
                  <=> \E b \in Asset : TokenOf[b] = t /\ Place(a, b, NoDomain) \in B
  BY <1>1, <1>2 DEF TokRev
<1>. QED  BY <1>3, <1>4, <1>5, <1>6, <1>7, <1>8, <1>9, <1>10

(* The type invariant, of which each step disturbs a part. *)
IndexType ==
  /\ allBooks \subseteq Asset \X Asset /\ reverseBooks \subseteq Asset \X Asset
  /\ xrpBooks \subseteq Asset
  /\ domainBooks \subseteq Asset \X Domain \X Asset
  /\ reverseDomainBooks \subseteq Asset \X Domain \X Asset
  /\ xrpDomainBooks \subseteq Asset \X Domain
  /\ tokenFwd \subseteq Token \X Asset /\ tokenRev \subseteq Token \X Asset

TipType ==
  /\ tip \in [Book -> 0 .. NoQuality]
  /\ tokenTip \in [Token \X Asset -> 0 .. NoQuality]

LedgerType ==
  /\ roots \subseteq Root /\ funded \subseteq Amm /\ empty \subseteq Amm
  /\ funded \cap empty = {}
  /\ rootsToLoad \subseteq Root /\ ammsToLoad \subseteq Amm /\ removed \subseteq Book

LEMMA TypeParts == BooksTypeOK <=> LedgerType /\ IndexType /\ TipType
BY DEF BooksTypeOK, LedgerType, IndexType, TipType

(* What is listed, book by book. *)
Has(a, b, d) == IF d = NoDomain THEN <<a, b>> \in allBooks ELSE <<a, d, b>> \in domainBooks

(* Every other index says what the listed books say. *)
AgreeInv ==
  /\ \A a, b \in Asset : <<b, a>> \in reverseBooks <=> Has(a, b, NoDomain)
  /\ \A a, b \in Asset, d \in Domain : <<b, d, a>> \in reverseDomainBooks <=> Has(a, b, d)
  /\ \A a \in Asset : a \in xrpBooks <=> Has(a, Native, NoDomain)
  /\ \A a \in Asset, d \in Domain : <<a, d>> \in xrpDomainBooks <=> Has(a, Native, d)
  /\ \A t \in Token, b \in Asset :
       <<t, b>> \in tokenFwd => \E a \in Asset : TokenOf[a] = t /\ Has(a, b, NoDomain)
  /\ \A t \in Token, a \in Asset :
       <<t, a>> \in tokenRev => \E b \in Asset : TokenOf[b] = t /\ Has(a, b, NoDomain)

(* Only a listed book has a quality. *)
TipInv == \A b \in Book : tip[b] # NoQuality => Has(b.in, b.out, b.domain)

(* Adding books keeps the indexes' agreement and lists those books more. *)
LEMMA Adds ==
  ASSUME BookAssumption, IndexType, AgreeInv, NEW B \in SUBSET Book, AddBooks(B)
  PROVE  /\ IndexType' /\ AgreeInv'
         /\ \A a, b \in Asset, d \in Domain \cup {NoDomain} :
              Has(a, b, d)' <=> Has(a, b, d) \/ Place(a, b, d) \in B
<1>1. \A b \in B : b.in \in Asset /\ b.out \in Asset /\ b.domain \in Domain \cup {NoDomain}
  BY BookParts
<1>2. IndexType'
  <2>1. /\ Out(InOpen(B)) \subseteq Asset \X Asset /\ In(InOpen(B)) \subseteq Asset \X Asset
        /\ ToNative(InOpen(B)) \subseteq Asset
        /\ TokFwd(InOpen(B)) \subseteq Token \X Asset /\ TokRev(InOpen(B)) \subseteq Token \X Asset
    BY <1>1 DEF Out, In, ToNative, TokFwd, TokRev, InOpen, Token
  <2>2. \A b \in InDomain(B) : b \in B /\ b.domain \in Domain
    BY <1>1 DEF InDomain, InOpen
  <2>3. /\ DomOut(InDomain(B)) \subseteq Asset \X Domain \X Asset
        /\ DomIn(InDomain(B)) \subseteq Asset \X Domain \X Asset
        /\ DomToNative(InDomain(B)) \subseteq Asset \X Domain
    BY <1>1, <2>2 DEF DomOut, DomIn, DomToNative
  <2>. QED  BY <2>1, <2>3 DEF AddBooks, IndexType
<1>3. \A a, b \in Asset, d \in Domain \cup {NoDomain} :
        Has(a, b, d)' <=> Has(a, b, d) \/ Place(a, b, d) \in B
  BY Filed DEF AddBooks, Has
<1>4. AgreeInv'
  <2>1. NoDomain \notin Domain /\ Native \in Asset
    BY DEF BookAssumption
  <2>2. \A a, b \in Asset : <<b, a>> \in reverseBooks' <=> Has(a, b, NoDomain)'
    BY <1>3, Filed DEF AddBooks, AgreeInv
  <2>3. \A a, b \in Asset, d \in Domain : <<b, d, a>> \in reverseDomainBooks' <=> Has(a, b, d)'
    BY <1>3, <2>1, Filed DEF AddBooks, AgreeInv
  <2>4. \A a \in Asset : a \in xrpBooks' <=> Has(a, Native, NoDomain)'
    BY <1>3, <2>1, Filed DEF AddBooks, AgreeInv
  <2>5. \A a \in Asset, d \in Domain : <<a, d>> \in xrpDomainBooks' <=> Has(a, Native, d)'
    BY <1>3, <2>1, Filed DEF AddBooks, AgreeInv
  <2>6. \A t \in Token, b \in Asset :
          <<t, b>> \in tokenFwd' => \E a \in Asset : TokenOf[a] = t /\ Has(a, b, NoDomain)'
    BY <1>3, Filed DEF AddBooks, AgreeInv
  <2>7. \A t \in Token, a \in Asset :
          <<t, a>> \in tokenRev' => \E b \in Asset : TokenOf[b] = t /\ Has(a, b, NoDomain)'
    BY <1>3, Filed DEF AddBooks, AgreeInv
  <2>. QED  BY <2>2, <2>3, <2>4, <2>5, <2>6, <2>7 DEF AgreeInv
<1>. QED  BY <1>2, <1>3, <1>4

(* Removing takes out those books, their qualities, and no others. *)
LEMMA Removes ==
  ASSUME BookAssumption, IndexType, TipType, AgreeInv, TipInv, NEW B \in SUBSET Book, RemoveBooks(B)
  PROVE  /\ IndexType' /\ TipType' /\ AgreeInv' /\ TipInv'
         /\ \A a, b \in Asset, d \in Domain \cup {NoDomain} :
              Has(a, b, d)' <=> Has(a, b, d) /\ Place(a, b, d) \notin B
<1>2. IndexType' /\ TipType'
  <2>1. IndexType'
    BY DEF RemoveBooks, WithoutNative, IndexType
  <2>2. NoQuality \in Nat
    BY DEF BookAssumption
  <2>3. TipType'
    BY <2>2 DEF RemoveBooks, TipType
  <2>. QED  BY <2>1, <2>3
<1>3. \A a, b \in Asset, d \in Domain \cup {NoDomain} :
        Has(a, b, d)' <=> Has(a, b, d) /\ Place(a, b, d) \notin B
  BY Filed DEF RemoveBooks, Has
<1>4. AgreeInv'
  <2>1. NoDomain \notin Domain /\ Native \in Asset
    BY DEF BookAssumption
  <2>2. \A a, b \in Asset : <<b, a>> \in reverseBooks' <=> Has(a, b, NoDomain)'
    BY <1>3, Filed DEF RemoveBooks, AgreeInv
  <2>3. ASSUME NEW a \in Asset, NEW b \in Asset, NEW d \in Domain
        PROVE  <<b, d, a>> \in reverseDomainBooks' <=> Has(a, b, d)'
    <3>1. Has(a, b, d)' <=> Has(a, b, d) /\ Place(a, b, d) \notin B
      BY <1>3
    <3>2. <<b, d, a>> \in DomIn(InDomain(B)) <=> Place(a, b, d) \in B
      BY <2>1, Filed
    <3>3. <<b, d, a>> \in reverseDomainBooks <=> Has(a, b, d)
      BY DEF AgreeInv
    <3>4. reverseDomainBooks' = reverseDomainBooks \ DomIn(InDomain(B))
      BY DEF RemoveBooks
    <3>. QED  BY <3>1, <3>2, <3>3, <3>4
  <2>4. \A a \in Asset : a \in xrpBooks' <=> Has(a, Native, NoDomain)'
    BY <1>3, <2>1, Filed DEF RemoveBooks, WithoutNative, AgreeInv
  <2>5. \A a \in Asset, d \in Domain : <<a, d>> \in xrpDomainBooks' <=> Has(a, Native, d)'
    BY <1>3, <2>1, Filed DEF RemoveBooks, AgreeInv
  <2>6. \A t \in Token, b \in Asset :
          <<t, b>> \in tokenFwd' => \E a \in Asset : TokenOf[a] = t /\ Has(a, b, NoDomain)'
    BY <1>3, Filed DEF RemoveBooks, AgreeInv
  <2>7. \A t \in Token, a \in Asset :
          <<t, a>> \in tokenRev' => \E b \in Asset : TokenOf[b] = t /\ Has(a, b, NoDomain)'
    BY <1>3, Filed DEF RemoveBooks, AgreeInv
  <2>. QED  BY <2>2, <2>3, <2>4, <2>5, <2>6, <2>7 DEF AgreeInv
<1>5. TipInv'
  <2>. SUFFICES ASSUME NEW b \in Book, tip'[b] # NoQuality PROVE Has(b.in, b.out, b.domain)'
    BY DEF TipInv
  <2>1. b \notin B /\ tip[b] # NoQuality
    BY DEF RemoveBooks
  <2>2. /\ b.in \in Asset /\ b.out \in Asset /\ b.domain \in Domain \cup {NoDomain}
        /\ b = Place(b.in, b.out, b.domain)
    BY BookParts
  <2>. QED  BY <2>1, <2>2, <1>3 DEF TipInv
<1>. QED  BY <1>2, <1>3, <1>4, <1>5
-----------------------------------------------------------------------------
(* The ledger's books, and those a load has yet to bring. *)

ToLoad == {BookOf(r) : r \in rootsToLoad} \cup UNION {AmmBooks(m) : m \in ammsToLoad}

(* Nothing is loaded that the ledger no longer has. *)
LoadInv == rootsToLoad \subseteq roots /\ ammsToLoad \subseteq funded

(* What is listed the ledger has; what the ledger has is listed, or was    *)
(* removed, or is still to be loaded.                                      *)
FollowInv ==
  \A a, b \in Asset, d \in Domain \cup {NoDomain} :
    /\ Has(a, b, d) => Place(a, b, d) \in LedgerBooks
    /\ Place(a, b, d) \in LedgerBooks \ (removed \cup ToLoad) => Has(a, b, d)

(* Agreement, qualities, and what follows the ledger: inductive together. *)
BooksInv == LedgerType /\ IndexType /\ TipType /\ AgreeInv /\ TipInv /\ LoadInv /\ FollowInv

(* Directories and pools stand behind books. *)
LEMMA BookSets ==
  ASSUME BookAssumption
  PROVE  /\ \A r \in Root : BookOf(r) \in Book
         /\ \A m \in Amm : AmmBooks(m) \subseteq Book
BY DEF BookAssumption, BookOf, Book, AmmBooks, OpenBook

(* A step that lists the books the ledger gains goes on following it. *)
LEMMA FollowAdd ==
  ASSUME FollowInv, NEW B,
         \A a, b \in Asset, d \in Domain \cup {NoDomain} :
           Has(a, b, d)' <=> Has(a, b, d) \/ Place(a, b, d) \in B,
         LedgerBooks' = LedgerBooks \cup B,
         removed \subseteq removed' \cup B, ToLoad \subseteq ToLoad' \cup B
  PROVE  FollowInv'
BY DEF FollowInv, Place

(* So does one that takes out books and notes that it did. *)
LEMMA FollowRemove ==
  ASSUME FollowInv, NEW B,
         \A a, b \in Asset, d \in Domain \cup {NoDomain} :
           Has(a, b, d)' <=> Has(a, b, d) /\ Place(a, b, d) \notin B,
         LedgerBooks \ B \subseteq LedgerBooks', LedgerBooks' \subseteq LedgerBooks,
         removed' = removed \cup B, ToLoad' = ToLoad
  PROVE  FollowInv'
BY DEF FollowInv, Place

(* A directory's book is added, and its quality is the book's. *)
LEMMA RootAdded ==
  ASSUME BookAssumption, BooksInv, NEW r \in Root, AddRootSle(r)
  PROVE  /\ IndexType' /\ TipType' /\ AgreeInv' /\ TipInv'
         /\ \A a, b \in Asset, d \in Domain \cup {NoDomain} :
              Has(a, b, d)' <=> Has(a, b, d) \/ Place(a, b, d) \in {BookOf(r)}
<1>1. BookOf(r) \in Book /\ {BookOf(r)} \in SUBSET Book
  BY BookSets
<1>2. /\ IndexType' /\ AgreeInv'
      /\ \A a, b \in Asset, d \in Domain \cup {NoDomain} :
           Has(a, b, d)' <=> Has(a, b, d) \/ Place(a, b, d) \in {BookOf(r)}
  BY <1>1, Adds DEF AddRootSle, BooksInv
<1>3. TipType'
  <2>1. r.quality \in 0 .. NoQuality /\ r.in \in Asset
    BY DEF BookAssumption
  <2>. QED  BY <2>1 DEF AddRootSle, SetQuality, BooksInv, TipType
<1>4. TipInv'
  <2>. SUFFICES ASSUME NEW b \in Book, tip'[b] # NoQuality PROVE Has(b.in, b.out, b.domain)'
    BY DEF TipInv
  <2>1. /\ b.in \in Asset /\ b.out \in Asset /\ b.domain \in Domain \cup {NoDomain}
        /\ b = Place(b.in, b.out, b.domain)
    BY BookParts
  <2>2. b = BookOf(r) \/ tip[b] # NoQuality
    BY DEF AddRootSle, SetQuality, BooksInv, TipType
  <2>3. Has(b.in, b.out, b.domain) \/ b \in {BookOf(r)}
    BY <2>2 DEF BooksInv, TipInv
  <2>. QED  BY <2>1, <2>3, <1>2
<1>. QED  BY <1>2, <1>3, <1>4

(* A pool's two books are added. *)
LEMMA AmmAdded ==
  ASSUME BookAssumption, BooksInv, NEW m \in Amm, AddAmmSle(m)
  PROVE  /\ IndexType' /\ TipType' /\ AgreeInv' /\ TipInv'
         /\ \A a, b \in Asset, d \in Domain \cup {NoDomain} :
              Has(a, b, d)' <=> Has(a, b, d) \/ Place(a, b, d) \in AmmBooks(m)
<1>1. AmmBooks(m) \in SUBSET Book
  BY BookSets
<1>2. /\ IndexType' /\ AgreeInv'
      /\ \A a, b \in Asset, d \in Domain \cup {NoDomain} :
           Has(a, b, d)' <=> Has(a, b, d) \/ Place(a, b, d) \in AmmBooks(m)
  BY <1>1, Adds DEF AddAmmSle, BooksInv
<1>3. TipType'
  BY DEF AddAmmSle, BooksInv, TipType
<1>4. TipInv'
  <2>. SUFFICES ASSUME NEW b \in Book, tip'[b] # NoQuality PROVE Has(b.in, b.out, b.domain)'
    BY DEF TipInv
  <2>1. b.in \in Asset /\ b.out \in Asset /\ b.domain \in Domain \cup {NoDomain}
    BY BookParts
  <2>2. Has(b.in, b.out, b.domain)
    BY DEF AddAmmSle, BooksInv, TipInv
  <2>. QED  BY <2>1, <2>2, <1>2
<1>. QED  BY <1>2, <1>3, <1>4

(* Nothing is listed and the ledger has nothing. *)
LEMMA BooksStart == BookAssumption /\ BooksInit => BooksInv
<1>. SUFFICES ASSUME BookAssumption, BooksInit PROVE BooksInv
  OBVIOUS
<1>1. NoQuality \in Nat
  BY DEF BookAssumption
<1>2. LedgerType /\ IndexType /\ LoadInv
  BY DEF BooksInit, LedgerType, IndexType, LoadInv
<1>3. TipType /\ TipInv
  BY <1>1 DEF BooksInit, TipType, TipInv, NoTip, NoTokenTip
<1>4. LedgerBooks = {}
  BY DEF BooksInit, LedgerBooks
<1>5. AgreeInv /\ FollowInv
  BY <1>4 DEF BooksInit, AgreeInv, FollowInv, Has
<1>. QED  BY <1>2, <1>3, <1>5 DEF BooksInv

(* Each step of a load or of a transaction's metadata keeps it. *)
LEMMA BooksStep == BookAssumption /\ BooksInv /\ [BooksNext]_allVars => BooksInv'
<1>. SUFFICES ASSUME BookAssumption, BooksInv, [BooksNext]_allVars PROVE BooksInv'
  OBVIOUS
<1>. USE DEF ledgerVars, loadVars
<1>0. LedgerType /\ IndexType /\ TipType /\ AgreeInv /\ TipInv /\ LoadInv /\ FollowInv
  BY DEF BooksInv
<1>1. CASE StartLoad
  <2>1. NoQuality \in Nat
    BY DEF BookAssumption
  <2>2. LedgerType' /\ IndexType' /\ LoadInv'
    BY <1>0, <1>1 DEF StartLoad, ClearBooks, LedgerType, IndexType, LoadInv
  <2>3. TipType' /\ TipInv'
    BY <1>1, <2>1 DEF StartLoad, ClearBooks, TipType, TipInv, NoTip, NoTokenTip
  <2>4. ToLoad' = LedgerBooks /\ LedgerBooks' = LedgerBooks
    BY <1>1 DEF StartLoad, ToLoad, LedgerBooks
  <2>5. AgreeInv' /\ FollowInv'
    <3>1. \A a, b, d : ~Has(a, b, d)'
      BY <1>1 DEF StartLoad, ClearBooks, Has
    <3>2. AgreeInv'
      BY <1>1, <3>1 DEF StartLoad, ClearBooks, AgreeInv
    <3>3. FollowInv'
      BY <2>4, <3>1 DEF FollowInv
    <3>. QED  BY <3>2, <3>3
  <2>. QED  BY <2>2, <2>3, <2>5 DEF BooksInv
<1>2. ASSUME NEW r \in Root, LoadRoot(r) PROVE BooksInv'
  <2>1. LedgerType' /\ LoadInv'
    BY <1>0, <1>2 DEF LoadRoot, LedgerType, LoadInv
  <2>2. /\ LedgerBooks' = LedgerBooks \cup {BookOf(r)} /\ ToLoad \subseteq ToLoad' \cup {BookOf(r)}
        /\ removed' = removed
    <3>1. r \in roots
      BY <1>0, <1>2 DEF LoadRoot, LoadInv
    <3>2. UNCHANGED <<roots, funded, ammsToLoad, removed>> /\ rootsToLoad' = rootsToLoad \ {r}
      BY <1>2 DEF LoadRoot
    <3>. QED  BY <3>1, <3>2 DEF LedgerBooks, ToLoad
  <2>3. FollowInv'
    BY <1>0, <1>2, <2>2, RootAdded, FollowAdd DEF LoadRoot
  <2>. QED  BY <1>2, <2>1, <2>3, RootAdded DEF LoadRoot, BooksInv
<1>3. ASSUME NEW m \in Amm, LoadAmm(m) PROVE BooksInv'
  <2>1. LedgerType' /\ LoadInv'
    BY <1>0, <1>3 DEF LoadAmm, LedgerType, LoadInv
  <2>2. /\ LedgerBooks' = LedgerBooks \cup AmmBooks(m) /\ ToLoad \subseteq ToLoad' \cup AmmBooks(m)
        /\ removed' = removed
    <3>1. m \in funded
      BY <1>0, <1>3 DEF LoadAmm, LoadInv
    <3>2. UNCHANGED <<roots, funded, rootsToLoad, removed>> /\ ammsToLoad' = ammsToLoad \ {m}
      BY <1>3 DEF LoadAmm
    <3>. QED  BY <3>1, <3>2 DEF LedgerBooks, ToLoad
  <2>3. FollowInv'
    BY <1>0, <1>3, <2>2, AmmAdded, FollowAdd DEF LoadAmm
  <2>. QED  BY <1>3, <2>1, <2>3, AmmAdded DEF LoadAmm, BooksInv
<1>4. ASSUME NEW r \in Root, RootTouched(r) PROVE BooksInv'
  <2>1. LedgerType' /\ LoadInv'
    BY <1>0, <1>4 DEF RootTouched, LedgerType, LoadInv
  <2>2. /\ LedgerBooks' = LedgerBooks \cup {BookOf(r)} /\ ToLoad' = ToLoad
        /\ removed \subseteq removed' \cup {BookOf(r)}
    BY <1>4 DEF RootTouched, LedgerBooks, ToLoad
  <2>3. FollowInv'
    BY <1>0, <1>4, <2>2, RootAdded, FollowAdd DEF RootTouched
  <2>. QED  BY <1>4, <2>1, <2>3, RootAdded DEF RootTouched, BooksInv
<1>5. ASSUME NEW r \in Root, RootDeleted(r) PROVE BooksInv'
  <2>0. BookOf(r) \in Book /\ {BookOf(r)} \in SUBSET Book
    BY BookSets
  <2>1. LedgerType' /\ LoadInv'
    BY <1>0, <1>5, <2>0 DEF RootDeleted, LedgerType, LoadInv, Loading
  <2>2. /\ LedgerBooks \ {BookOf(r)} \subseteq LedgerBooks' /\ LedgerBooks' \subseteq LedgerBooks
        /\ removed' = removed \cup {BookOf(r)} /\ ToLoad' = ToLoad
    BY <1>5 DEF RootDeleted, LedgerBooks, ToLoad
  <2>3. /\ IndexType' /\ TipType' /\ AgreeInv' /\ TipInv'
        /\ \A a, b \in Asset, d \in Domain \cup {NoDomain} :
             Has(a, b, d)' <=> Has(a, b, d) /\ Place(a, b, d) \notin {BookOf(r)}
    BY <1>0, <1>5, <2>0, Removes DEF RootDeleted, RemoveRootSle
  <2>4. FollowInv'
    BY <1>0, <2>2, <2>3, FollowRemove
  <2>. QED  BY <2>1, <2>3, <2>4 DEF BooksInv
<1>6. ASSUME NEW m \in Amm, AmmFunded(m) PROVE BooksInv'
  <2>1. LedgerType' /\ LoadInv'
    BY <1>0, <1>6 DEF AmmFunded, LedgerType, LoadInv
  <2>2. /\ LedgerBooks' = LedgerBooks \cup AmmBooks(m) /\ ToLoad' = ToLoad
        /\ removed \subseteq removed' \cup AmmBooks(m)
    BY <1>6 DEF AmmFunded, LedgerBooks, ToLoad
  <2>3. FollowInv'
    BY <1>0, <1>6, <2>2, AmmAdded, FollowAdd DEF AmmFunded
  <2>. QED  BY <1>6, <2>1, <2>3, AmmAdded DEF AmmFunded, BooksInv
<1>7. ASSUME NEW m \in Amm, AmmEmptied(m) \/ AmmDeleted(m) PROVE BooksInv'
  <2>0. AmmBooks(m) \in SUBSET Book
    BY BookSets
  <2>1. LedgerType' /\ LoadInv'
    <3>1. LedgerType'
      BY <1>0, <1>7, <2>0 DEF AmmEmptied, AmmDeleted, LedgerType
    <3>2. rootsToLoad' = {} /\ ammsToLoad' = {}
      BY <1>7 DEF AmmEmptied, AmmDeleted, Loading
    <3>. QED  BY <3>1, <3>2 DEF LoadInv
  <2>2. /\ LedgerBooks \ AmmBooks(m) \subseteq LedgerBooks' /\ LedgerBooks' \subseteq LedgerBooks
        /\ removed' = removed \cup AmmBooks(m) /\ ToLoad' = ToLoad
    BY <1>7 DEF AmmEmptied, AmmDeleted, LedgerBooks, ToLoad
  <2>3. /\ IndexType' /\ TipType' /\ AgreeInv' /\ TipInv'
        /\ \A a, b \in Asset, d \in Domain \cup {NoDomain} :
             Has(a, b, d)' <=> Has(a, b, d) /\ Place(a, b, d) \notin AmmBooks(m)
    BY <1>0, <1>7, <2>0, Removes DEF AmmEmptied, AmmDeleted, RemoveAmmSle
  <2>4. FollowInv'
    BY <1>0, <2>2, <2>3, FollowRemove
  <2>. QED  BY <2>1, <2>3, <2>4 DEF BooksInv
<1>8. CASE UNCHANGED allVars
  <2>. USE <1>0, <1>8 DEF allVars, bookVars
  <2>1. LedgerType' /\ LoadInv'
    BY DEF LedgerType, LoadInv
  <2>2. IndexType' /\ TipType'
    BY DEF IndexType, TipType
  <2>3. \A a, b, d : Has(a, b, d)' <=> Has(a, b, d)
    BY DEF Has
  <2>4. AgreeInv' /\ TipInv'
    BY <2>3 DEF AgreeInv, TipInv
  <2>5. LedgerBooks' = LedgerBooks /\ ToLoad' = ToLoad /\ removed' = removed
    BY DEF LedgerBooks, ToLoad
  <2>6. FollowInv'
    BY <2>3, <2>5 DEF FollowInv
  <2>. QED  BY <2>1, <2>2, <2>4, <2>6 DEF BooksInv
<1>. QED  BY <1>1, <1>2, <1>3, <1>4, <1>5, <1>6, <1>7, <1>8 DEF BooksNext

LEMMA BooksAlways == BooksSpec => []BooksInv
BY BookAssumption, BooksStart, BooksStep, PTL DEF BooksSpec

-----------------------------------------------------------------------------
(* IndexesAgree: whatever is loaded, added and removed, in the open books  *)
(* and in the domains', the indexes tell one story (addBookUnlocked,       *)
(* removeBookUnlocked and the queries in order_books.cpp).                 *)
THEOREM IndexesTellOneStory == BooksSpec => []IndexesAgree
<1>1. ASSUME BookAssumption, BooksInv PROVE IndexesAgree
  <2>0. /\ LedgerType /\ IndexType /\ TipType /\ AgreeInv /\ TipInv
        /\ NoDomain \notin Domain /\ Native \in Asset
    BY <1>1 DEF BooksInv, BookAssumption
  <2>1. BooksTypeOK
    BY <2>0, TypeParts
  <2>2. reverseBooks = {<<p[2], p[1]>> : p \in allBooks}
    <3>1. /\ \A p \in reverseBooks : p[1] \in Asset /\ p[2] \in Asset /\ p = <<p[1], p[2]>>
          /\ \A p \in allBooks : p[1] \in Asset /\ p[2] \in Asset /\ p = <<p[1], p[2]>>
      BY <2>0 DEF IndexType
    <3>2. \A a, b \in Asset : <<b, a>> \in reverseBooks <=> <<a, b>> \in allBooks
      BY <2>0 DEF AgreeInv, Has
    <3>3. ASSUME NEW p \in reverseBooks PROVE \E q \in allBooks : p = <<q[2], q[1]>>
      <4>1. p = <<p[1], p[2]>> /\ <<p[2], p[1]>> \in allBooks
        BY <3>1, <3>2
      <4>. QED  BY <4>1
    <3>4. ASSUME NEW q \in allBooks PROVE <<q[2], q[1]>> \in reverseBooks
      BY <3>1, <3>2
    <3>. QED  BY <3>3, <3>4
  <2>3. reverseDomainBooks = {<<p[3], p[2], p[1]>> : p \in domainBooks}
    <3>1. /\ \A p \in reverseDomainBooks : /\ p[1] \in Asset /\ p[2] \in Domain /\ p[3] \in Asset
                                           /\ p = <<p[1], p[2], p[3]>>
          /\ \A p \in domainBooks : /\ p[1] \in Asset /\ p[2] \in Domain /\ p[3] \in Asset
                                    /\ p = <<p[1], p[2], p[3]>>
      BY <2>0 DEF IndexType
    <3>2. \A a, b \in Asset, d \in Domain :
            <<b, d, a>> \in reverseDomainBooks <=> <<a, d, b>> \in domainBooks
      BY <2>0 DEF AgreeInv, Has
    <3>3. ASSUME NEW p \in reverseDomainBooks
          PROVE  \E q \in domainBooks : p = <<q[3], q[2], q[1]>>
      <4>1. p = <<p[1], p[2], p[3]>> /\ <<p[3], p[2], p[1]>> \in domainBooks
        BY <3>1, <3>2
      <4>. QED  BY <4>1
    <3>4. ASSUME NEW q \in domainBooks PROVE <<q[3], q[2], q[1]>> \in reverseDomainBooks
      BY <3>1, <3>2
    <3>. QED  BY <3>3, <3>4
  <2>4. \A a \in Asset :
          /\ IsBookToXRP(a, NoDomain) <=> <<a, Native>> \in allBooks
          /\ \A d \in Domain : IsBookToXRP(a, d) <=> <<a, d, Native>> \in domainBooks
    BY <2>0 DEF AgreeInv, Has, IsBookToXRP
  <2>5. /\ \A p \in tokenFwd : \E a \in Asset : TokenOf[a] = p[1] /\ <<a, p[2]>> \in allBooks
        /\ \A p \in tokenRev : \E b \in Asset : TokenOf[b] = p[1] /\ <<p[2], b>> \in allBooks
    <3>1. /\ \A p \in tokenFwd : p[1] \in Token /\ p[2] \in Asset /\ p = <<p[1], p[2]>>
          /\ \A p \in tokenRev : p[1] \in Token /\ p[2] \in Asset /\ p = <<p[1], p[2]>>
      BY <2>0 DEF IndexType
    <3>2. ASSUME NEW p \in tokenFwd
          PROVE  \E a \in Asset : TokenOf[a] = p[1] /\ <<a, p[2]>> \in allBooks
      <4>1. p[1] \in Token /\ p[2] \in Asset /\ <<p[1], p[2]>> \in tokenFwd
        BY <3>1
      <4>. QED  BY <2>0, <4>1 DEF AgreeInv, Has
    <3>3. ASSUME NEW p \in tokenRev
          PROVE  \E b \in Asset : TokenOf[b] = p[1] /\ <<p[2], b>> \in allBooks
      <4>1. p[1] \in Token /\ p[2] \in Asset /\ <<p[1], p[2]>> \in tokenRev
        BY <3>1
      <4>. QED  BY <2>0, <4>1 DEF AgreeInv, Has
    <3>. QED  BY <3>2, <3>3
  <2>6. \A b \in Book : tip[b] # NoQuality => HasBook(b.in, b.out, b.domain)
    BY <2>0 DEF TipInv, Has, HasBook
  <2>. QED  BY <2>1, <2>2, <2>3, <2>4, <2>5, <2>6 DEF IndexesAgree
<1>. QED  BY BookAssumption, BooksAlways, <1>1, PTL

(* BooksFollowLedger: no search is sent through a book that is gone, none  *)
(* is missing but a removed one, and so with the pivots (addFromSle and    *)
(* removeFromSle, intermediates in order_books.cpp).                       *)
THEOREM BooksAreTheLedgers == BooksSpec => []BooksFollowLedger
<1>1. ASSUME BookAssumption, BooksInv PROVE BooksFollowLedger
  <2>0. /\ LedgerType /\ IndexType /\ AgreeInv /\ FollowInv
        /\ NoDomain \notin Domain /\ TokenOf \in [Asset -> Token]
    BY <1>1 DEF BooksInv, BookAssumption
  <2>1. \A a, b \in Asset, d \in Domain \cup {NoDomain} : Place(a, b, d) \in Listed <=> Has(a, b, d)
    <3>1. /\ \A p \in allBooks : p = <<p[1], p[2]>>
          /\ \A p \in domainBooks : p = <<p[1], p[2], p[3]>> /\ p[2] \in Domain
      BY <2>0 DEF IndexType
    <3>. SUFFICES ASSUME NEW a \in Asset, NEW b \in Asset, NEW d \in Domain \cup {NoDomain}
                  PROVE  Place(a, b, d) \in Listed <=> Has(a, b, d)
      OBVIOUS
    <3>2. Place(a, b, d) \in Listed
            <=> \/ \E p \in allBooks : Place(a, b, d) = Place(p[1], p[2], NoDomain)
                \/ \E p \in domainBooks : Place(a, b, d) = Place(p[1], p[3], p[2])
      BY DEF Listed, Place, OpenBook
    <3>3. \A x, y, z : Place(a, b, d) = Place(x, y, z) <=> a = x /\ b = y /\ d = z
      BY DEF Place
    <3>4. CASE d = NoDomain
      BY <2>0, <3>1, <3>2, <3>3, <3>4 DEF Has
    <3>5. CASE d \in Domain
      BY <2>0, <3>1, <3>2, <3>3, <3>5 DEF Has
    <3>. QED  BY <3>4, <3>5
  <2>2. \A b \in Listed \cup LedgerBooks : /\ b.in \in Asset /\ b.out \in Asset
                           /\ b.domain \in Domain \cup {NoDomain}
                           /\ b = Place(b.in, b.out, b.domain)
    <3>1. Listed \subseteq Book
      BY <2>0 DEF IndexType, Listed, Book, OpenBook
    <3>2. LedgerBooks \subseteq Book
      BY <1>1, <2>0, BookSets DEF LedgerBooks, LedgerType
    <3>. QED  BY <3>1, <3>2, BookParts
  <2>3. Listed \subseteq LedgerBooks
    BY <2>0, <2>1, <2>2 DEF FollowInv
  <2>4. ~Loading => LedgerBooks \ Listed \subseteq removed
    <3>1. ~Loading => ToLoad = {}
      BY DEF Loading, ToLoad
    <3>. QED  BY <2>0, <2>1, <2>2, <3>1 DEF FollowInv
  <2>5. PivotsFollowLedger
    <3>. SUFFICES ASSUME NEW a \in Asset, NEW b \in Asset, NEW d \in Domain \cup {NoDomain}
                  PROVE  /\ \A m \in Intermediates(a, b, d) :
                              \E x, y \in Asset :
                                /\ TokenOf[x] = TokenOf[a] /\ TokenOf[y] = TokenOf[b]
                                /\ Place(x, m, d) \in LedgerBooks /\ Place(m, y, d) \in LedgerBooks
                         /\ ~Loading /\ removed = {} =>
                              \A m \in Asset :
                                {Place(a, m, d), Place(m, b, d)} \subseteq LedgerBooks
                                  => m \in Intermediates(a, b, d)
      BY DEF PivotsFollowLedger, Place
    <3>0. Intermediates(a, b, d) \subseteq Asset
      BY DEF Intermediates
    <3>. SUFFICES ASSUME NEW m \in Asset
                  PROVE  /\ m \in Intermediates(a, b, d) =>
                              \E x, y \in Asset :
                                /\ TokenOf[x] = TokenOf[a] /\ TokenOf[y] = TokenOf[b]
                                /\ Place(x, m, d) \in LedgerBooks /\ Place(m, y, d) \in LedgerBooks
                         /\ ~Loading /\ removed = {} =>
                              ({Place(a, m, d), Place(m, b, d)} \subseteq LedgerBooks
                                 => m \in Intermediates(a, b, d))
      BY <3>0
    <3>1. CASE d = NoDomain
      <4>1. ASSUME m \in Intermediates(a, b, d)
            PROVE  /\ \E x \in Asset : TokenOf[x] = TokenOf[a] /\ Has(x, m, d)
                   /\ \E y \in Asset : TokenOf[y] = TokenOf[b] /\ Has(m, y, d)
        <5>1. TokenOf[a] \in Token /\ TokenOf[b] \in Token
          BY <2>0
        <5>2. Has(a, m, d) \/ <<TokenOf[a], m>> \in tokenFwd
          BY <3>1, <4>1 DEF Intermediates, Has
        <5>3. Has(m, b, d) \/ <<TokenOf[b], m>> \in tokenRev
          BY <2>0, <3>1, <4>1 DEF Intermediates, AgreeInv
        <5>. QED  BY <2>0, <3>1, <5>1, <5>2, <5>3 DEF AgreeInv
      <4>2. Has(a, m, d) /\ Has(m, b, d) => m \in Intermediates(a, b, d)
        BY <2>0, <3>1 DEF Intermediates, AgreeInv, Has
      <4>. QED  BY <2>0, <2>1, <2>3, <2>4, <4>1, <4>2
    <3>2. CASE d # NoDomain
      <4>. QED  BY <2>0, <2>1, <2>3, <2>4, <3>2 DEF Intermediates, AgreeInv, FollowInv, Has
    <3>. QED  BY <3>1, <3>2
  <2>. QED  BY <2>3, <2>4, <2>5 DEF BooksFollowLedger
<1>. QED  BY BookAssumption, BooksAlways, <1>1, PTL
-----------------------------------------------------------------------------
(* The cache of trust lines.  A sum over accounts is the number of pairs   *)
(* of an account and one of its lines, so that what is known of finite     *)
(* sets applies to the count the cache keeps.                              *)

LinesOf(st, A) == {p \in A \X (1 .. MaxLinesPerAccount) : p[2] <= Stored(st, p[1])}

Bounded(st, A) == \A a \in A : Stored(st, a) \in 0 .. MaxLinesPerAccount

(* The lines of two sets of accounts, and of one account. *)
LEMMA LinesAdd ==
  ASSUME CacheAssumption, NEW st, NEW A \in SUBSET Account, NEW B \in SUBSET Account,
         A \cap B = {}
  PROVE  /\ IsFiniteSet(LinesOf(st, A)) /\ Cardinality(LinesOf(st, A)) \in Nat
         /\ Cardinality(LinesOf(st, A \cup B))
              = Cardinality(LinesOf(st, A)) + Cardinality(LinesOf(st, B))
<1>1. ASSUME NEW C \in SUBSET Account PROVE IsFiniteSet(LinesOf(st, C))
  <2>1. IsFiniteSet(C) /\ IsFiniteSet(1 .. MaxLinesPerAccount)
    <3>1. IsFiniteSet(Account) /\ 1 \in Int /\ MaxLinesPerAccount \in Int
      BY DEF CacheAssumption
    <3>. QED  BY <3>1, FS_Subset, FS_Interval
  <2>2. IsFiniteSet(C \X (1 .. MaxLinesPerAccount))
    BY <2>1, FS_Product
  <2>3. LinesOf(st, C) \in SUBSET (C \X (1 .. MaxLinesPerAccount))
    BY DEF LinesOf
  <2>. QED  BY <2>2, <2>3, FS_Subset
<1>2. LinesOf(st, A \cup B) = LinesOf(st, A) \cup LinesOf(st, B)
  BY DEF LinesOf
<1>3. LinesOf(st, A) \cap LinesOf(st, B) = {}
  BY DEF LinesOf
<1>4. IsFiniteSet(LinesOf(st, A)) /\ IsFiniteSet(LinesOf(st, B))
  BY <1>1
<1>. DEFINE S == LinesOf(st, A)
            T == LinesOf(st, B)
<1>. HIDE DEF S, T
<1>5. Cardinality(S) \in Nat /\ Cardinality(T) \in Nat
  BY <1>4, FS_CardinalityType DEF S, T
<1>6. Cardinality(S \cup T) = Cardinality(S) + Cardinality(T)
  <2>1. Cardinality(S \cup T) = Cardinality(S) + Cardinality(T) - Cardinality(S \cap T)
    BY <1>4, FS_Union DEF S, T
  <2>2. Cardinality(S \cap T) = 0
    BY <1>3, FS_EmptySet DEF S, T
  <2>. QED  BY <1>5, <2>1, <2>2
<1>. QED  BY <1>2, <1>4, <1>5, <1>6 DEF S, T

LEMMA LinesSplit ==
  ASSUME CacheAssumption, NEW st, NEW A \in SUBSET Account
  PROVE  /\ Cardinality(LinesOf(st, Account))
              = Cardinality(LinesOf(st, A)) + Cardinality(LinesOf(st, Account \ A))
         /\ Cardinality(LinesOf(st, A)) \in Nat /\ Cardinality(LinesOf(st, Account \ A)) \in Nat
<1>. DEFINE B == Account \ A
<1>1. /\ A \cup B = Account /\ A \cap B = {} /\ B \cap A = {}
      /\ B \in SUBSET Account
  OBVIOUS
<1>. HIDE DEF B
<1>2. /\ Cardinality(LinesOf(st, A \cup B))
           = Cardinality(LinesOf(st, A)) + Cardinality(LinesOf(st, B))
      /\ Cardinality(LinesOf(st, A)) \in Nat /\ Cardinality(LinesOf(st, B)) \in Nat
  <2>1. /\ Cardinality(LinesOf(st, A)) \in Nat
        /\ Cardinality(LinesOf(st, A \cup B))
             = Cardinality(LinesOf(st, A)) + Cardinality(LinesOf(st, B))
    BY <1>1, LinesAdd
  <2>2. Cardinality(LinesOf(st, B)) \in Nat
    BY <1>1, LinesAdd
  <2>. QED  BY <2>1, <2>2
<1>. QED  BY <1>1, <1>2 DEF B

LEMMA LinesOfOne ==
  ASSUME CacheAssumption, NEW st, NEW a \in Account, Bounded(st, {a})
  PROVE  Cardinality(LinesOf(st, {a})) = Stored(st, a)
<1>. DEFINE n == Stored(st, a)
<1>1. n \in Nat /\ n <= MaxLinesPerAccount /\ MaxLinesPerAccount \in Nat
  BY DEF Bounded, CacheAssumption
<1>2. LinesOf(st, {a}) = {a} \X (1 .. n)
  <2>1. LinesOf(st, {a}) = {p \in {a} \X (1 .. MaxLinesPerAccount) : p[2] <= n}
    BY DEF LinesOf
  <2>. HIDE DEF n
  <2>2. \A i \in Int : i \in 1 .. n <=> i \in 1 .. MaxLinesPerAccount /\ i <= n
    BY <1>1
  <2>. QED  BY <1>1, <2>1, <2>2
<1>. HIDE DEF n
<1>3. IsFiniteSet({a}) /\ Cardinality({a}) = 1
  BY FS_Singleton
<1>4. IsFiniteSet(1 .. n) /\ Cardinality(1 .. n) = n
  BY <1>1, FS_Interval
<1>5. Cardinality({a} \X (1 .. n)) = n
  <2>1. Cardinality({a} \X (1 .. n)) = 1 * n
    <3>1. Cardinality({a} \X (1 .. n)) = Cardinality({a}) * Cardinality(1 .. n)
      BY <1>3, <1>4, FS_Product, Zenon
    <3>. QED  BY <1>3, <1>4, <3>1, Zenon
  <2>2. 1 * n = n
    BY <1>1
  <2>. QED  BY <2>1, <2>2
<1>6. Cardinality(LinesOf(st, {a})) = n
  BY <1>2, <1>5
<1>. QED  BY <1>6 DEF n

(* The sum is a fold, defined by a recursive function on sets, of which    *)
(* there is just one: of the sets it might go wrong at, take a least.      *)
NextSum(st, w, B) ==
  IF B = {} THEN 0
  ELSE Stored(st, CHOOSE x \in B : TRUE) + w[B \ {CHOOSE x \in B : TRUE}]

IsSum(st, A, w) == w = [B \in SUBSET A |-> NextSum(st, w, B)]

LEMMA SumIsFold ==
  ASSUME NEW st, NEW A
  PROVE  SumStored(st, A) = (CHOOSE w : IsSum(st, A, w))[A]
BY DEF SumStored, MapThenSumSet, MapThenFoldSet, IsSum, NextSum

LEMMA NextSumIsRight ==
  ASSUME CacheAssumption, NEW st, NEW B \in SUBSET Account, Bounded(st, B), NEW w,
         \A C \in SUBSET B : C # B => w[C] = Cardinality(LinesOf(st, C))
  PROVE  NextSum(st, w, B) = Cardinality(LinesOf(st, B))
<1>1. CASE B = {}
  <2>1. LinesOf(st, B) = {}
    BY <1>1 DEF LinesOf
  <2>. QED  BY <1>1, <2>1, FS_EmptySet DEF NextSum
<1>2. CASE B # {}
  <2>. DEFINE x == CHOOSE x \in B : TRUE
  <2>1. x \in B
    BY <1>2
  <2>. HIDE DEF x
  <2>2. Cardinality(LinesOf(st, {x})) = Stored(st, x)
    BY <2>1, LinesOfOne DEF Bounded
  <2>3. Cardinality(LinesOf(st, {x} \cup (B \ {x})))
          = Cardinality(LinesOf(st, {x})) + Cardinality(LinesOf(st, B \ {x}))
    BY <2>1, LinesAdd
  <2>4. {x} \cup (B \ {x}) = B /\ w[B \ {x}] = Cardinality(LinesOf(st, B \ {x}))
    BY <2>1
  <2>5. NextSum(st, w, B) = Stored(st, x) + w[B \ {x}]
    BY <1>2 DEF NextSum, x
  <2>. QED  BY <2>2, <2>3, <2>4, <2>5
<1>. QED  BY <1>1, <1>2

LEMMA SumCounts ==
  ASSUME CacheAssumption, NEW st, NEW A \in SUBSET Account, Bounded(st, A)
  PROVE  SumStored(st, A) = Cardinality(LinesOf(st, A))
<1>. DEFINE right == [B \in SUBSET A |-> Cardinality(LinesOf(st, B))]
<1>1. \A B \in SUBSET A : Bounded(st, B) /\ B \in SUBSET Account
  BY DEF Bounded
<1>2. IsSum(st, A, right)
  <2>1. ASSUME NEW B \in SUBSET A PROVE right[B] = NextSum(st, right, B)
    <3>1. \A C \in SUBSET B : right[C] = Cardinality(LinesOf(st, C))
      OBVIOUS
    <3>2. right[B] = Cardinality(LinesOf(st, B))
      OBVIOUS
    <3>. HIDE DEF right
    <3>. QED  BY <1>1, <3>1, <3>2, NextSumIsRight
  <2>2. right = [B \in SUBSET A |-> NextSum(st, right, B)]
    BY <2>1
  <2>. QED  BY <2>2 DEF IsSum
<1>3. ASSUME NEW w, IsSum(st, A, w) PROVE w[A] = Cardinality(LinesOf(st, A))
  <2>. DEFINE Wrong == {B \in SUBSET A : w[B] # Cardinality(LinesOf(st, B))}
              R == StrictSubsetOrdering(A)
  <2>. SUFFICES ASSUME Wrong # {} PROVE FALSE
    OBVIOUS
  <2>1. IsWellFoundedOn(R, FiniteSubsetsOf(A))
    BY FS_StrictSubsetOrderingWellFounded
  <2>2. Wrong \subseteq FiniteSubsetsOf(A)
    <3>1. IsFiniteSet(A)
      BY FS_Subset DEF CacheAssumption
    <3>2. \A B \in SUBSET A : IsFiniteSet(B)
      BY <3>1, FS_Subset
    <3>. QED  BY <3>2 DEF FiniteSubsetsOf
  <2>3. PICK B \in Wrong : \A C \in Wrong : ~(<<C, B>> \in R)
    <3>. HIDE DEF R, Wrong
    <3>. QED  BY <2>1, <2>2, WFMin
  <2>4. \A C \in SUBSET B : C # B => w[C] = Cardinality(LinesOf(st, C))
    <3>. SUFFICES ASSUME NEW C \in SUBSET B, C # B, w[C] # Cardinality(LinesOf(st, C))
                  PROVE  FALSE
      OBVIOUS
    <3>1. C \in Wrong /\ B \in SUBSET A
      OBVIOUS
    <3>2. <<C, B>> \in R
      BY <3>1 DEF StrictSubsetOrdering
    <3>. QED  BY <2>3, <3>1, <3>2
  <2>5. NextSum(st, w, B) = Cardinality(LinesOf(st, B))
    BY <1>1, <2>4, NextSumIsRight
  <2>6. w[B] = NextSum(st, w, B)
    BY <1>3 DEF IsSum
  <2>. QED  BY <2>5, <2>6
<1>4. IsSum(st, A, CHOOSE w : IsSum(st, A, w))
  BY <1>2
<1>. QED  BY <1>3, <1>4, SumIsFold

-----------------------------------------------------------------------------
(* The larger and the smaller of two numbers. *)
LEMMA Extremes ==
  \A x, y \in Int : /\ Max({x, y}) = IF x >= y THEN x ELSE y
                    /\ Min({x, y}) = IF x <= y THEN x ELSE y
<1>. SUFFICES ASSUME NEW x \in Int, NEW y \in Int
              PROVE  /\ Max({x, y}) = IF x >= y THEN x ELSE y
                     /\ Min({x, y}) = IF x <= y THEN x ELSE y
  OBVIOUS
<1>1. \E z \in {x, y} : \A u \in {x, y} : z >= u
  OBVIOUS
<1>2. \E z \in {x, y} : \A u \in {x, y} : z <= u
  OBVIOUS
<1>3. Max({x, y}) \in {x, y} /\ \A u \in {x, y} : Max({x, y}) >= u
  BY <1>1, Zenon DEF Max
<1>4. Min({x, y}) \in {x, y} /\ \A u \in {x, y} : Min({x, y}) <= u
  BY <1>2, Zenon DEF Min
<1>. QED  BY <1>3, <1>4

LEMMA Between ==
  \A x, y \in Nat : /\ Max({x, y}) \in Nat /\ x <= Max({x, y}) /\ y <= Max({x, y})
                    /\ Min({x, y}) \in Nat /\ Min({x, y}) <= x /\ Min({x, y}) <= y
<1>. SUFFICES ASSUME NEW x \in Nat, NEW y \in Nat
              PROVE  /\ Max({x, y}) \in Nat /\ x <= Max({x, y}) /\ y <= Max({x, y})
                     /\ Min({x, y}) \in Nat /\ Min({x, y}) <= x /\ Min({x, y}) <= y
  OBVIOUS
<1>1. /\ Max({x, y}) = IF x >= y THEN x ELSE y
      /\ Min({x, y}) = IF x <= y THEN x ELSE y
  BY Extremes
<1>. QED  BY <1>1

(* The shape of the store. *)
StoreType == [lines : [Account -> Entry \cup {NoEntry}], total : Nat, size : [Vec -> Nat]]

(* Each vector belongs to one entry, what is pending to one with a vector, *)
(* and no entry has or aims at too much.                                   *)
EntriesOK(st) ==
  \A a \in Known(st) :
    /\ Stored(st, a) <= MaxLinesPerAccount
    /\ st.lines[a].reloadMinLines <= MaxLinesPerAccount
    /\ st.lines[a].lines = NoVec => st.lines[a].pending = 0
    /\ \A b \in Known(st) \ {a} :
         st.lines[a].lines = st.lines[b].lines => st.lines[a].lines = NoVec

Counted(st) == /\ st.total = Cardinality(LinesOf(st, Account))
               /\ st.total <= MaxTotalLines

GoodStore(st) == st \in StoreType /\ EntriesOK(st) /\ Counted(st)

(* What a step that pins nothing leaves alone. *)
SamePins(st, new) == \A a \in Account : PreservedPins(new, a) = PreservedPins(st, a)
KeepsRead(st, new) == \A v \in Vec : SoleOwner(v) \/ new.size[v] = st.size[v]

LEMMA StoredIs ==
  ASSUME CacheAssumption, NEW st \in StoreType
  PROVE  /\ Known(st) \subseteq Account
         /\ \A a \in Account : a \in Known(st) => st.lines[a] \in Entry
         /\ \A a : a \notin Known(st) => Stored(st, a) = 0
         /\ \A a \in Known(st) :
              Stored(st, a) = (IF st.lines[a].lines = NoVec THEN 0 ELSE st.size[st.lines[a].lines])
                                + st.lines[a].pending
         /\ \A a : Stored(st, a) \in Nat
         /\ EntriesOK(st) => Bounded(st, Account)
<1>1. /\ Known(st) \subseteq Account /\ \A a \in Known(st) : st.lines[a] \in Entry
      /\ st.size \in [Vec -> Nat]
  BY DEF Known, StoreType
<1>2. \A a : a \notin Known(st) => Stored(st, a) = 0
  BY DEF Stored
<1>3. \A a \in Known(st) :
        Stored(st, a) = (IF st.lines[a].lines = NoVec THEN 0 ELSE st.size[st.lines[a].lines])
                          + st.lines[a].pending
  BY DEF Stored, StoredIn
<1>4. ASSUME NEW a \in Known(st) PROVE Stored(st, a) \in Nat
  <2>1. st.lines[a].pending \in Nat /\ st.lines[a].lines \in Vec \cup {NoVec}
    BY <1>1 DEF Entry
  <2>. QED  BY <1>1, <1>3, <2>1
<1>5. \A a : Stored(st, a) \in Nat
  BY <1>2, <1>4
<1>6. EntriesOK(st) => Bounded(st, Account)
  BY <1>2, <1>5 DEF EntriesOK, Bounded, CacheAssumption
<1>. QED  BY <1>1, <1>2, <1>3, <1>5, <1>6

(* Entries taken out with their lines. *)
LEMMA Drops ==
  ASSUME CacheAssumption, NEW st, GoodStore(st), NEW A \in SUBSET Account
  PROVE  /\ GoodStore(Drop(st, A))
         /\ Drop(st, A).size = st.size /\ Drop(st, A).total <= st.total
         /\ \A a \in Account : Drop(st, A).lines[a] = IF a \in A THEN NoEntry ELSE st.lines[a]
         /\ Known(Drop(st, A)) = Known(st) \ A
<1>. DEFINE new == Drop(st, A)
<1>0. st \in StoreType /\ EntriesOK(st) /\ Counted(st) /\ Bounded(st, Account)
  BY StoredIs DEF GoodStore
<1>1. SumStored(st, A) = Cardinality(LinesOf(st, A))
  <2>1. Bounded(st, A)
    BY <1>0 DEF Bounded
  <2>. QED  BY <2>1, SumCounts
<1>2. /\ Cardinality(LinesOf(st, A)) \in Nat /\ Cardinality(LinesOf(st, Account \ A)) \in Nat
      /\ st.total = Cardinality(LinesOf(st, A)) + Cardinality(LinesOf(st, Account \ A))
  BY <1>0, LinesSplit DEF Counted
<1>3. /\ new.lines = [a \in Account |-> IF a \in A THEN NoEntry ELSE st.lines[a]]
      /\ new.total = st.total - SumStored(st, A) /\ new.size = st.size
      /\ new = [lines |-> new.lines, total |-> new.total, size |-> new.size]
  <2>1. st = [lines |-> st.lines, total |-> st.total, size |-> st.size]
    BY <1>0 DEF StoreType
  <2>2. new = [lines |-> [a \in Account |-> IF a \in A THEN NoEntry ELSE st.lines[a]],
               total |-> st.total - SumStored(st, A), size |-> st.size]
    <3>. DEFINE l == [a \in Account |-> IF a \in A THEN NoEntry ELSE st.lines[a]]
                t == st.total - SumStored(st, A)
    <3>1. new = [st EXCEPT !.lines = l, !.total = t]
      BY DEF Drop
    <3>. HIDE DEF l, t, new
    <3>2. new = [lines |-> l, total |-> t, size |-> st.size]
      BY <2>1, <3>1
    <3>. QED  BY <3>2 DEF l, t
  <2>. QED  BY <2>2
<1>. HIDE DEF new
<1>4. new.total = Cardinality(LinesOf(st, Account \ A)) /\ new.total \in Nat
      /\ new.total <= st.total
  BY <1>1, <1>2, <1>3
<1>5. new \in StoreType
  BY <1>0, <1>3, <1>4 DEF StoreType
<1>6. Known(new) = Known(st) \ A
  BY <1>3 DEF Known
<1>7. \A a \in Account : Stored(new, a) = IF a \in A THEN 0 ELSE Stored(st, a)
  BY <1>3, <1>6 DEF Stored, StoredIn
<1>8. EntriesOK(new)
  BY <1>0, <1>3, <1>6, <1>7 DEF EntriesOK, Known
<1>9. LinesOf(new, Account) = LinesOf(st, Account \ A)
  <2>1. ASSUME NEW p \in Account \X (1 .. MaxLinesPerAccount)
        PROVE  p[2] <= Stored(new, p[1]) <=> p[1] \notin A /\ p[2] <= Stored(st, p[1])
    <3>1. p[1] \in Account /\ p[2] \in Nat /\ p[2] > 0
      BY DEF CacheAssumption
    <3>2. CASE p[1] \in A
      <4>1. Stored(new, p[1]) = 0
        BY <1>7, <3>1, <3>2
      <4>. QED  BY <3>1, <3>2, <4>1
    <3>3. CASE p[1] \notin A
      BY <1>7, <3>1, <3>3
    <3>. QED  BY <3>2, <3>3
  <2>. QED  BY <2>1 DEF LinesOf
<1>10. Counted(new)
  BY <1>0, <1>4, <1>9 DEF Counted, CacheAssumption, StoreType
<1>. QED  BY <1>3, <1>4, <1>5, <1>6, <1>8, <1>10 DEF GoodStore, new

(* The lines of one account, and those of the others. *)
LEMMA OneAndTheRest ==
  ASSUME CacheAssumption, NEW st, Bounded(st, Account), NEW a \in Account
  PROVE  /\ Cardinality(LinesOf(st, Account))
              = Stored(st, a) + Cardinality(LinesOf(st, Account \ {a}))
         /\ Cardinality(LinesOf(st, Account \ {a})) \in Nat
<1>. DEFINE one == {a}
<1>1. Cardinality(LinesOf(st, one)) = Stored(st, a)
  BY LinesOfOne DEF Bounded
<1>2. one \in SUBSET Account
  OBVIOUS
<1>3. /\ Cardinality(LinesOf(st, Account))
           = Cardinality(LinesOf(st, one)) + Cardinality(LinesOf(st, Account \ one))
      /\ Cardinality(LinesOf(st, Account \ one)) \in Nat
  <2>. HIDE DEF one
  <2>. QED  BY <1>2, LinesSplit
<1>. QED  BY <1>1, <1>3

(* One entry written, with a vector of its own, and counted. *)
Putting(st, a, new) ==
  /\ new \in StoreType
  /\ \A b \in Account \ {a} : new.lines[b] = st.lines[b]
  /\ a \in Known(new)
  /\ \A b \in Known(st) \ {a} :
       st.lines[b].lines # NoVec =>
         /\ new.lines[a].lines # st.lines[b].lines
         /\ new.size[st.lines[b].lines] = st.size[st.lines[b].lines]
  /\ Stored(new, a) <= MaxLinesPerAccount
  /\ new.lines[a].reloadMinLines <= MaxLinesPerAccount
  /\ new.lines[a].lines = NoVec => new.lines[a].pending = 0
  /\ new.total = st.total - Stored(st, a) + Stored(new, a)
  /\ new.total <= MaxTotalLines

LEMMA Puts ==
  ASSUME CacheAssumption, NEW st, GoodStore(st), NEW a \in Account, NEW new,
         Putting(st, a, new)
  PROVE  GoodStore(new) /\ Known(new) = Known(st) \cup {a}
<1>9. /\ new \in StoreType /\ a \in Known(new)
      /\ \A b \in Account \ {a} : new.lines[b] = st.lines[b]
      /\ \A b \in Known(st) \ {a} :
           st.lines[b].lines # NoVec =>
             /\ new.lines[a].lines # st.lines[b].lines
             /\ new.size[st.lines[b].lines] = st.size[st.lines[b].lines]
      /\ Stored(new, a) <= MaxLinesPerAccount
      /\ new.lines[a].reloadMinLines <= MaxLinesPerAccount
      /\ new.lines[a].lines = NoVec => new.lines[a].pending = 0
      /\ new.total = st.total - Stored(st, a) + Stored(new, a)
      /\ new.total <= MaxTotalLines
  BY DEF Putting
<1>0. st \in StoreType /\ EntriesOK(st) /\ Counted(st) /\ Bounded(st, Account)
  BY StoredIs DEF GoodStore
<1>1. Known(new) = Known(st) \cup {a}
  BY <1>9 DEF Known
<1>2. \A b \in Account \ {a} : Stored(new, b) = Stored(st, b)
  <2>. SUFFICES ASSUME NEW b \in Account \ {a} PROVE Stored(new, b) = Stored(st, b)
    OBVIOUS
  <2>1. b \in Known(new) <=> b \in Known(st)
    BY <1>1
  <2>. QED  BY <1>9, <2>1 DEF Stored, StoredIn
<1>3. EntriesOK(new)
  <2>. SUFFICES ASSUME NEW b \in Known(new)
                PROVE  /\ Stored(new, b) <= MaxLinesPerAccount
                       /\ new.lines[b].reloadMinLines <= MaxLinesPerAccount
                       /\ new.lines[b].lines = NoVec => new.lines[b].pending = 0
                       /\ \A c \in Known(new) \ {b} :
                            new.lines[b].lines = new.lines[c].lines
                              => new.lines[b].lines = NoVec
    BY DEF EntriesOK
  <2>1. \A c \in Known(new) \ {a} : c \in Known(st) /\ new.lines[c] = st.lines[c]
    BY <1>9, <1>1 DEF Known
  <2>2. CASE b = a
    <3>1. \A c \in Known(new) \ {a} :
            new.lines[a].lines = new.lines[c].lines => new.lines[a].lines = NoVec
      BY <1>9, <2>1
    <3>. QED  BY <1>9, <2>2, <3>1
  <2>3. CASE b # a
    <3>1. b \in Known(st) /\ new.lines[b] = st.lines[b]
      BY <2>1, <2>3
    <3>2. /\ Stored(new, b) <= MaxLinesPerAccount
          /\ st.lines[b].reloadMinLines <= MaxLinesPerAccount
          /\ st.lines[b].lines = NoVec => st.lines[b].pending = 0
      BY <1>0, <1>2, <2>3, <3>1 DEF EntriesOK, Known
    <3>3. ASSUME NEW c \in Known(new) \ {b}, new.lines[b].lines = new.lines[c].lines
          PROVE  new.lines[b].lines = NoVec
      <4>1. CASE c = a
        BY <1>9, <2>3, <3>1, <3>3, <4>1
      <4>2. CASE c # a
        <5>1. c \in Known(st) \ {b} /\ new.lines[c] = st.lines[c]
          BY <2>1, <3>3, <4>2
        <5>. QED  BY <1>0, <3>1, <3>3, <5>1 DEF EntriesOK
      <4>. QED  BY <4>1, <4>2
    <3>. QED  BY <3>1, <3>2, <3>3
  <2>. QED  BY <2>2, <2>3
<1>4. Bounded(new, Account)
  BY <1>9, <1>3, StoredIs
<1>5. LinesOf(new, Account \ {a}) = LinesOf(st, Account \ {a})
  BY <1>2 DEF LinesOf
<1>6. \A s2 : Bounded(s2, Account) =>
        /\ Cardinality(LinesOf(s2, Account))
             = Stored(s2, a) + Cardinality(LinesOf(s2, Account \ {a}))
        /\ Cardinality(LinesOf(s2, Account \ {a})) \in Nat
  BY OneAndTheRest
<1>7. Counted(new)
  <2>1. st.total = Stored(st, a) + Cardinality(LinesOf(st, Account \ {a}))
    <3>1. st.total = Cardinality(LinesOf(st, Account))
      BY <1>0 DEF Counted
    <3>. QED  BY <1>0, <1>6, <3>1
  <2>2. /\ Stored(st, a) \in Nat /\ Stored(new, a) \in Nat
        /\ Cardinality(LinesOf(st, Account \ {a})) \in Nat
    BY <1>9, <1>0, <1>3, <1>6, StoredIs
  <2>3. Cardinality(LinesOf(new, Account)) = Stored(new, a) + Cardinality(LinesOf(st, Account \ {a}))
    BY <1>4, <1>5, <1>6
  <2>. QED  BY <1>9, <2>1, <2>2, <2>3 DEF Counted
<1>. QED  BY <1>9, <1>1, <1>3, <1>7 DEF GoodStore

(* There is a vector that nobody refers to, and NewVec is such a one. *)
LEMMA FreshVec ==
  ASSUME CacheAssumption, NEW st \in StoreType
  PROVE  /\ NewVec(st) \in Vec /\ SoleOwner(NewVec(st))
         /\ \A a \in Known(st) : st.lines[a].lines # NewVec(st)
<1>. DEFINE read == [s \in Session |-> reader[s]]
            R == {read[s] : s \in Session}
            have == [a \in Known(st) |-> st.lines[a].lines]
            L == {have[a] : a \in Known(st)}
<1>1. IsFiniteSet(R) /\ Cardinality(R) <= Cardinality(Session)
  <2>1. read \in Surjection(Session, R)
    BY DEF Surjection
  <2>2. IsFiniteSet(Session)
    BY DEF CacheAssumption
  <2>. HIDE DEF read, R
  <2>. QED  BY <2>1, <2>2, FS_Surjection
<1>2. IsFiniteSet(L) /\ Cardinality(L) <= Cardinality(Account)
  <2>1. have \in Surjection(Known(st), L)
    BY DEF Surjection
  <2>2. Known(st) \in SUBSET Account /\ IsFiniteSet(Account)
    BY DEF CacheAssumption, Known
  <2>3. IsFiniteSet(Known(st)) /\ Cardinality(Known(st)) <= Cardinality(Account)
    BY <2>2, FS_Subset
  <2>. HIDE DEF have, L
  <2>4. IsFiniteSet(L) /\ Cardinality(L) <= Cardinality(Known(st))
    BY <2>1, <2>3, FS_Surjection
  <2>5. Cardinality(L) \in Nat /\ Cardinality(Known(st)) \in Nat /\ Cardinality(Account) \in Nat
    BY <2>2, <2>3, <2>4, FS_CardinalityType
  <2>. QED  BY <2>3, <2>4, <2>5
<1>3. \E v \in Vec : v \notin R \cup L
  <2>. HIDE DEF R, L
  <2>. SUFFICES ASSUME Vec \subseteq R \cup L PROVE FALSE
    OBVIOUS
  <2>1. /\ Cardinality(R) \in Nat /\ Cardinality(L) \in Nat /\ Cardinality(Session) \in Nat
        /\ Cardinality(Account) \in Nat /\ Cardinality(Vec) \in Nat
    BY <1>1, <1>2, FS_CardinalityType DEF CacheAssumption
  <2>2. IsFiniteSet(R \cap L) /\ Cardinality(R \cap L) \in Nat
    <3>1. R \cap L \in SUBSET R
      OBVIOUS
    <3>2. IsFiniteSet(R \cap L)
      BY <1>1, <3>1, FS_Subset
    <3>. QED  BY <3>2, FS_CardinalityType
  <2>3. /\ IsFiniteSet(R \cup L)
        /\ Cardinality(R \cup L) = Cardinality(R) + Cardinality(L) - Cardinality(R \cap L)
    BY <1>1, <1>2, FS_Union
  <2>4. Cardinality(Vec) <= Cardinality(R \cup L)
    BY <2>3, FS_Subset
  <2>5. Cardinality(Vec) > Cardinality(Account) + Cardinality(Session)
    BY DEF CacheAssumption
  <2>. QED  BY <1>1, <1>2, <2>1, <2>2, <2>3, <2>4, <2>5
<1>4. \E v \in Vec : SoleOwner(v) /\ \A a \in Known(st) : st.lines[a].lines # v
  <2>1. PICK v \in Vec : v \notin R \cup L
    BY <1>3
  <2>2. SoleOwner(v) /\ \A a \in Known(st) : st.lines[a].lines # v
    BY <2>1 DEF SoleOwner
  <2>. QED  BY <2>2
<1>. QED  BY <1>4 DEF NewVec

(* Giving up what nobody pinned, except one account, loses no pin. *)
LEMMA DropsUnpinned ==
  ASSUME CacheAssumption, NEW st, GoodStore(st), NEW A \in SUBSET Unpinned(st)
  PROVE  SamePins(st, Drop(st, A))
<1>1. A \in SUBSET Account /\ \A a \in A : st.lines[a].pinCount = 0
  BY DEF Unpinned, Known
<1>2. /\ \A a \in Account : Drop(st, A).lines[a] = IF a \in A THEN NoEntry ELSE st.lines[a]
      /\ Known(Drop(st, A)) = Known(st) \ A
  BY <1>1, Drops
<1>. QED  BY <1>1, <1>2 DEF SamePins, PreservedPins

LEMMA MakesRoom ==
  ASSUME CacheAssumption, NEW st, GoodStore(st), NEW a \in Account
  PROVE  /\ GoodStore(WithRoom(st, a)) /\ SamePins(st, WithRoom(st, a))
         /\ WithRoom(st, a).size = st.size
         /\ WithRoom(st, a).lines[a] = st.lines[a]
         /\ a \in Known(WithRoom(st, a)) <=> a \in Known(st)
<1>1. CASE RemainingBudget(st) # 0
  BY <1>1 DEF WithRoom, SamePins
<1>2. CASE RemainingBudget(st) = 0
  <2>. DEFINE A == Unpinned(st) \ {a}
  <2>1. A \in SUBSET Account /\ A \in SUBSET Unpinned(st) /\ a \notin A
    BY DEF Unpinned, Known
  <2>2. WithRoom(st, a) = Drop(st, A)
    BY <1>2 DEF WithRoom, ReclaimUnpinned
  <2>. HIDE DEF A
  <2>3. /\ GoodStore(Drop(st, A)) /\ Drop(st, A).size = st.size
        /\ Drop(st, A).lines[a] = st.lines[a]
        /\ Known(Drop(st, A)) = Known(st) \ A
    BY <2>1, Drops
  <2>4. SamePins(st, Drop(st, A))
    BY <2>1, DropsUnpinned
  <2>. QED  BY <2>1, <2>2, <2>3, <2>4
<1>. QED  BY <1>1, <1>2

LEMMA Room ==
  ASSUME CacheAssumption, NEW st, GoodStore(st)
  PROVE  /\ RemainingBudget(st) = MaxTotalLines - st.total
         /\ RemainingBudget(st) \in Nat
<1>1. st.total \in Nat /\ MaxTotalLines \in Nat /\ st.total <= MaxTotalLines
  BY DEF GoodStore, Counted, StoreType, CacheAssumption
<1>2. 0 \in Int /\ MaxTotalLines - st.total \in Int
  BY <1>1
<1>. QED  BY <1>1, <1>2, Extremes DEF RemainingBudget

(* What is pending moves into the vector, or with it into a new one. *)
LEMMA Coalesces ==
  ASSUME CacheAssumption, NEW st, GoodStore(st), NEW a \in Known(st)
  PROVE  /\ GoodStore(CoalescePending(st, a)) /\ SamePins(st, CoalescePending(st, a))
         /\ KeepsRead(st, CoalescePending(st, a))
         /\ Known(CoalescePending(st, a)) = Known(st)
<1>. DEFINE new == CoalescePending(st, a)
            e == st.lines[a]
            v == IF SoleOwner(e.lines) THEN e.lines ELSE NewVec(st)
<1>0. /\ st \in StoreType /\ EntriesOK(st) /\ Counted(st) /\ a \in Account /\ e \in Entry
      /\ Stored(st, a) = (IF e.lines = NoVec THEN 0 ELSE st.size[e.lines]) + e.pending
      /\ Stored(st, a) \in Nat
  BY StoredIs DEF GoodStore
<1>1. CASE e.pending = 0
  BY <1>0, <1>1 DEF CoalescePending, SamePins, KeepsRead
<1>2. CASE e.pending # 0
  <2>1. e.lines \in Vec /\ e.lines # NoVec /\ Stored(st, a) = st.size[e.lines] + e.pending
    BY <1>0, <1>2 DEF EntriesOK, Entry, CacheAssumption
  <2>2. /\ v \in Vec /\ SoleOwner(v) /\ v # NoVec
        /\ \A b \in Known(st) \ {a} : st.lines[b].lines # v
    BY <1>0, <2>1, FreshVec DEF EntriesOK, CacheAssumption
  <2>3. st = [lines |-> st.lines, total |-> st.total, size |-> st.size]
    BY <1>0 DEF StoreType
  <2>4. new = [lines |-> [st.lines EXCEPT ![a] = [e EXCEPT !.lines = v, !.pending = 0]],
               total |-> st.total,
               size |-> [st.size EXCEPT ![v] = Stored(st, a)]]
    <3>1. CASE SoleOwner(e.lines)
      <4>1. new = [st EXCEPT !.size[e.lines] = st.size[e.lines] + e.pending, !.lines[a].pending = 0]
        BY <1>2, <3>1 DEF CoalescePending, CoalesceInPlace
      <4>2. [e EXCEPT !.lines = v, !.pending = 0] = [e EXCEPT !.pending = 0]
        BY <1>0, <3>1 DEF Entry
      <4>. QED  BY <2>1, <2>3, <3>1, <4>1, <4>2
    <3>2. CASE ~SoleOwner(e.lines)
      <4>1. StoredIn(st, e) = Stored(st, a)
        BY <2>1 DEF StoredIn
      <4>2. new = [st EXCEPT !.size[NewVec(st)] = StoredIn(st, e),
                             !.lines[a].lines = NewVec(st), !.lines[a].pending = 0]
        BY <1>2, <3>2 DEF CoalescePending
      <4>3. v = NewVec(st)
        BY <3>2
      <4>. HIDE DEF v, new
      <4>4. new = [lines |-> [st.lines EXCEPT ![a].lines = v, ![a].pending = 0],
                   total |-> st.total, size |-> [st.size EXCEPT ![v] = Stored(st, a)]]
        BY <2>3, <4>1, <4>2, <4>3
      <4>5. [st.lines EXCEPT ![a].lines = v, ![a].pending = 0]
              = [st.lines EXCEPT ![a] = [e EXCEPT !.lines = v, !.pending = 0]]
        BY <1>0 DEF StoreType
      <4>. QED  BY <4>4, <4>5
    <3>. QED  BY <3>1, <3>2
  <2>. DEFINE f == [e EXCEPT !.lines = v, !.pending = 0]
  <2>5. /\ f \in Entry /\ f.lines = v /\ f.pending = 0 /\ f.pinCount = e.pinCount
        /\ f.reloadMinLines = e.reloadMinLines
    BY <1>0, <2>2 DEF Entry
  <2>. HIDE DEF new, e, v, f
  <2>6. new \in StoreType
    <3>1. [st.size EXCEPT ![v] = Stored(st, a)] \in [Vec -> Nat]
      BY <1>0, <2>2 DEF StoreType
    <3>2. [st.lines EXCEPT ![a] = f] \in [Account -> Entry \cup {NoEntry}]
      BY <1>0, <2>5 DEF StoreType
    <3>. QED  BY <1>0, <2>4, <3>1, <3>2 DEF StoreType, f
  <2>7. /\ new.lines[a] = f /\ \A b \in Account \ {a} : new.lines[b] = st.lines[b]
        /\ new.total = st.total
        /\ \A u \in Vec : new.size[u] = IF u = v THEN Stored(st, a) ELSE st.size[u]
    BY <1>0, <2>2, <2>4 DEF StoreType, f
  <2>8. a \in Known(new)
    BY <1>0, <2>5, <2>7 DEF Known, CacheAssumption
  <2>9. Stored(new, a) = Stored(st, a)
    <3>1. Stored(new, a) = new.size[v] + 0
      BY <2>2, <2>5, <2>6, <2>7, <2>8, StoredIs
    <3>. QED  BY <1>0, <2>2, <2>7, <3>1
  <2>10. /\ Stored(st, a) <= MaxLinesPerAccount /\ e.reloadMinLines <= MaxLinesPerAccount
         /\ st.total \in Nat /\ st.total <= MaxTotalLines
    BY <1>0 DEF EntriesOK, Counted, StoreType, e
  <2>11. ASSUME NEW b \in Known(st) \ {a}, st.lines[b].lines # NoVec
         PROVE  /\ new.lines[a].lines # st.lines[b].lines
                /\ new.size[st.lines[b].lines] = st.size[st.lines[b].lines]
    <3>1. st.lines[b].lines \in Vec
      BY <1>0, <2>11 DEF StoreType, Entry, Known
    <3>. QED  BY <2>2, <2>5, <2>7, <3>1
  <2>12. GoodStore(new) /\ Known(new) = Known(st) \cup {a}
    <3>1. new.total = st.total - Stored(st, a) + Stored(new, a)
      BY <1>0, <2>7, <2>9, <2>10
    <3>2. /\ new.total <= MaxTotalLines /\ Stored(new, a) <= MaxLinesPerAccount
          /\ new.lines[a].reloadMinLines <= MaxLinesPerAccount
          /\ new.lines[a].lines = NoVec => new.lines[a].pending = 0
      BY <2>2, <2>5, <2>7, <2>9, <2>10
    <3>3. \A b \in Account \ {a} : new.lines[b] = st.lines[b]
      BY <2>7
    <3>4. Putting(st, a, new)
      BY <2>6, <2>8, <2>11, <3>1, <3>2, <3>3 DEF Putting
    <3>. QED  BY <1>0, <3>4, Puts
  <2>13. SamePins(st, new)
    BY <2>5, <2>7, <2>12 DEF SamePins, PreservedPins, e
  <2>14. KeepsRead(st, new)
    BY <2>2, <2>7 DEF KeepsRead
  <2>. QED  BY <2>12, <2>13, <2>14 DEF new
<1>. QED  BY <1>1, <1>2

LEMMA Hints ==
  ASSUME CacheAssumption, NEW st, GoodStore(st), NEW a \in Account
  PROVE  ProgressHint(st, a) \in Nat
<1>1. CASE a \notin Known(st)
  BY <1>1 DEF ProgressHint
<1>2. CASE a \in Known(st)
  <2>1. st.lines[a].reloadMinLines \in Nat /\ Stored(st, a) \in Nat /\ LineChunkSize \in Nat
    BY <1>2, StoredIs DEF GoodStore, Entry, CacheAssumption
  <2>2. Max({st.lines[a].reloadMinLines, Stored(st, a) + LineChunkSize}) \in Nat
    <3>. DEFINE x == st.lines[a].reloadMinLines
                y == Stored(st, a) + LineChunkSize
    <3>1. x \in Nat /\ y \in Nat
      BY <2>1
    <3>. HIDE DEF x, y
    <3>2. Max({x, y}) \in Nat
      BY <3>1, Between
    <3>. QED  BY <3>2 DEF x, y
  <2>. QED  BY <1>2, <2>1, <2>2 DEF ProgressHint
<1>. QED  BY <1>1, <1>2

(* An account loaded anew keeps its pins, and no vector that is read grows. *)
LEMMA Loads ==
  ASSUME CacheAssumption, NEW st, GoodStore(st), NEW a \in Account, seq \in Nat,
         NEW chunk \in Nat, NEW new \in LoadOutgoing(st, a, chunk)
  PROVE  /\ GoodStore(new) /\ SamePins(st, new) /\ KeepsRead(st, new)
         /\ a \in Known(new) /\ new.lines[a].lines \in Vec
<1>. DEFINE made == MakeWay(st, a)
            rest == WithRoom(made, a)
            hint == ProgressHint(st, a)
            want == Min({RemainingBudget(rest), Min({MaxLinesPerAccount, Max({chunk, hint})})})
            v == NewVec(rest)
<1>1. /\ GoodStore(made) /\ made.size = st.size /\ Known(made) = Known(st) \ {a}
      /\ \A b \in Account : made.lines[b] = IF b = a THEN NoEntry ELSE st.lines[b]
  BY Drops DEF MakeWay
<1>2. /\ GoodStore(rest) /\ SamePins(made, rest) /\ rest.size = st.size
      /\ a \notin Known(rest)
  <2>. HIDE DEF made
  <2>1. /\ GoodStore(rest) /\ SamePins(made, rest) /\ rest.size = made.size
        /\ a \in Known(rest) <=> a \in Known(made)
    BY <1>1, MakesRoom
  <2>. QED  BY <1>1, <2>1
<1>3. hint \in Nat
  BY Hints
<1>4. /\ v \in Vec /\ SoleOwner(v) /\ v # NoVec
      /\ \A b \in Known(rest) : rest.lines[b].lines # v
  <2>. HIDE DEF rest
  <2>. QED  BY <1>2, FreshVec DEF GoodStore, CacheAssumption
<1>5. /\ want \in Nat /\ want <= MaxLinesPerAccount /\ want <= MaxTotalLines - rest.total
      /\ rest.total \in Nat
  <2>. DEFINE room == RemainingBudget(rest)
              m == Max({chunk, hint})
              n == Min({MaxLinesPerAccount, m})
  <2>1. room \in Nat /\ room = MaxTotalLines - rest.total /\ rest.total \in Nat
    <3>. HIDE DEF rest
    <3>. QED  BY <1>2, Room DEF GoodStore, StoreType
  <2>2. MaxLinesPerAccount \in Nat
    BY DEF CacheAssumption
  <2>. HIDE DEF room, rest, hint
  <2>3. m \in Nat
    BY <1>3, Between
  <2>. HIDE DEF m
  <2>4. n \in Nat /\ n <= MaxLinesPerAccount
    BY <2>2, <2>3, Between
  <2>. HIDE DEF n
  <2>5. Min({room, n}) \in Nat /\ Min({room, n}) <= n /\ Min({room, n}) <= room
    BY <2>1, <2>4, Between
  <2>6. want = Min({room, n})
    BY DEF room, m, n
  <2>. HIDE DEF want
  <2>. QED  BY <2>1, <2>2, <2>4, <2>5, <2>6
<1>6. PICK k \in 0 .. want :
        new = LET through == ThroughAt(k, want) \/ k >= MaxLinesPerAccount
              IN  [rest EXCEPT
                     !.total = @ + k, !.size[v] = k,
                     !.lines[a] =
                       [lines |-> v, pending |-> 0, loadedSeq |-> seq,
                        pinCount |-> PreservedPins(st, a), complete |-> through,
                        reloadMinLines |-> IF ~through /\ hint > k
                                           THEN Min({hint, MaxLinesPerAccount}) ELSE 0]]
  BY DEF LoadOutgoing
<1>. DEFINE through == ThroughAt(k, want) \/ k >= MaxLinesPerAccount
            aim == IF ~through /\ hint > k THEN Min({hint, MaxLinesPerAccount}) ELSE 0
            f == [lines |-> v, pending |-> 0, loadedSeq |-> seq,
                  pinCount |-> PreservedPins(st, a), complete |-> through,
                  reloadMinLines |-> aim]
<1>7. f \in Entry /\ f.reloadMinLines <= MaxLinesPerAccount
  <2>1. through \in BOOLEAN
    BY DEF ThroughAt
  <2>2. aim \in Nat /\ aim <= MaxLinesPerAccount
    <3>. HIDE DEF hint, through
    <3>1. MaxLinesPerAccount \in Nat
      BY DEF CacheAssumption
    <3>2. Min({hint, MaxLinesPerAccount}) \in Nat /\ Min({hint, MaxLinesPerAccount}) <= MaxLinesPerAccount
      BY <1>3, <3>1, Between
    <3>. QED  BY <3>1, <3>2
  <2>3. PreservedPins(st, a) \in Nat
    BY StoredIs DEF PreservedPins, GoodStore, Entry
  <2>. HIDE DEF through, aim, v
  <2>. QED  BY <1>4, <2>1, <2>2, <2>3 DEF Entry
<1>8. new = [rest EXCEPT !.total = rest.total + k, !.size[v] = k, !.lines[a] = f]
  BY <1>6
<1>9. /\ k \in Nat /\ k <= MaxLinesPerAccount /\ rest.total + k <= MaxTotalLines
      /\ rest.total + k \in Nat
  <2>. HIDE DEF rest, want
  <2>. QED  BY <1>5 DEF CacheAssumption
<1>10. f.lines = v /\ f.pending = 0 /\ f.pinCount = PreservedPins(st, a)
  OBVIOUS
<1>. HIDE DEF f, v, want, hint, rest, made
<1>11. rest \in StoreType
  BY <1>2 DEF GoodStore
<1>12. /\ new \in StoreType /\ new.lines[a] = f /\ new.total = rest.total + k
       /\ \A b \in Account \ {a} : new.lines[b] = rest.lines[b]
       /\ \A u \in Vec : new.size[u] = IF u = v THEN k ELSE rest.size[u]
  <2>1. rest = [lines |-> rest.lines, total |-> rest.total, size |-> rest.size]
    BY <1>11 DEF StoreType
  <2>2. new = [lines |-> [rest.lines EXCEPT ![a] = f], total |-> rest.total + k,
               size |-> [rest.size EXCEPT ![v] = k]]
    BY <1>8, <2>1
  <2>3. [rest.lines EXCEPT ![a] = f] \in [Account -> Entry \cup {NoEntry}]
    BY <1>7, <1>11 DEF StoreType
  <2>4. [rest.size EXCEPT ![v] = k] \in [Vec -> Nat]
    BY <1>4, <1>9, <1>11 DEF StoreType
  <2>5. new \in StoreType
    BY <1>9, <2>2, <2>3, <2>4 DEF StoreType
  <2>. QED  BY <1>4, <1>11, <2>2, <2>5 DEF StoreType
<1>13. a \in Known(new)
  BY <1>7, <1>12 DEF Known, CacheAssumption
<1>14. Stored(new, a) = k /\ Stored(rest, a) = 0
  <2>1. Stored(new, a) = new.size[v] + 0
    BY <1>4, <1>10, <1>12, <1>13, StoredIs
  <2>2. Stored(rest, a) = 0
    BY <1>2, <1>11, StoredIs
  <2>. QED  BY <1>4, <1>9, <1>12, <2>1, <2>2
<1>15. ASSUME NEW b \in Known(rest) \ {a}, rest.lines[b].lines # NoVec
       PROVE  /\ new.lines[a].lines # rest.lines[b].lines
              /\ new.size[rest.lines[b].lines] = rest.size[rest.lines[b].lines]
  <2>1. rest.lines[b].lines \in Vec
    BY <1>11, <1>15 DEF StoreType, Entry, Known
  <2>. QED  BY <1>4, <1>10, <1>12, <2>1
<1>16. GoodStore(new) /\ Known(new) = Known(rest) \cup {a}
  <2>1. new.total = rest.total - Stored(rest, a) + Stored(new, a)
    BY <1>5, <1>9, <1>12, <1>14
  <2>2. /\ new.total <= MaxTotalLines /\ Stored(new, a) <= MaxLinesPerAccount
        /\ new.lines[a].reloadMinLines <= MaxLinesPerAccount
        /\ new.lines[a].lines = NoVec => new.lines[a].pending = 0
    <3>1. new.lines[a] = f /\ new.total = rest.total + k
      BY <1>12
    <3>. QED  BY <1>7, <1>9, <1>10, <1>14, <3>1
  <2>3. new \in StoreType /\ \A b \in Account \ {a} : new.lines[b] = rest.lines[b]
    BY <1>12
  <2>4. \A b \in Known(rest) \ {a} :
          rest.lines[b].lines # NoVec =>
            /\ new.lines[a].lines # rest.lines[b].lines
            /\ new.size[rest.lines[b].lines] = rest.size[rest.lines[b].lines]
    BY <1>15
  <2>5. GoodStore(rest) /\ a \in Known(new)
    BY <1>2, <1>13
  <2>6. Putting(rest, a, new)
    BY <2>1, <2>2, <2>3, <2>4, <2>5 DEF Putting
  <2>. QED  BY <2>5, <2>6, Puts
<1>17. SamePins(st, new)
  <2>. SUFFICES ASSUME NEW b \in Account PROVE PreservedPins(new, b) = PreservedPins(st, b)
    BY DEF SamePins
  <2>1. CASE b = a
    BY <1>10, <1>12, <1>13, <2>1 DEF PreservedPins
  <2>2. CASE b # a
    <3>1. PreservedPins(made, b) = PreservedPins(st, b)
      BY <1>1, <2>2 DEF PreservedPins
    <3>2. PreservedPins(rest, b) = PreservedPins(made, b)
      BY <1>2 DEF SamePins
    <3>3. PreservedPins(new, b) = PreservedPins(rest, b)
      BY <1>12, <1>16, <2>2 DEF PreservedPins
    <3>. QED  BY <3>1, <3>2, <3>3
  <2>. QED  BY <2>1, <2>2
<1>18. KeepsRead(st, new)
  BY <1>2, <1>4, <1>12 DEF KeepsRead
<1>. QED  BY <1>4, <1>10, <1>12, <1>13, <1>16, <1>17, <1>18

(* Puts, of a store whose one entry, vectors and count were written.       *)
Edited(st, a, f, t, sz) ==
  [lines |-> [st.lines EXCEPT ![a] = f], total |-> t, size |-> sz]

LEMMA Edits ==
  ASSUME CacheAssumption, NEW st, GoodStore(st), NEW a \in Account, NEW f \in Entry,
         NEW sz \in [Vec -> Nat], NEW n \in Nat,
         n = (IF f.lines = NoVec THEN 0 ELSE sz[f.lines]) + f.pending,
         \A b \in Known(st) \ {a} :
           st.lines[b].lines # NoVec =>
             /\ f.lines # st.lines[b].lines
             /\ sz[st.lines[b].lines] = st.size[st.lines[b].lines],
         n <= MaxLinesPerAccount, f.reloadMinLines <= MaxLinesPerAccount,
         f.lines = NoVec => f.pending = 0,
         st.total - Stored(st, a) + n <= MaxTotalLines,
         st.total - Stored(st, a) + n \in Nat,
         NEW new, new = Edited(st, a, f, st.total - Stored(st, a) + n, sz)
  PROVE  /\ GoodStore(new) /\ Known(new) = Known(st) \cup {a} /\ new.lines[a] = f
         /\ new.size = sz
         /\ \A b \in Account \ {a} : PreservedPins(new, b) = PreservedPins(st, b)
         /\ f.pinCount = PreservedPins(st, a) => SamePins(st, new)
<1>0. st \in StoreType
  BY DEF GoodStore
<1>1. new \in StoreType
  <2>1. [st.lines EXCEPT ![a] = f] \in [Account -> Entry \cup {NoEntry}]
    BY <1>0 DEF StoreType
  <2>. QED  BY <2>1 DEF Edited, StoreType
<1>2. /\ new.lines[a] = f /\ new.size = sz /\ new.total = st.total - Stored(st, a) + n
      /\ \A b \in Account \ {a} : new.lines[b] = st.lines[b]
  BY <1>0 DEF Edited, StoreType
<1>3. a \in Known(new)
  BY <1>2 DEF Known, CacheAssumption
<1>4. Stored(new, a) = n
  BY <1>1, <1>2, <1>3, StoredIs
<1>5. GoodStore(new) /\ Known(new) = Known(st) \cup {a}
  <2>1. /\ \A b \in Account \ {a} : new.lines[b] = st.lines[b]
        /\ \A b \in Known(st) \ {a} :
             st.lines[b].lines # NoVec =>
               /\ new.lines[a].lines # st.lines[b].lines
               /\ new.size[st.lines[b].lines] = st.size[st.lines[b].lines]
    BY <1>2
  <2>2. /\ new.lines[a].reloadMinLines <= MaxLinesPerAccount
        /\ new.lines[a].lines = NoVec => new.lines[a].pending = 0
    BY <1>2
  <2>3. /\ Stored(new, a) <= MaxLinesPerAccount
        /\ new.total = st.total - Stored(st, a) + Stored(new, a)
        /\ new.total <= MaxTotalLines
    BY <1>2, <1>4
  <2>4. Putting(st, a, new)
    BY <1>1, <1>3, <2>1, <2>2, <2>3 DEF Putting
  <2>. QED  BY <2>4, Puts
<1>6. \A b \in Account \ {a} : PreservedPins(new, b) = PreservedPins(st, b)
  BY <1>2, <1>5 DEF PreservedPins
<1>7. f.pinCount = PreservedPins(st, a) => SamePins(st, new)
  <2>1. PreservedPins(new, a) = f.pinCount
    BY <1>2, <1>3 DEF PreservedPins
  <2>. QED  BY <1>6, <2>1 DEF SamePins
<1>. QED  BY <1>2, <1>5, <1>6, <1>7

(* A chunk is appended where no search reads, or waits. *)
Appended(st, a, k, l, p, sz) ==
  /\ AppendChunk(st, a, k)
       = Edited(st, a, [st.lines[a] EXCEPT !.lines = l, !.pending = p], st.total, sz)
  /\ sz[l] + p = Stored(st, a) + k
  /\ \A b \in Known(st) \ {a} :
       st.lines[b].lines # NoVec =>
         l # st.lines[b].lines /\ sz[st.lines[b].lines] = st.size[st.lines[b].lines]
  /\ \A u \in Vec : SoleOwner(u) \/ sz[u] = st.size[u]

LEMMA Appends ==
  ASSUME CacheAssumption, NEW st, GoodStore(st), NEW a \in Known(st), NEW k \in Nat
  PROVE  \E l \in Vec, p \in Nat, sz \in [Vec -> Nat] : Appended(st, a, k, l, p, sz)
<1>. DEFINE e == st.lines[a]
            v == IF e.lines = NoVec THEN NewVec(st) ELSE e.lines
<1>0. /\ st \in StoreType /\ EntriesOK(st) /\ a \in Account /\ e \in Entry
      /\ Stored(st, a) = (IF e.lines = NoVec THEN 0 ELSE st.size[e.lines]) + e.pending
      /\ st = [lines |-> st.lines, total |-> st.total, size |-> st.size]
      /\ st.size \in [Vec -> Nat] /\ st.lines \in [Account -> Entry \cup {NoEntry}]
  <2>1. st \in StoreType /\ EntriesOK(st)
    BY DEF GoodStore
  <2>2. /\ st = [lines |-> st.lines, total |-> st.total, size |-> st.size]
        /\ st.size \in [Vec -> Nat] /\ st.lines \in [Account -> Entry \cup {NoEntry}]
    BY <2>1 DEF StoreType
  <2>. QED  BY <2>1, <2>2, StoredIs
<1>1. /\ e.pending \in Nat /\ e.lines \in Vec \cup {NoVec} /\ NoVec \notin Vec
      /\ e.lines = NoVec => e.pending = 0
  BY <1>0 DEF Entry, CacheAssumption, EntriesOK
<1>2. /\ v \in Vec /\ (e.lines = NoVec => SoleOwner(v))
      /\ \A b \in Known(st) \ {a} : st.lines[b].lines # NoVec => v # st.lines[b].lines
      /\ \A b \in Known(st) : st.lines[b].lines # NoVec => st.lines[b].lines \in Vec
  <2>1. \A b \in Known(st) : st.lines[b].lines # NoVec => st.lines[b].lines \in Vec
    BY <1>0 DEF Entry, Known
  <2>. QED  BY <1>0, <1>1, <2>1, FreshVec DEF EntriesOK
<1>3. CASE e.lines = NoVec
  <2>. DEFINE sz == [st.size EXCEPT ![v] = k]
  <2>1. sz \in [Vec -> Nat] /\ sz[v] + 0 = Stored(st, a) + k
    BY <1>0, <1>1, <1>2, <1>3
  <2>2. AppendChunk(st, a, k) = [st EXCEPT !.size[v] = k, !.lines[a].lines = v]
    BY <1>3 DEF AppendChunk
  <2>3. [e EXCEPT !.lines = v, !.pending = 0] = [e EXCEPT !.lines = v]
    BY <1>0, <1>1, <1>3 DEF Entry
  <2>. HIDE DEF v
  <2>4. AppendChunk(st, a, k) = [lines |-> [st.lines EXCEPT ![a].lines = v],
                                 total |-> st.total, size |-> sz]
    BY <1>0, <2>2
  <2>5. [st.lines EXCEPT ![a].lines = v] = [st.lines EXCEPT ![a] = [e EXCEPT !.lines = v]]
    BY <1>0
  <2>6. AppendChunk(st, a, k) = Edited(st, a, [e EXCEPT !.lines = v, !.pending = 0], st.total, sz)
    BY <2>3, <2>4, <2>5 DEF Edited
  <2>. HIDE DEF e
  <2>7. /\ \A b \in Known(st) \ {a} :
             st.lines[b].lines # NoVec =>
               v # st.lines[b].lines /\ sz[st.lines[b].lines] = st.size[st.lines[b].lines]
        /\ \A u \in Vec : SoleOwner(u) \/ sz[u] = st.size[u]
    BY <1>0, <1>2, <1>3
  <2>8. Appended(st, a, k, v, 0, sz)
    BY <2>1, <2>6, <2>7 DEF Appended, e
  <2>. HIDE DEF sz
  <2>. QED  BY <1>2, <2>1, <2>8
<1>4. CASE e.lines # NoVec /\ k = 0
  <2>1. AppendChunk(st, a, k) = st
    BY <1>4 DEF AppendChunk
  <2>2. st.size[e.lines] + e.pending = Stored(st, a) + k
    BY <1>0, <1>1, <1>4
  <2>3. [e EXCEPT !.lines = e.lines, !.pending = e.pending] = e
    BY <1>0 DEF Entry
  <2>4. [st.lines EXCEPT ![a] = e] = st.lines
    BY <1>0
  <2>5. st = Edited(st, a, [e EXCEPT !.lines = e.lines, !.pending = e.pending],
                    st.total, st.size)
    BY <1>0, <2>3, <2>4 DEF Edited
  <2>6. e.lines \in Vec /\ \A b \in Known(st) \ {a} :
          st.lines[b].lines # NoVec => e.lines # st.lines[b].lines
    BY <1>1, <1>2, <1>4
  <2>7. Appended(st, a, k, e.lines, e.pending, st.size)
    <3>. HIDE DEF e
    <3>1. AppendChunk(st, a, k)
            = Edited(st, a, [e EXCEPT !.lines = e.lines, !.pending = e.pending], st.total, st.size)
      BY <2>1, <2>5
    <3>. QED  BY <2>2, <2>6, <3>1 DEF Appended, e
  <2>. QED  BY <1>0, <1>1, <2>6, <2>7
<1>5. CASE e.lines # NoVec /\ k # 0 /\ SoleOwner(e.lines)
  <2>. DEFINE sz == [st.size EXCEPT ![e.lines] = st.size[e.lines] + e.pending + k]
  <2>1. sz \in [Vec -> Nat] /\ sz[e.lines] + 0 = Stored(st, a) + k
    BY <1>0, <1>1, <1>5
  <2>2. AppendChunk(st, a, k)
          = [st EXCEPT !.size[e.lines] = st.size[e.lines] + e.pending + k, !.lines[a].pending = 0]
    BY <1>5 DEF AppendChunk
  <2>3. [e EXCEPT !.lines = e.lines, !.pending = 0] = [e EXCEPT !.pending = 0]
    BY <1>0 DEF Entry
  <2>4. AppendChunk(st, a, k) = [lines |-> [st.lines EXCEPT ![a].pending = 0],
                                 total |-> st.total, size |-> sz]
    BY <1>0, <2>2
  <2>5. [st.lines EXCEPT ![a].pending = 0] = [st.lines EXCEPT ![a] = [e EXCEPT !.pending = 0]]
    BY <1>0
  <2>6. AppendChunk(st, a, k)
          = Edited(st, a, [e EXCEPT !.lines = e.lines, !.pending = 0], st.total, sz)
    BY <2>3, <2>4, <2>5 DEF Edited
  <2>7. /\ \A b \in Known(st) \ {a} :
             st.lines[b].lines # NoVec =>
               e.lines # st.lines[b].lines /\ sz[st.lines[b].lines] = st.size[st.lines[b].lines]
        /\ \A u \in Vec : SoleOwner(u) \/ sz[u] = st.size[u]
    BY <1>0, <1>2, <1>5
  <2>8. e.lines \in Vec
    BY <1>1, <1>5
  <2>9. Appended(st, a, k, e.lines, 0, sz)
    BY <2>1, <2>6, <2>7 DEF Appended, e
  <2>. HIDE DEF sz
  <2>. QED  BY <2>1, <2>8, <2>9
<1>6. CASE e.lines # NoVec /\ k # 0 /\ ~SoleOwner(e.lines)
  <2>1. st.size[e.lines] + (e.pending + k) = Stored(st, a) + k /\ e.pending + k \in Nat
    BY <1>0, <1>1, <1>6
  <2>2. AppendChunk(st, a, k) = [st EXCEPT !.lines[a].pending = e.pending + k]
    BY <1>6 DEF AppendChunk
  <2>3. [e EXCEPT !.lines = e.lines, !.pending = e.pending + k] = [e EXCEPT !.pending = e.pending + k]
    BY <1>0 DEF Entry
  <2>4. AppendChunk(st, a, k) = [lines |-> [st.lines EXCEPT ![a].pending = e.pending + k],
                                 total |-> st.total, size |-> st.size]
    BY <1>0, <2>2
  <2>5. [st.lines EXCEPT ![a].pending = e.pending + k]
          = [st.lines EXCEPT ![a] = [e EXCEPT !.pending = e.pending + k]]
    BY <1>0
  <2>6. AppendChunk(st, a, k)
          = Edited(st, a, [e EXCEPT !.lines = e.lines, !.pending = e.pending + k], st.total, st.size)
    BY <2>3, <2>4, <2>5 DEF Edited
  <2>7. \A b \in Known(st) \ {a} : st.lines[b].lines # NoVec => e.lines # st.lines[b].lines
    BY <1>2, <1>6
  <2>8. e.lines \in Vec
    BY <1>1, <1>6
  <2>9. Appended(st, a, k, e.lines, e.pending + k, st.size)
    BY <2>1, <2>6, <2>7 DEF Appended, e
  <2>. QED  BY <1>0, <2>1, <2>8, <2>9
<1>. QED  BY <1>3, <1>4, <1>5, <1>6

(* An account expanded keeps its pins, and no vector that is read grows.   *)
LEMMA Expands ==
  ASSUME CacheAssumption, NEW st, GoodStore(st), NEW a \in Known(st), NEW chunk \in Nat,
         NEW x \in ExpandAccount(st, a, chunk)
  PROVE  /\ GoodStore(x.st) /\ SamePins(st, x.st) /\ KeepsRead(st, x.st)
         /\ a \in Known(x.st) /\ x.added \in Nat
<1>. DEFINE e == st.lines[a]
            have == Stored(st, a)
            rest == WithRoom(st, a)
<1>0. /\ st \in StoreType /\ EntriesOK(st) /\ a \in Account /\ e \in Entry
      /\ have \in Nat /\ have <= MaxLinesPerAccount /\ MaxLinesPerAccount \in Nat
      /\ have = (IF e.lines = NoVec THEN 0 ELSE st.size[e.lines]) + e.pending
      /\ st.total \in Nat /\ st.total <= MaxTotalLines /\ MaxTotalLines \in Nat
  BY StoredIs DEF GoodStore, Counted, StoreType, EntriesOK, CacheAssumption
<1>1. CASE have >= MaxLinesPerAccount
  <2>. DEFINE f == [e EXCEPT !.complete = TRUE]
  <2>1. x = [st |-> [st EXCEPT !.lines[a].complete = TRUE], added |-> 0]
    BY <1>1 DEF ExpandAccount
  <2>2. /\ f \in Entry /\ f.lines = e.lines /\ f.pending = e.pending /\ f.pinCount = e.pinCount
        /\ f.reloadMinLines = e.reloadMinLines
    BY <1>0 DEF Entry
  <2>3. st = [lines |-> st.lines, total |-> st.total, size |-> st.size]
    BY <1>0 DEF StoreType
  <2>4. x.st = [lines |-> [st.lines EXCEPT ![a].complete = TRUE], total |-> st.total,
                size |-> st.size]
    BY <2>1, <2>3
  <2>5. [st.lines EXCEPT ![a].complete = TRUE] = [st.lines EXCEPT ![a] = f]
    BY <1>0 DEF StoreType
  <2>. HIDE DEF f
  <2>6. st.total - have + have = st.total
    BY <1>0
  <2>7. x.st = Edited(st, a, f, st.total - have + have, st.size)
    BY <2>4, <2>5, <2>6 DEF Edited
  <2>8. /\ st.size \in [Vec -> Nat] /\ f.reloadMinLines <= MaxLinesPerAccount
        /\ f.lines = NoVec => f.pending = 0
        /\ \A b \in Known(st) \ {a} : st.lines[b].lines # NoVec => f.lines # st.lines[b].lines
    BY <1>0, <2>2 DEF StoreType, EntriesOK
  <2>9. have = (IF f.lines = NoVec THEN 0 ELSE st.size[f.lines]) + f.pending
    BY <1>0, <2>2
  <2>. HIDE DEF e
  <2>10. /\ GoodStore(x.st) /\ Known(x.st) = Known(st) \cup {a} /\ x.st.size = st.size
         /\ f.pinCount = PreservedPins(st, a) => SamePins(st, x.st)
    BY <1>0, <2>2, <2>6, <2>7, <2>8, <2>9, Edits, SMTT(30)
  <2>11. f.pinCount = PreservedPins(st, a)
    BY <2>2 DEF PreservedPins, e
  <2>. QED  BY <2>1, <2>10, <2>11 DEF KeepsRead
<1>2. /\ GoodStore(rest) /\ SamePins(st, rest) /\ rest.size = st.size
      /\ rest.lines[a] = e /\ a \in Known(rest)
  BY <1>0, MakesRoom
<1>3. CASE have < MaxLinesPerAccount /\ RemainingBudget(rest) = 0
  <2>1. x = [st |-> rest, added |-> 0]
    BY <1>0, <1>3 DEF ExpandAccount
  <2>. HIDE DEF rest
  <2>. QED  BY <1>2, <2>1 DEF KeepsRead
<1>4. CASE have < MaxLinesPerAccount /\ RemainingBudget(rest) # 0
  <2>. DEFINE gap == e.reloadMinLines - have
              goal == Max({chunk, gap})
              room == RemainingBudget(rest)
              most == Min({goal, room})
              want == Min({most, MaxLinesPerAccount - have})
              Complete(k) == ThroughAt(k, want) \/ have + k >= MaxLinesPerAccount
              Aim(k, r) == IF k > 0 /\ have + k >= r THEN 0 ELSE r
  <2>. DEFINE Grow(k) == [st |-> [AppendChunk(rest, a, k) EXCEPT
                                    !.total = @ + k,
                                    !.lines[a].complete = Complete(k),
                                    !.lines[a].reloadMinLines = Aim(k, @)],
                          added |-> k]
  <2>1. PICK k \in 0 .. want : x = Grow(k)
    <3>1. ~(have >= MaxLinesPerAccount)
      BY <1>0, <1>4
    <3>2. ExpandAccount(st, a, chunk) = {Grow(k) : k \in 0 .. want}
      BY <1>4, <3>1, Zenon DEF ExpandAccount
    <3>. HIDE DEF want, Grow
    <3>. QED  BY <3>2
  <2>2. k \in Nat /\ have + k <= MaxLinesPerAccount /\ k <= room
        /\ room = MaxTotalLines - rest.total
    <3>1. room \in Nat /\ room = MaxTotalLines - rest.total
      <4>. HIDE DEF rest
      <4>. QED  BY <1>2, Room
    <3>. DEFINE left == MaxLinesPerAccount - have
    <3>2. gap \in Int /\ left \in Nat
      <4>1. e.reloadMinLines \in Nat
        BY <1>0 DEF Entry
      <4>. HIDE DEF e, have
      <4>. QED  BY <1>0, <1>4, <4>1
    <3>. HIDE DEF gap, room, left, have, e, rest
    <3>3. goal = IF chunk >= gap THEN chunk ELSE gap
      BY <3>2, Extremes
    <3>4. goal \in Nat
      BY <3>2, <3>3
    <3>. HIDE DEF goal
    <3>5. most \in Nat /\ most <= room
      BY <3>1, <3>4, Between
    <3>. HIDE DEF most
    <3>6. Min({most, left}) \in Nat /\ Min({most, left}) <= left /\ Min({most, left}) <= most
      BY <3>2, <3>5, Between
    <3>7. want = Min({most, left})
      BY DEF left
    <3>. HIDE DEF want
    <3>8. k \in Nat /\ k <= left /\ k <= room
      BY <3>1, <3>2, <3>5, <3>6, <3>7
    <3>. QED  BY <1>0, <3>1, <3>8 DEF left, have
  <2>3. Complete(k) \in BOOLEAN
    BY DEF ThroughAt
  <2>. DEFINE c == Complete(k)
  <2>. HIDE DEF want, Complete, rest, e, have
  <2>4. PICK l \in Vec, p \in Nat, sz \in [Vec -> Nat] : Appended(rest, a, k, l, p, sz)
    BY <1>2, <2>2, Appends
  <2>. DEFINE g == [e EXCEPT !.lines = l, !.pending = p]
              r == Aim(k, e.reloadMinLines)
              f == [g EXCEPT !.complete = c, !.reloadMinLines = r]
              got == [lines |-> [rest.lines EXCEPT ![a] = g], total |-> rest.total, size |-> sz]
  <2>5. AppendChunk(rest, a, k) = got
    BY <1>2, <2>4 DEF Appended, Edited
  <2>6. g \in Entry /\ g.reloadMinLines = e.reloadMinLines
    BY <1>0, <2>4 DEF Entry
  <2>7. /\ f \in Entry /\ f.lines = l /\ f.pending = p /\ f.pinCount = e.pinCount
        /\ f.reloadMinLines = r
    <3>1. r \in Nat /\ c \in BOOLEAN
      BY <1>0, <2>3 DEF Entry
    <3>. HIDE DEF c, r
    <3>. QED  BY <1>0, <2>3, <2>4, <3>1 DEF Entry
  <2>8. /\ rest \in StoreType /\ rest.lines \in [Account -> Entry \cup {NoEntry}]
        /\ rest.total \in Nat
    BY <1>2 DEF GoodStore, StoreType
  <2>9. x.st = [lines |-> [[rest.lines EXCEPT ![a] = g] EXCEPT
                             ![a].complete = c, ![a].reloadMinLines = Aim(k, @)],
                total |-> rest.total + k, size |-> sz]
    <3>. DEFINE A == AppendChunk(rest, a, k)
                L == [rest.lines EXCEPT ![a] = g]
                z == Aim(k, L[a].reloadMinLines)
    <3>1. A = [lines |-> L, total |-> rest.total, size |-> sz]
      BY <2>5
    <3>. HIDE DEF A, L
    <3>2. A.lines[a] = L[a] /\ A.total = rest.total /\ A.lines = L
      BY <3>1
    <3>3. x.st = [A EXCEPT !.total = A.total + k, !.lines[a].complete = c,
                           !.lines[a].reloadMinLines = Aim(k, A.lines[a].reloadMinLines)]
      BY <2>1 DEF A
    <3>. HIDE DEF Aim, c, z
    <3>4. x.st = [A EXCEPT !.total = rest.total + k, !.lines[a].complete = c,
                           !.lines[a].reloadMinLines = z]
      BY <3>2, <3>3 DEF z
    <3>5. x.st = [lines |-> [L EXCEPT ![a].complete = c, ![a].reloadMinLines = z],
                  total |-> rest.total + k, size |-> sz]
      BY <3>1, <3>4
    <3>. QED  BY <3>5 DEF L, z
  <2>10. [[rest.lines EXCEPT ![a] = g] EXCEPT ![a].complete = c, ![a].reloadMinLines = Aim(k, @)]
           = [rest.lines EXCEPT ![a] = f]
    <3>1. [[rest.lines EXCEPT ![a] = g] EXCEPT ![a].complete = c, ![a].reloadMinLines = Aim(k, @)]
            = [rest.lines EXCEPT ![a] = [g EXCEPT !.complete = c, !.reloadMinLines = Aim(k, @)]]
      <4>. HIDE DEF g, c, Aim
      <4>. QED  BY <1>0, <2>6, <2>8 DEF Entry
    <3>2. [g EXCEPT !.complete = c, !.reloadMinLines = Aim(k, @)] = f
      <4>. HIDE DEF g, c, Aim
      <4>. QED  BY <2>6 DEF Entry
    <3>. QED  BY <3>1, <3>2
  <2>. DEFINE n == Stored(rest, a) + k
  <2>11. Stored(rest, a) = have /\ n \in Nat
    <3>1. /\ Stored(rest, a) = (IF rest.lines[a].lines = NoVec THEN 0
                                ELSE rest.size[rest.lines[a].lines]) + rest.lines[a].pending
      BY <1>2, <2>8, StoredIs
    <3>. QED  BY <1>0, <1>2, <2>2, <3>1
  <2>12. /\ rest.total - Stored(rest, a) + n = rest.total + k
         /\ rest.total + k \in Nat /\ rest.total + k <= MaxTotalLines
    BY <1>0, <2>2, <2>8, <2>11
  <2>13. n = (IF f.lines = NoVec THEN 0 ELSE sz[f.lines]) + f.pending /\ f.lines # NoVec
    BY <2>4, <2>7 DEF Appended, CacheAssumption
  <2>14. f.reloadMinLines <= MaxLinesPerAccount /\ n <= MaxLinesPerAccount
    <3>1. r <= MaxLinesPerAccount
      BY <1>0 DEF EntriesOK, e
    <3>. QED  BY <2>2, <2>7, <2>11, <3>1
  <2>15. x.st = Edited(rest, a, f, rest.total - Stored(rest, a) + n, sz)
    BY <2>9, <2>10, <2>12 DEF Edited
  <2>16. \A b \in Known(rest) \ {a} :
           rest.lines[b].lines # NoVec =>
             /\ f.lines # rest.lines[b].lines
             /\ sz[rest.lines[b].lines] = rest.size[rest.lines[b].lines]
    BY <2>4, <2>7 DEF Appended
  <2>. HIDE DEF f, g, r, c, n
  <2>17. /\ GoodStore(x.st) /\ Known(x.st) = Known(rest) \cup {a} /\ x.st.size = sz
         /\ f.pinCount = PreservedPins(rest, a) => SamePins(rest, x.st)
    BY <1>0, <1>2, <2>7, <2>11, <2>12, <2>13, <2>14, <2>15, <2>16, Edits
  <2>18. f.pinCount = PreservedPins(rest, a)
    BY <1>2, <2>7 DEF PreservedPins
  <2>19. SamePins(st, x.st)
    BY <1>2, <2>17, <2>18 DEF SamePins
  <2>20. KeepsRead(st, x.st)
    BY <1>2, <2>4, <2>17 DEF Appended, KeepsRead
  <2>21. x.added = k
    BY <2>1
  <2>. QED  BY <2>2, <2>17, <2>19, <2>20, <2>21
<1>. QED  BY <1>0, <1>1, <1>3, <1>4

(* The next ledger keeps every pinned account, if only as a stub, and its  *)
(* pins; no vector changes.                                                *)
Advanced(st, n) ==
  LET kept  == Drop(st, Unpinned(st))
      stubs == {a \in Known(kept) : ~kept.lines[a].complete}
  IN  [kept EXCEPT
         !.lines = [a \in Account |->
            IF a \in Known(kept) THEN Softened(@[a], Stored(kept, a), n) ELSE @[a]],
         !.total = Drop(kept, stubs).total]

LEMMA Softens ==
  ASSUME CacheAssumption, NEW e \in Entry, ~e.complete, NEW k \in Nat, NEW n \in Nat,
         e.reloadMinLines <= MaxLinesPerAccount
  PROVE  /\ Softened(e, k, n) \in Entry /\ Softened(e, k, n).lines = NoVec
         /\ Softened(e, k, n).pending = 0 /\ Softened(e, k, n).pinCount = e.pinCount
         /\ Softened(e, k, n).reloadMinLines <= MaxLinesPerAccount
<1>. DEFINE hint == LimitedHint(k + LineChunkSize)
            r == Max({e.reloadMinLines, hint})
<1>1. MaxLinesPerAccount \in Nat /\ k + LineChunkSize \in Nat /\ e.reloadMinLines \in Nat
  BY DEF CacheAssumption, Entry
<1>2. hint \in Nat /\ hint <= MaxLinesPerAccount
  BY <1>1, Between DEF LimitedHint
<1>3. Softened(e, k, n) = [e EXCEPT !.lines = NoVec, !.pending = 0, !.loadedSeq = n,
                                    !.reloadMinLines = r]
  BY DEF Softened
<1>. HIDE DEF hint
<1>4. r = IF e.reloadMinLines >= hint THEN e.reloadMinLines ELSE hint
  BY <1>1, <1>2, Extremes
<1>5. r \in Nat /\ r <= MaxLinesPerAccount
  BY <1>1, <1>2, <1>4
<1>. HIDE DEF r
<1>6. /\ e.loadedSeq \in Nat /\ e.pinCount \in Nat /\ e.complete \in BOOLEAN
      /\ e = [lines |-> e.lines, pending |-> e.pending, loadedSeq |-> e.loadedSeq,
              pinCount |-> e.pinCount, complete |-> e.complete,
              reloadMinLines |-> e.reloadMinLines]
  BY DEF Entry
<1>7. Softened(e, k, n) =
        [lines |-> NoVec, pending |-> 0, loadedSeq |-> n, pinCount |-> e.pinCount,
         complete |-> e.complete, reloadMinLines |-> r]
  BY <1>3, <1>6
<1>. QED  BY <1>5, <1>6, <1>7 DEF Entry

LEMMA Advances ==
  ASSUME CacheAssumption, NEW st, GoodStore(st), NEW n \in Nat
  PROVE  /\ GoodStore(Advanced(st, n)) /\ SamePins(st, Advanced(st, n))
         /\ Advanced(st, n).size = st.size
<1>. DEFINE kept == Drop(st, Unpinned(st))
            stubs == {a \in Known(kept) : ~kept.lines[a].complete}
            less == Drop(kept, stubs)
            new == Advanced(st, n)
<1>1. GoodStore(kept) /\ kept.size = st.size /\ SamePins(st, kept)
  <2>1. Unpinned(st) \in SUBSET Account
    BY DEF Unpinned, Known
  <2>. QED  BY <2>1, Drops, DropsUnpinned
<1>. DEFINE l == [a \in Account |->
                    IF a \in Known(kept) THEN Softened(kept.lines[a], Stored(kept, a), n)
                    ELSE kept.lines[a]]
<1>2. new = [kept EXCEPT !.lines = l, !.total = less.total]
  BY DEF Advanced
<1>. HIDE DEF kept, new
<1>3. kept \in StoreType /\ EntriesOK(kept) /\ stubs \in SUBSET Account
  BY <1>1 DEF GoodStore, Known
<1>4. /\ GoodStore(less) /\ less.size = kept.size /\ Known(less) = Known(kept) \ stubs
      /\ \A a \in Account : less.lines[a] = IF a \in stubs THEN NoEntry ELSE kept.lines[a]
  <2>. HIDE DEF stubs, l
  <2>1. stubs \in SUBSET Account /\ GoodStore(kept)
    BY <1>1, <1>3
  <2>. QED  BY <2>1, Drops
<1>5. /\ new.lines = l /\ new.total = less.total /\ new.size = kept.size
      /\ new = [lines |-> new.lines, total |-> new.total, size |-> new.size]
  <2>1. kept = [lines |-> kept.lines, total |-> kept.total, size |-> kept.size]
    BY <1>3 DEF StoreType
  <2>. HIDE DEF l, less
  <2>. QED  BY <1>2, <2>1
<1>6. \A a \in stubs : /\ new.lines[a] \in Entry /\ new.lines[a].lines = NoVec
                       /\ new.lines[a].pending = 0
                       /\ new.lines[a].pinCount = kept.lines[a].pinCount
                       /\ new.lines[a].reloadMinLines <= MaxLinesPerAccount
  <2>. SUFFICES ASSUME NEW a \in stubs
                PROVE  /\ new.lines[a] \in Entry /\ new.lines[a].lines = NoVec
                       /\ new.lines[a].pending = 0
                       /\ new.lines[a].pinCount = kept.lines[a].pinCount
                       /\ new.lines[a].reloadMinLines <= MaxLinesPerAccount
    OBVIOUS
  <2>1. /\ a \in Known(kept) /\ a \in Account /\ kept.lines[a] \in Entry
        /\ ~kept.lines[a].complete /\ Stored(kept, a) \in Nat
        /\ kept.lines[a].reloadMinLines <= MaxLinesPerAccount
    BY <1>3, StoredIs DEF EntriesOK
  <2>2. new.lines[a] = Softened(kept.lines[a], Stored(kept, a), n)
    BY <1>5, <2>1
  <2>. QED  BY <2>1, <2>2, Softens
<1>7. \A a \in Account \ stubs : new.lines[a] = kept.lines[a] /\ new.lines[a] = less.lines[a]
  <2>. SUFFICES ASSUME NEW a \in Account \ stubs
                PROVE  new.lines[a] = kept.lines[a] /\ new.lines[a] = less.lines[a]
    OBVIOUS
  <2>1. less.lines[a] = kept.lines[a]
    <3>. HIDE DEF less, stubs
    <3>. QED  BY <1>4
  <2>2. new.lines[a] = kept.lines[a]
    <3>. HIDE DEF less
    <3>. QED  BY <1>5 DEF Softened
  <2>. QED  BY <2>1, <2>2
<1>. HIDE DEF l
<1>8. Known(new) = Known(kept)
  <2>1. \A a \in Account : a \in Known(new) <=> a \in Known(kept)
    <3>. SUFFICES ASSUME NEW a \in Account PROVE a \in Known(new) <=> a \in Known(kept)
      OBVIOUS
    <3>1. CASE a \in stubs
      BY <1>6, <3>1 DEF Known, CacheAssumption
    <3>2. CASE a \notin stubs
      BY <1>7, <3>2 DEF Known
    <3>. QED  BY <3>1, <3>2
  <2>. QED  BY <2>1 DEF Known
<1>. HIDE DEF stubs, less
<1>9. new \in StoreType
  <2>1. \A a \in Account : new.lines[a] \in Entry \cup {NoEntry}
    BY <1>3, <1>6, <1>7 DEF StoreType
  <2>2. new.lines \in [Account -> Entry \cup {NoEntry}]
    BY <1>5, <2>1 DEF l
  <2>3. less.total \in Nat
    BY <1>4 DEF GoodStore, StoreType
  <2>. QED  BY <1>3, <1>5, <2>2, <2>3 DEF StoreType
<1>10. \A a \in Account : Stored(new, a) = Stored(less, a)
  <2>. SUFFICES ASSUME NEW a \in Account PROVE Stored(new, a) = Stored(less, a)
    OBVIOUS
  <2>1. less \in StoreType
    BY <1>4 DEF GoodStore
  <2>2. CASE a \in stubs
    <3>1. Stored(less, a) = 0
      BY <1>4, <2>1, <2>2, StoredIs
    <3>2. a \in Known(new)
      BY <1>8, <2>2 DEF stubs
    <3>3. Stored(new, a) = 0 + 0
      BY <1>6, <1>9, <2>2, <3>2, StoredIs
    <3>. QED  BY <3>1, <3>3
  <2>3. CASE a \notin stubs
    <3>1. a \in Known(new) <=> a \in Known(less)
      BY <1>4, <1>8, <2>3
    <3>. QED  BY <1>4, <1>5, <1>7, <2>3, <3>1 DEF Stored, StoredIn
  <2>. QED  BY <2>2, <2>3
<1>11. EntriesOK(new)
  <2>. SUFFICES ASSUME NEW a \in Known(new)
                PROVE  /\ Stored(new, a) <= MaxLinesPerAccount
                       /\ new.lines[a].reloadMinLines <= MaxLinesPerAccount
                       /\ new.lines[a].lines = NoVec => new.lines[a].pending = 0
                       /\ \A b \in Known(new) \ {a} :
                            new.lines[a].lines = new.lines[b].lines => new.lines[a].lines = NoVec
    BY DEF EntriesOK
  <2>1. a \in Account /\ a \in Known(kept) /\ Known(new) \subseteq Account
    BY <1>8 DEF Known
  <2>2. CASE a \in stubs
    <3>1. Stored(new, a) = 0
      BY <1>4, <1>10, <2>1, <2>2, StoredIs DEF GoodStore
    <3>. QED  BY <1>6, <2>2, <3>1 DEF CacheAssumption
  <2>3. CASE a \notin stubs
    <3>1. a \in Known(less)
      BY <1>4, <2>1, <2>3
    <3>2. /\ Stored(less, a) <= MaxLinesPerAccount
          /\ new.lines[a] = kept.lines[a] /\ new.lines[a] = less.lines[a]
      BY <1>4, <1>7, <2>1, <2>3, <3>1 DEF GoodStore, EntriesOK
    <3>3. ASSUME NEW b \in Known(new) \ {a}, new.lines[a].lines = new.lines[b].lines
          PROVE  new.lines[a].lines = NoVec
      <4>1. CASE b \in stubs
        BY <1>6, <3>3, <4>1
      <4>2. CASE b \notin stubs
        BY <1>3, <1>7, <1>8, <2>1, <3>2, <3>3, <4>2 DEF EntriesOK
      <4>. QED  BY <4>1, <4>2
    <3>. QED  BY <1>3, <1>10, <2>1, <3>2, <3>3 DEF EntriesOK
  <2>. QED  BY <2>2, <2>3
<1>12. Counted(new)
  <2>1. LinesOf(new, Account) = LinesOf(less, Account)
    BY <1>10 DEF LinesOf
  <2>. QED  BY <1>4, <1>5, <2>1 DEF GoodStore, Counted
<1>13. SamePins(st, new)
  <2>. SUFFICES ASSUME NEW a \in Account PROVE PreservedPins(new, a) = PreservedPins(st, a)
    BY DEF SamePins
  <2>1. PreservedPins(new, a) = PreservedPins(kept, a)
    <3>1. CASE a \in stubs
      BY <1>6, <1>8, <3>1 DEF PreservedPins
    <3>2. CASE a \notin stubs
      BY <1>7, <1>8, <3>2 DEF PreservedPins
    <3>. QED  BY <3>1, <3>2
  <2>. QED  BY <1>1, <2>1 DEF SamePins
<1>. QED  BY <1>1, <1>5, <1>9, <1>11, <1>12, <1>13 DEF GoodStore, new

(* One more pin on an entry, one less on several. *)
Pinning(st, a) == [st EXCEPT !.lines[a].pinCount = @ + 1]

LEMMA Pins ==
  ASSUME CacheAssumption, NEW st, GoodStore(st), NEW a \in Known(st)
  PROVE  /\ GoodStore(Pinning(st, a)) /\ Pinning(st, a).size = st.size
         /\ Pinning(st, a).lines[a].lines = st.lines[a].lines
         /\ PreservedPins(Pinning(st, a), a) = PreservedPins(st, a) + 1
         /\ \A b \in Account \ {a} :
              PreservedPins(Pinning(st, a), b) = PreservedPins(st, b)
<1>. DEFINE new == Pinning(st, a)
            e == st.lines[a]
            f == [e EXCEPT !.pinCount = @ + 1]
            n == Stored(st, a)
<1>0. /\ st \in StoreType /\ EntriesOK(st) /\ a \in Account /\ e \in Entry /\ n \in Nat
      /\ n = (IF e.lines = NoVec THEN 0 ELSE st.size[e.lines]) + e.pending
      /\ st.total \in Nat /\ st.total <= MaxTotalLines
  BY StoredIs DEF GoodStore, Counted, StoreType
<1>1. /\ f \in Entry /\ f.lines = e.lines /\ f.pending = e.pending
      /\ f.reloadMinLines = e.reloadMinLines /\ f.pinCount = e.pinCount + 1
  BY <1>0 DEF Entry
<1>2. st.total - n + n = st.total
  BY <1>0
<1>3. new = Edited(st, a, f, st.total - n + n, st.size)
  <2>1. st = [lines |-> st.lines, total |-> st.total, size |-> st.size]
    BY <1>0 DEF StoreType
  <2>2. new = [lines |-> [st.lines EXCEPT ![a].pinCount = e.pinCount + 1],
               total |-> st.total, size |-> st.size]
    BY <2>1 DEF Pinning
  <2>3. [st.lines EXCEPT ![a].pinCount = e.pinCount + 1] = [st.lines EXCEPT ![a] = f]
    BY <1>0 DEF StoreType
  <2>. QED  BY <1>2, <2>2, <2>3 DEF Edited
<1>. HIDE DEF f
<1>4. /\ st.size \in [Vec -> Nat] /\ f.reloadMinLines <= MaxLinesPerAccount
      /\ n <= MaxLinesPerAccount /\ (f.lines = NoVec => f.pending = 0)
      /\ \A b \in Known(st) \ {a} : st.lines[b].lines # NoVec => f.lines # st.lines[b].lines
      /\ n = (IF f.lines = NoVec THEN 0 ELSE st.size[f.lines]) + f.pending
  BY <1>0, <1>1 DEF StoreType, EntriesOK
<1>. HIDE DEF e, new
<1>5. /\ GoodStore(new) /\ Known(new) = Known(st) \cup {a} /\ new.lines[a] = f
      /\ new.size = st.size
      /\ \A b \in Account \ {a} : PreservedPins(new, b) = PreservedPins(st, b)
  BY <1>0, <1>1, <1>2, <1>3, <1>4, Edits
<1>. QED  BY <1>1, <1>5 DEF PreservedPins, e, new

Unpinning(st, H) ==
  [st EXCEPT !.lines = [a \in Account |->
     IF a \in H THEN [st.lines[a] EXCEPT !.pinCount = @ - 1] ELSE st.lines[a]]]

LEMMA Unpins ==
  ASSUME CacheAssumption, NEW st, GoodStore(st), NEW H \in SUBSET Known(st),
         \A a \in H : st.lines[a].pinCount > 0
  PROVE  /\ GoodStore(Unpinning(st, H)) /\ Unpinning(st, H).size = st.size
         /\ \A a \in Account :
              PreservedPins(Unpinning(st, H), a)
                = PreservedPins(st, a) - (IF a \in H THEN 1 ELSE 0)
<1>. DEFINE new == Unpinning(st, H)
            l == [a \in Account |->
                    IF a \in H THEN [st.lines[a] EXCEPT !.pinCount = st.lines[a].pinCount - 1]
                    ELSE st.lines[a]]
<1>0. /\ st \in StoreType /\ EntriesOK(st) /\ Counted(st)
      /\ \A a \in Known(st) : st.lines[a] \in Entry /\ a \in Account
  BY StoredIs DEF GoodStore
<1>1. new = [lines |-> l, total |-> st.total, size |-> st.size]
  <2>1. st = [lines |-> st.lines, total |-> st.total, size |-> st.size]
    BY <1>0 DEF StoreType
  <2>2. new = [st EXCEPT !.lines = l]
    BY DEF Unpinning
  <2>. HIDE DEF l, new
  <2>. QED  BY <2>1, <2>2
<1>2. \A a \in H : /\ l[a] \in Entry /\ l[a].lines = st.lines[a].lines
                   /\ l[a].pending = st.lines[a].pending
                   /\ l[a].reloadMinLines = st.lines[a].reloadMinLines
                   /\ l[a].pinCount = st.lines[a].pinCount - 1
  <2>. SUFFICES ASSUME NEW a \in H
                PROVE  /\ l[a] \in Entry /\ l[a].lines = st.lines[a].lines
                       /\ l[a].pending = st.lines[a].pending
                       /\ l[a].reloadMinLines = st.lines[a].reloadMinLines
                       /\ l[a].pinCount = st.lines[a].pinCount - 1
    OBVIOUS
  <2>1. st.lines[a] \in Entry /\ st.lines[a].pinCount > 0 /\ a \in Account
    BY <1>0
  <2>2. st.lines[a].pinCount - 1 \in Nat
    BY <2>1 DEF Entry
  <2>3. l[a] = [st.lines[a] EXCEPT !.pinCount = st.lines[a].pinCount - 1]
    BY <2>1
  <2>. HIDE DEF l
  <2>. QED  BY <2>1, <2>2, <2>3 DEF Entry
<1>3. \A a \in Account \ H : l[a] = st.lines[a]
  OBVIOUS
<1>4. new.lines = l /\ new.total = st.total /\ new.size = st.size
  BY <1>1
<1>. HIDE DEF new
<1>5. new \in StoreType
  <2>1. \A a \in Account : l[a] \in Entry \cup {NoEntry}
    BY <1>0, <1>2, <1>3 DEF StoreType
  <2>2. l \in [Account -> Entry \cup {NoEntry}]
    BY <2>1
  <2>. QED  BY <1>0, <1>1, <2>2 DEF StoreType
<1>. HIDE DEF l
<1>6. Known(new) = Known(st)
  <2>1. \A a \in H : l[a] # NoEntry
    BY <1>2 DEF CacheAssumption
  <2>2. \A a \in H : st.lines[a] # NoEntry
    BY DEF Known
  <2>. QED  BY <1>3, <1>4, <2>1, <2>2 DEF Known
<1>7. \A a \in Known(st) : /\ new.lines[a].lines = st.lines[a].lines
                           /\ new.lines[a].pending = st.lines[a].pending
                           /\ new.lines[a].reloadMinLines = st.lines[a].reloadMinLines
  BY <1>0, <1>2, <1>3, <1>4
<1>8. \A a : Stored(new, a) = Stored(st, a)
  BY <1>4, <1>6, <1>7 DEF Stored, StoredIn
<1>9. EntriesOK(new)
  BY <1>0, <1>6, <1>7, <1>8 DEF EntriesOK
<1>10. Counted(new)
  <2>1. LinesOf(new, Account) = LinesOf(st, Account)
    BY <1>8 DEF LinesOf
  <2>. QED  BY <1>0, <1>4, <2>1 DEF Counted
<1>11. ASSUME NEW a \in Account
       PROVE  PreservedPins(new, a) = PreservedPins(st, a) - (IF a \in H THEN 1 ELSE 0)
  <2>1. CASE a \in H
    BY <1>2, <1>4, <1>6, <2>1 DEF PreservedPins
  <2>2. CASE a \notin H /\ a \in Known(st)
    <3>1. new.lines[a].pinCount = st.lines[a].pinCount /\ st.lines[a].pinCount \in Nat
      BY <1>0, <1>3, <1>4, <2>2 DEF Entry
    <3>. QED  BY <1>6, <2>2, <3>1 DEF PreservedPins
  <2>3. CASE a \notin Known(st)
    BY <1>6, <2>3 DEF PreservedPins
  <2>. QED  BY <2>1, <2>2, <2>3
<1>. QED  BY <1>4, <1>5, <1>9, <1>10, <1>11 DEF GoodStore, new

(* Who holds an account: one session more, one session less. *)
Holders(h, a) == {s \in Session : a \in h[s]}
Taking(h, s, b) == [h EXCEPT ![s] = @ \cup {b}]
Leaving(h, s) == [h EXCEPT ![s] = {}]

LEMMA HoldersChange ==
  ASSUME CacheAssumption, NEW h \in [Session -> SUBSET Account], NEW s \in Session,
         NEW a \in Account
  PROVE  /\ Cardinality(Holders(h, a)) \in Nat
         /\ a \in h[s] => Cardinality(Holders(h, a)) > 0
         /\ \A b \in Account \ h[s] :
              Cardinality(Holders(Taking(h, s, b), a))
                = Cardinality(Holders(h, a)) + (IF a = b THEN 1 ELSE 0)
         /\ Cardinality(Holders(Leaving(h, s), a))
              = Cardinality(Holders(h, a)) - (IF a \in h[s] THEN 1 ELSE 0)
<1>. DEFINE S == Holders(h, a)
<1>1. IsFiniteSet(S) /\ Cardinality(S) \in Nat
  <2>1. S \in SUBSET Session /\ IsFiniteSet(Session)
    BY DEF Holders, CacheAssumption
  <2>2. IsFiniteSet(S)
    BY <2>1, FS_Subset
  <2>. QED  BY <2>2, FS_CardinalityType
<1>2. ASSUME a \in h[s] PROVE Cardinality(S \ {s}) = Cardinality(S) - 1 /\ Cardinality(S) > 0
  <2>1. s \in S
    BY <1>2 DEF Holders
  <2>. HIDE DEF S
  <2>2. Cardinality(S) # 0
    BY <1>1, <2>1, FS_EmptySet
  <2>3. Cardinality(S \ {s}) = Cardinality(S) - 1
    BY <1>1, <2>1, FS_RemoveElement
  <2>. QED  BY <1>1, <2>2, <2>3
<1>3. ASSUME NEW b \in Account \ h[s]
      PROVE  Cardinality(Holders(Taking(h, s, b), a))
               = Cardinality(Holders(h, a)) + (IF a = b THEN 1 ELSE 0)
  <2>1. CASE a = b
    <3>1. Holders(Taking(h, s, b), a) = S \cup {s} /\ s \notin S
      BY <2>1 DEF Holders, Taking
    <3>. HIDE DEF S
    <3>2. Cardinality(S \cup {s}) = Cardinality(S) + 1
      BY <1>1, <3>1, FS_AddElement
    <3>. QED  BY <2>1, <3>1, <3>2 DEF S
  <2>2. CASE a # b
    <3>1. Holders(Taking(h, s, b), a) = S
      BY <2>2 DEF Holders, Taking
    <3>. QED  BY <1>1, <2>2, <3>1
  <2>. QED  BY <2>1, <2>2
<1>4. Cardinality(Holders(Leaving(h, s), a))
        = Cardinality(Holders(h, a)) - (IF a \in h[s] THEN 1 ELSE 0)
  <2>1. Holders(Leaving(h, s), a) = S \ {s}
    BY DEF Holders, Leaving
  <2>2. CASE a \in h[s]
    BY <1>2, <2>1, <2>2
  <2>3. CASE a \notin h[s]
    <3>1. S \ {s} = S
      BY <2>3 DEF Holders
    <3>. HIDE DEF S
    <3>2. Cardinality(S \ {s}) = Cardinality(S) - 0
      BY <1>1, <3>1
    <3>. QED  BY <2>1, <2>3, <3>2 DEF S
  <2>. QED  BY <2>2, <2>3
<1>. QED  BY <1>1, <1>2, <1>3, <1>4

-----------------------------------------------------------------------------
(* The inductive invariant: the store is good and the pins are counted, and*)
(* what the workers and the loops that hold lock_ are about to do is still *)
(* possible: an account about to be pinned is not pinned yet, an account a *)
(* getOrLoadOutgoing expands stays in the cache until it returns.          *)
CacheTypes ==
  /\ seq \in 1 .. LedgerBound /\ waveDue \in BOOLEAN
  /\ held \in [Session -> SUBSET Account] /\ retired \in SUBSET Session
  /\ life \in [Session -> {"new", "creating", "open", "closing", "closed", "ended"}]
  /\ at \in [Session -> {"idle", "valid", "begin", "search", "check", "pin"}]
  /\ acct \in [Session -> Account \cup {0}]
  /\ reader \in [Session -> Vec \cup {NoVec}]
  /\ scope \in [Session -> 0 .. MaxLinesPerAccount]

PinsCounted ==
  \A a \in Account : PreservedPins(store, a) = Cardinality(Holders(held, a))

LoopInv ==
  /\ expanding \in [kind : {"none", "wave", "session", "get"}, by : Session \cup {0},
                    work : SUBSET Account, left : Nat]
  /\ expanding.kind = "none" => expanding = NoLoop
  /\ expanding.kind \in {"session", "get"} => expanding.by \in Session
  /\ expanding.kind = "get" =>
       /\ expanding.work \subseteq {acct[expanding.by]}
       /\ acct[expanding.by] \in Known(store)
       /\ at[expanding.by] = "search"

WorkersInv ==
  \A s \in Session :
    /\ at[s] \in {"check", "pin"} => acct[s] \in Account
    /\ at[s] = "pin" => acct[s] \notin held[s]
    /\ scope[s] # 0 => Searching(s)

CacheInv ==
  /\ CacheTypes /\ LoopInv /\ WorkersInv
  /\ GoodStore(store) /\ PinsCounted

LEMMA CacheStarts == CacheAssumption /\ CacheInit => CacheInv
<1>. SUFFICES ASSUME CacheAssumption, CacheInit PROVE CacheInv
  OBVIOUS
<1>1. /\ store = [lines |-> [a \in Account |-> NoEntry], total |-> 0,
                  size |-> [v \in Vec |-> 0]]
      /\ held = [s \in Session |-> {}]
  BY DEF CacheInit
<1>2. store \in StoreType /\ Known(store) = {} /\ store.total = 0
  BY <1>1 DEF StoreType, Known
<1>3. LinesOf(store, Account) = {}
  <2>1. \A a : Stored(store, a) = 0
    BY <1>2 DEF Stored
  <2>. QED  BY <2>1 DEF LinesOf
<1>4. Counted(store)
  BY <1>2, <1>3, FS_EmptySet DEF Counted, CacheAssumption
<1>5. GoodStore(store)
  BY <1>2, <1>4 DEF GoodStore, EntriesOK
<1>6. PinsCounted
  <2>1. \A a \in Account : Holders(held, a) = {} /\ PreservedPins(store, a) = 0
    BY <1>1, <1>2 DEF Holders, PreservedPins
  <2>. QED  BY <2>1, FS_EmptySet DEF PinsCounted
<1>7. CacheTypes
  <2>1. 1 \in 1 .. LedgerBound /\ 0 \in 0 .. MaxLinesPerAccount
    BY DEF CacheAssumption
  <2>2. scope \in [Session -> 0 .. MaxLinesPerAccount] /\ seq \in 1 .. LedgerBound
    BY <2>1 DEF CacheInit
  <2>. QED  BY <1>1, <2>2 DEF CacheInit, CacheTypes
<1>8. LoopInv
  BY DEF CacheInit, LoopInv, NoLoop
<1>9. WorkersInv
  BY DEF CacheInit, WorkersInv
<1>. QED  BY <1>5, <1>6, <1>7, <1>8, <1>9 DEF CacheInv

(* A step that leaves the store and its pins alone. *)
LEMMA StoreKept ==
  ASSUME CacheInv, store' = store, held' = held
  PROVE  GoodStore(store') /\ PinsCounted' /\ KeepsRead(store, store')
BY DEF CacheInv, PinsCounted, KeepsRead, PreservedPins, Known, Holders

LEMMA SamePinsCounted ==
  ASSUME CacheInv, SamePins(store, store'), held' = held
  PROVE  PinsCounted'
<1>1. \A a \in Account : PreservedPins(store', a) = Cardinality(Holders(held, a))
  BY DEF CacheInv, PinsCounted, SamePins
<1>. QED  BY <1>1 DEF PinsCounted

(* The steps of a worker that touch no entry. *)
LEMMA WorkersStep ==
  ASSUME CacheAssumption, CacheInv, NEW s \in Session,
         \/ Create(s) \/ UpdateBegin(s) \/ Invalid(s) \/ StartSearch(s)
         \/ CheckPinned(s) \/ ExpandSession(s) \/ SearchEnds(s) \/ Forget(s)
  PROVE  CacheInv' /\ KeepsRead(store, store')
<1>0. /\ CacheTypes /\ LoopInv /\ WorkersInv
      /\ store' = store /\ held' = held /\ seq' = seq /\ waveDue' = waveDue
  BY DEF CacheInv, Create, UpdateBegin, Invalid, StartSearch, CheckPinned, ExpandSession,
         SearchEnds, Forget, cacheVars, searchVars
<1>1. GoodStore(store') /\ PinsCounted' /\ KeepsRead(store, store')
  BY <1>0, StoreKept
<1>2. Known(store') = Known(store)
  BY <1>0
<1>3. CASE Create(s) \/ UpdateBegin(s) \/ Invalid(s)
  <2>1. /\ at[s] \in {"idle", "valid"} /\ at' = [at EXCEPT ![s] = at'[s]]
        /\ at'[s] \in {"valid", "begin", "idle"}
        /\ acct' = acct /\ scope' = scope /\ retired' = retired /\ expanding' = expanding
    BY <1>0, <1>3 DEF Create, UpdateBegin, Invalid, Goes, cacheVars, CacheTypes
  <2>2. CacheTypes'
    <3>1. /\ life' \in [Session -> {"new", "creating", "open", "closing", "closed", "ended"}]
          /\ reader' \in [Session -> Vec \cup {NoVec}]
      BY <1>0, <1>3 DEF Create, UpdateBegin, Invalid, CacheTypes
    <3>2. at' \in [Session -> {"idle", "valid", "begin", "search", "check", "pin"}]
      BY <1>0, <2>1 DEF CacheTypes
    <3>. QED  BY <1>0, <2>1, <3>1, <3>2 DEF CacheTypes
  <2>3. LoopInv'
    BY <1>0, <1>2, <2>1 DEF LoopInv, CacheTypes
  <2>4. WorkersInv'
    BY <1>0, <2>1 DEF WorkersInv, CacheTypes, Searching
  <2>. QED  BY <1>1, <2>2, <2>3, <2>4 DEF CacheInv
<1>4. CASE StartSearch(s)
  <2>1. Min({MaxLinesPerAccount, RemainingBudget(store)}) \in 0 .. MaxLinesPerAccount
    <3>1. RemainingBudget(store) \in Nat /\ MaxLinesPerAccount \in Nat
      BY Room DEF CacheInv, CacheAssumption
    <3>2. /\ Min({MaxLinesPerAccount, RemainingBudget(store)}) \in Nat
          /\ Min({MaxLinesPerAccount, RemainingBudget(store)}) <= MaxLinesPerAccount
      BY <3>1, Between
    <3>. QED  BY <3>1, <3>2
  <2>2. CacheTypes'
    <3>1. scope' \in [Session -> 0 .. MaxLinesPerAccount]
      BY <1>0, <1>4, <2>1 DEF StartSearch, CacheTypes, CacheAssumption
    <3>. QED  BY <1>0, <1>4, <3>1 DEF StartSearch, CacheTypes, cacheVars
  <2>3. LoopInv'
    BY <1>0, <1>2, <1>4 DEF LoopInv, CacheTypes, StartSearch, cacheVars
  <2>4. WorkersInv'
    BY <1>0, <1>4 DEF WorkersInv, CacheTypes, StartSearch, Searching
  <2>. QED  BY <1>1, <2>2, <2>3, <2>4 DEF CacheInv
<1>5. CASE CheckPinned(s)
  <2>1. /\ LockFree /\ expanding' = expanding /\ retired' = retired /\ life' = life
        /\ reader' = reader /\ scope' = scope /\ at[s] = "check"
    BY <1>5 DEF CheckPinned, Goes, cacheVars
  <2>2. \/ at' = [at EXCEPT ![s] = "search"] /\ acct' = [acct EXCEPT ![s] = 0]
        \/ /\ acct[s] \notin held[s] /\ at' = [at EXCEPT ![s] = "pin"] /\ acct' = acct
    BY <1>5 DEF CheckPinned, Goes
  <2>3. CacheTypes'
    BY <1>0, <2>1, <2>2 DEF CacheTypes
  <2>4. LoopInv'
    BY <1>0, <2>1 DEF LoopInv, LockFree, NoLoop
  <2>5. WorkersInv'
    BY <1>0, <2>1, <2>2 DEF WorkersInv, CacheTypes, Searching
  <2>. QED  BY <1>1, <2>3, <2>4, <2>5 DEF CacheInv
<1>6. CASE ExpandSession(s)
  <2>1. /\ expanding' = [kind |-> "session", by |-> s, work |-> held[s], left |-> 0]
        /\ UNCHANGED <<retired, life, at, acct, reader, scope>>
    BY <1>6 DEF ExpandSession, cacheVars, searchVars
  <2>2. CacheTypes'
    BY <1>0, <2>1 DEF CacheTypes
  <2>3. LoopInv'
    BY <1>0, <2>1 DEF LoopInv, CacheTypes
  <2>4. WorkersInv'
    BY <1>0, <2>1 DEF WorkersInv, Searching
  <2>. QED  BY <1>1, <2>2, <2>3, <2>4 DEF CacheInv
<1>7. CASE SearchEnds(s)
  <2>1. /\ LockFree /\ at' = [at EXCEPT ![s] = "idle"] /\ scope' = [scope EXCEPT ![s] = 0]
        /\ reader' = [reader EXCEPT ![s] = NoVec]
        /\ UNCHANGED <<retired, expanding, acct>>
    BY <1>7 DEF SearchEnds, Goes, cacheVars
  <2>2. CacheTypes'
    <3>1. life' \in [Session -> {"new", "creating", "open", "closing", "closed", "ended"}]
      BY <1>0, <1>7 DEF SearchEnds, CacheTypes
    <3>2. scope' \in [Session -> 0 .. MaxLinesPerAccount]
      BY <1>0, <2>1 DEF CacheTypes, CacheAssumption
    <3>. QED  BY <1>0, <2>1, <3>1, <3>2 DEF CacheTypes
  <2>3. LoopInv'
    BY <1>0, <2>1 DEF LoopInv, LockFree, NoLoop
  <2>4. WorkersInv'
    BY <1>0, <2>1 DEF WorkersInv, CacheTypes, Searching
  <2>. QED  BY <1>1, <2>2, <2>3, <2>4 DEF CacheInv
<1>8. CASE Forget(s)
  <2>1. /\ LockFree /\ retired' = retired \ {s} /\ life' = [life EXCEPT ![s] = "closed"]
        /\ UNCHANGED <<expanding, at, acct, reader, scope>>
    BY <1>8 DEF Forget
  <2>2. CacheTypes'
    BY <1>0, <2>1 DEF CacheTypes
  <2>3. LoopInv'
    BY <1>0, <2>1 DEF LoopInv, LockFree, NoLoop
  <2>4. WorkersInv'
    BY <1>0, <2>1 DEF WorkersInv, Searching
  <2>. QED  BY <1>1, <2>2, <2>3, <2>4 DEF CacheInv
<1>. QED  BY <1>3, <1>4, <1>5, <1>6, <1>7, <1>8

(* The apply thread, and the loops. *)
LEMMA ApplyStep ==
  ASSUME CacheAssumption, CacheInv, AdvanceLedger \/ StartWave
  PROVE  CacheInv' /\ KeepsRead(store, store')
<1>0. CacheTypes /\ LoopInv /\ WorkersInv /\ GoodStore(store)
  BY DEF CacheInv
<1>1. CASE AdvanceLedger
  <2>1. /\ LockFree /\ seq < LedgerBound /\ seq' = seq + 1 /\ waveDue' = TRUE
        /\ store' = Advanced(store, seq + 1)
        /\ UNCHANGED <<held, retired, expanding, life, at, acct, reader, scope>>
    BY <1>1 DEF AdvanceLedger, Advanced, searchVars
  <2>2. seq + 1 \in Nat
    BY <1>0 DEF CacheTypes
  <2>3. GoodStore(store') /\ SamePins(store, store') /\ KeepsRead(store, store')
    BY <1>0, <2>1, <2>2, Advances DEF KeepsRead
  <2>4. PinsCounted'
    BY <2>1, <2>3, SamePinsCounted
  <2>5. CacheTypes'
    <3>1. seq + 1 \in 1 .. LedgerBound
      BY <1>0, <2>1 DEF CacheTypes, CacheAssumption
    <3>. QED  BY <1>0, <2>1, <3>1 DEF CacheTypes
  <2>6. LoopInv'
    BY <1>0, <2>1 DEF LoopInv, LockFree, NoLoop
  <2>7. WorkersInv'
    BY <1>0, <2>1 DEF WorkersInv, Searching
  <2>. QED  BY <2>3, <2>4, <2>5, <2>6, <2>7 DEF CacheInv
<1>2. CASE StartWave
  <2>1. /\ waveDue' = FALSE
        /\ expanding' = [kind |-> "wave", by |-> 0, work |-> Incomplete(store),
                         left |-> LinesPerWave]
        /\ UNCHANGED <<seq, store, held, retired, life, at, acct, reader, scope>>
    BY <1>2 DEF StartWave, cacheVars, searchVars
  <2>2. GoodStore(store') /\ PinsCounted' /\ KeepsRead(store, store')
    BY <2>1, StoreKept
  <2>3. CacheTypes'
    BY <1>0, <2>1 DEF CacheTypes
  <2>4. LoopInv'
    <3>1. Incomplete(store) \in SUBSET Account /\ LinesPerWave \in Nat
      BY DEF Incomplete, Known, CacheAssumption
    <3>. QED  BY <2>1, <3>1 DEF LoopInv
  <2>5. WorkersInv'
    BY <1>0, <2>1 DEF WorkersInv, Searching
  <2>. QED  BY <2>2, <2>3, <2>4, <2>5 DEF CacheInv
<1>. QED  BY <1>1, <1>2

LEMMA ChunkSizes ==
  ASSUME CacheAssumption, CacheInv
  PROVE  /\ \A s \in Session : EffectiveChunkSize(s) \in Nat
         /\ ~LockFree => LoopChunk \in Nat
<1>1. \A s \in Session : EffectiveChunkSize(s) \in Nat
  BY DEF CacheInv, CacheTypes, EffectiveChunkSize, CacheAssumption
<1>2. ~LockFree /\ expanding.kind # "wave" => expanding.by \in Session
  BY DEF CacheInv, LoopInv, LockFree
<1>. QED  BY <1>1, <1>2 DEF LoopChunk, CacheAssumption

LEMMA ExpandStep ==
  ASSUME CacheAssumption, CacheInv, Expand
  PROVE  CacheInv' /\ KeepsRead(store, store')
<1>0. /\ CacheTypes /\ LoopInv /\ WorkersInv /\ GoodStore(store)
      /\ UNCHANGED <<seq, held, retired, waveDue, life, at, acct, reader, scope>>
      /\ ~LockFree /\ LoopChunk \in Nat
  BY ChunkSizes DEF CacheInv, Expand, searchVars
<1>1. PICK a \in expanding.work :
        IF a \notin Incomplete(store)
        THEN /\ expanding' = [expanding EXCEPT !.work = @ \ {a}]
             /\ UNCHANGED store
        ELSE \E x \in ExpandAccount(store, a, LoopChunk) :
               /\ store' = x.st
               /\ expanding' =
                    [expanding EXCEPT
                       !.work = IF x.added = 0 \/ OneChunkEach THEN @ \ {a} ELSE @,
                       !.left = Max({0, @ - x.added})]
  BY DEF Expand
<1>2. /\ expanding.work \subseteq Account /\ expanding.left \in Nat
      /\ expanding.kind # "none" /\ a \in Account
      /\ expanding = [kind |-> expanding.kind, by |-> expanding.by,
                      work |-> expanding.work, left |-> expanding.left]
  BY <1>0 DEF LoopInv, LockFree
<1>3. CacheTypes'
  BY <1>0 DEF CacheTypes
<1>4. WorkersInv'
  BY <1>0 DEF WorkersInv, Searching
<1>5. ASSUME NEW w, w \in SUBSET expanding.work, NEW n \in Nat,
             expanding' = [expanding EXCEPT !.work = w, !.left = n],
             expanding.kind = "get" => a \in Known(store')
      PROVE  LoopInv'
  <2>1. /\ expanding'.kind = expanding.kind /\ expanding'.by = expanding.by
        /\ expanding'.work = w /\ expanding'.left = n
        /\ expanding' = [kind |-> expanding.kind, by |-> expanding.by, work |-> w, left |-> n]
    BY <1>2, <1>5
  <2>2. expanding.kind = "get" => acct[expanding.by] \in Known(store')
    <3>. SUFFICES ASSUME expanding.kind = "get" PROVE acct[expanding.by] \in Known(store')
      OBVIOUS
    <3>1. a = acct[expanding.by]
      BY <1>0 DEF LoopInv
    <3>. QED  BY <1>5, <3>1
  <2>. QED  BY <1>0, <1>2, <1>5, <2>1, <2>2 DEF LoopInv
<1>6. CASE a \notin Incomplete(store)
  <2>1. store' = store /\ expanding' = [expanding EXCEPT !.work = @ \ {a}]
    BY <1>1, <1>6
  <2>2. expanding' = [expanding EXCEPT !.work = expanding.work \ {a}, !.left = expanding.left]
    BY <1>2, <2>1
  <2>3. LoopInv'
    <3>1. expanding.kind = "get" => a \in Known(store')
      BY <1>0, <2>1 DEF LoopInv
    <3>. QED  BY <1>2, <1>5, <2>2, <3>1
  <2>4. GoodStore(store') /\ PinsCounted' /\ KeepsRead(store, store')
    BY <1>0, <2>1, StoreKept
  <2>. QED  BY <1>3, <1>4, <2>3, <2>4 DEF CacheInv
<1>7. CASE a \in Incomplete(store)
  <2>1. PICK x \in ExpandAccount(store, a, LoopChunk) :
          /\ store' = x.st
          /\ expanding' =
               [expanding EXCEPT
                  !.work = IF x.added = 0 \/ OneChunkEach THEN @ \ {a} ELSE @,
                  !.left = Max({0, @ - x.added})]
    BY <1>1, <1>7
  <2>2. a \in Known(store)
    BY <1>7 DEF Incomplete
  <2>3. /\ GoodStore(x.st) /\ SamePins(store, x.st) /\ KeepsRead(store, x.st)
        /\ a \in Known(x.st) /\ x.added \in Nat
    BY <1>0, <2>2, Expands
  <2>4. PinsCounted'
    BY <1>0, <2>1, <2>3, SamePinsCounted
  <2>. DEFINE w == IF x.added = 0 \/ OneChunkEach THEN expanding.work \ {a} ELSE expanding.work
              n == Max({0, expanding.left - x.added})
  <2>5. w \in SUBSET expanding.work /\ expanding' = [expanding EXCEPT !.work = w, !.left = n]
    BY <2>1
  <2>6. n \in Nat
    <3>1. 0 \in Int /\ expanding.left - x.added \in Int
      BY <1>2, <2>3
    <3>. QED  BY <3>1, Extremes
  <2>. HIDE DEF w, n
  <2>7. LoopInv'
    BY <1>5, <2>1, <2>3, <2>5, <2>6
  <2>. QED  BY <1>3, <1>4, <2>1, <2>3, <2>4, <2>7 DEF CacheInv
<1>. QED  BY <1>6, <1>7

LEMMA ExpandEndsStep ==
  ASSUME CacheAssumption, CacheInv, ExpandEnds
  PROVE  CacheInv' /\ KeepsRead(store, store')
<1>0. /\ CacheTypes /\ LoopInv /\ WorkersInv /\ GoodStore(store) /\ ~LockFree
      /\ expanding' = NoLoop
      /\ UNCHANGED <<seq, held, retired, waveDue, life, acct, scope>>
  BY DEF CacheInv, ExpandEnds
<1>1. LoopInv'
  BY <1>0 DEF LoopInv, NoLoop
<1>2. CASE expanding.kind # "get"
  <2>1. UNCHANGED <<store, at, reader>>
    BY <1>2 DEF ExpandEnds
  <2>2. GoodStore(store') /\ PinsCounted' /\ KeepsRead(store, store')
    BY <1>0, <2>1, StoreKept
  <2>3. CacheTypes'
    BY <1>0, <2>1 DEF CacheTypes
  <2>4. WorkersInv'
    BY <1>0, <2>1 DEF WorkersInv, Searching
  <2>. QED  BY <1>1, <2>2, <2>3, <2>4 DEF CacheInv
<1>3. CASE expanding.kind = "get"
  <2>. DEFINE s == expanding.by
              a == acct[s]
              c == CoalescePending(store, a)
  <2>1. s \in Session /\ a \in Known(store) /\ a \in Account /\ at[s] = "search"
    BY <1>0, <1>3 DEF LoopInv, Known
  <2>2. /\ store' = c /\ reader' = [reader EXCEPT ![s] = c.lines[a].lines]
        /\ at' = [at EXCEPT ![s] = "check"]
    BY <1>3 DEF ExpandEnds
  <2>. HIDE DEF c, s, a
  <2>3. GoodStore(c) /\ SamePins(store, c) /\ KeepsRead(store, c) /\ a \in Known(c)
    BY <1>0, <2>1, Coalesces DEF c
  <2>4. PinsCounted'
    BY <1>0, <2>2, <2>3, SamePinsCounted
  <2>5. c.lines[a].lines \in Vec \cup {NoVec}
    BY <2>3, StoredIs DEF GoodStore, Entry
  <2>6. CacheTypes'
    BY <1>0, <2>2, <2>5 DEF CacheTypes
  <2>7. WorkersInv'
    <3>1. acct[s] \in Account
      BY <2>1 DEF a
    <3>. QED  BY <1>0, <2>1, <2>2, <3>1 DEF WorkersInv, CacheTypes, Searching
  <2>. QED  BY <1>1, <2>2, <2>3, <2>4, <2>6, <2>7 DEF CacheInv
<1>. QED  BY <1>2, <1>3

LEMMA GetStep ==
  ASSUME CacheAssumption, CacheInv, NEW s \in Session, NEW a \in Account, GetOrLoad(s, a)
  PROVE  CacheInv' /\ KeepsRead(store, store')
<1>. DEFINE full == /\ scope[s] # 0 /\ a \in Incomplete(store)
                    /\ RemainingBudget(store) > 0
            From(st) == /\ store' = st
                        /\ reader' = [reader EXCEPT ![s] = st.lines[a].lines]
                        /\ at' = [at EXCEPT ![s] = IF @ = "search" THEN "check" ELSE @]
                        /\ UNCHANGED expanding
<1>0. /\ CacheTypes /\ LoopInv /\ WorkersInv /\ GoodStore(store)
      /\ LockFree /\ at[s] \in {"valid", "search"}
      /\ acct' = [acct EXCEPT ![s] = IF at[s] = "search" THEN a ELSE 0]
      /\ UNCHANGED <<seq, held, retired, waveDue, life, scope>>
  BY DEF CacheInv, GetOrLoad
<1>1. ASSUME NEW st, From(st), GoodStore(st), SamePins(store, st), KeepsRead(store, st),
             a \in Known(st)
      PROVE  CacheInv' /\ KeepsRead(store, store')
  <2>1. PinsCounted'
    BY <1>0, <1>1, SamePinsCounted
  <2>2. st.lines[a].lines \in Vec \cup {NoVec}
    BY <1>1, StoredIs DEF GoodStore, Entry
  <2>3. CacheTypes'
    BY <1>0, <1>1, <2>2 DEF CacheTypes
  <2>4. LoopInv'
    BY <1>0, <1>1 DEF LoopInv, LockFree, NoLoop
  <2>5. WorkersInv'
    BY <1>0, <1>1 DEF WorkersInv, CacheTypes, Searching
  <2>. QED  BY <1>1, <2>1, <2>3, <2>4, <2>5 DEF CacheInv
<1>2. CASE Reusable(a) /\ ~full /\ From(CoalescePending(store, a))
  <2>1. a \in Known(store)
    BY <1>2 DEF Reusable
  <2>2. /\ GoodStore(CoalescePending(store, a)) /\ SamePins(store, CoalescePending(store, a))
        /\ KeepsRead(store, CoalescePending(store, a))
        /\ a \in Known(CoalescePending(store, a))
    BY <1>0, <2>1, Coalesces
  <2>. HIDE DEF From
  <2>. QED  BY <1>1, <1>2, <2>2
<1>3. CASE /\ Reusable(a) /\ full
           /\ expanding' = [kind |-> "get", by |-> s, work |-> {a}, left |-> 0]
           /\ UNCHANGED <<store, at, reader>>
  <2>1. GoodStore(store') /\ PinsCounted' /\ KeepsRead(store, store')
    BY <1>0, <1>3, StoreKept
  <2>2. at[s] = "search"
    BY <1>0, <1>3 DEF WorkersInv, Searching
  <2>3. CacheTypes'
    BY <1>0, <1>3 DEF CacheTypes
  <2>4. LoopInv'
    <3>1. acct'[s] = a /\ a \in Known(store)
      BY <1>0, <1>3, <2>2 DEF CacheTypes, Reusable
    <3>. QED  BY <1>3, <2>2, <3>1 DEF LoopInv
  <2>5. WorkersInv'
    BY <1>0, <1>3, <2>2 DEF WorkersInv, CacheTypes, Searching
  <2>. QED  BY <2>1, <2>3, <2>4, <2>5 DEF CacheInv
<1>4. CASE \E st \in LoadOutgoing(store, a, EffectiveChunkSize(s)) : From(st)
  <2>1. PICK st \in LoadOutgoing(store, a, EffectiveChunkSize(s)) : From(st)
    BY <1>4
  <2>2. /\ GoodStore(st) /\ SamePins(store, st) /\ KeepsRead(store, st) /\ a \in Known(st)
    <3>1. EffectiveChunkSize(s) \in Nat /\ seq \in Nat
      BY <1>0, ChunkSizes DEF CacheTypes
    <3>. QED  BY <1>0, <3>1, Loads
  <2>. HIDE DEF From
  <2>. QED  BY <1>1, <2>1, <2>2
<1>5. \/ Reusable(a) /\ ~full /\ From(CoalescePending(store, a))
      \/ /\ Reusable(a) /\ full
         /\ expanding' = [kind |-> "get", by |-> s, work |-> {a}, left |-> 0]
         /\ UNCHANGED <<store, at, reader>>
      \/ \E st \in LoadOutgoing(store, a, EffectiveChunkSize(s)) : From(st)
  BY DEF GetOrLoad
<1>. HIDE DEF full, From
<1>. QED  BY <1>2, <1>3, <1>4, <1>5

LEMMA PinStep ==
  ASSUME CacheAssumption, CacheInv, NEW s \in Session, PinAccount(s)
  PROVE  CacheInv' /\ KeepsRead(store, store')
<1>. DEFINE a == acct[s]
            found == a \in Known(store) /\ store.lines[a].lines # NoVec
            chunk == EffectiveChunkSize(s)
<1>0. /\ CacheTypes /\ LoopInv /\ WorkersInv /\ GoodStore(store) /\ LockFree
      /\ at[s] = "pin" /\ at' = [at EXCEPT ![s] = "search"]
      /\ acct' = [acct EXCEPT ![s] = 0]
      /\ UNCHANGED <<seq, retired, expanding, waveDue, life, scope>>
      /\ a \in Account /\ a \notin held[s]
  BY DEF CacheInv, PinAccount, Goes, WorkersInv
<1>1. PICK st \in IF found THEN {CoalescePending(store, a)}
                  ELSE LoadOutgoing(store, a, chunk) :
        /\ reader' = [reader EXCEPT ![s] = st.lines[a].lines]
        /\ IF MayPin(s)
           THEN /\ store' = Pinning(st, a)
                /\ held' = Taking(held, s, a)
           ELSE store' = st /\ UNCHANGED held
  BY DEF PinAccount, Pinning, Taking
<1>2. GoodStore(st) /\ SamePins(store, st) /\ KeepsRead(store, st) /\ a \in Known(st)
  <2>1. CASE found
    <3>1. st = CoalescePending(store, a) /\ a \in Known(store)
      BY <2>1
    <3>. HIDE DEF a
    <3>. QED  BY <1>0, <3>1, Coalesces
  <2>2. CASE ~found
    <3>1. st \in LoadOutgoing(store, a, chunk)
      BY <2>2
    <3>2. chunk \in Nat /\ seq \in Nat
      BY <1>0, ChunkSizes DEF CacheTypes
    <3>. HIDE DEF a, chunk
    <3>. QED  BY <1>0, <3>1, <3>2, Loads
  <2>. QED  BY <2>1, <2>2
<1>. HIDE DEF a, found, chunk
<1>3. GoodStore(store') /\ KeepsRead(store, store')
  <2>1. GoodStore(Pinning(st, a)) /\ Pinning(st, a).size = st.size
    BY <1>2, Pins
  <2>. QED  BY <1>1, <1>2, <2>1 DEF KeepsRead
<1>4. PinsCounted'
  <2>1. CASE ~MayPin(s)
    BY <1>1, <1>2, <2>1, SamePinsCounted
  <2>2. CASE MayPin(s)
    <3>1. store' = Pinning(st, a) /\ held' = Taking(held, s, a)
      BY <1>1, <2>2
    <3>2. ASSUME NEW b \in Account
          PROVE  PreservedPins(Pinning(st, a), b)
                   = Cardinality(Holders(Taking(held, s, a), b))
      <4>1. PreservedPins(store, b) = Cardinality(Holders(held, b))
        BY DEF CacheInv, PinsCounted
      <4>2. /\ Cardinality(Holders(held, b)) \in Nat
            /\ Cardinality(Holders(Taking(held, s, a), b))
                 = Cardinality(Holders(held, b)) + (IF b = a THEN 1 ELSE 0)
        BY <1>0, HoldersChange DEF CacheTypes
      <4>3. PreservedPins(st, b) = PreservedPins(store, b)
        BY <1>2 DEF SamePins
      <4>4. PreservedPins(Pinning(st, a), b)
              = PreservedPins(st, b) + (IF b = a THEN 1 ELSE 0)
        <5>1. CASE b = a
          BY <1>2, <5>1, Pins
        <5>2. CASE b # a
          <6>1. PreservedPins(Pinning(st, a), b) = PreservedPins(st, b)
            BY <1>2, <5>2, Pins
          <6>. QED  BY <4>1, <4>2, <4>3, <5>2, <6>1
        <5>. QED  BY <5>1, <5>2
      <4>. QED  BY <4>1, <4>2, <4>3, <4>4
    <3>. QED  BY <3>1, <3>2 DEF PinsCounted
  <2>. QED  BY <2>1, <2>2
<1>5. CacheTypes'
  <2>1. st.lines[a].lines \in Vec \cup {NoVec}
    BY <1>2, StoredIs DEF GoodStore, Entry
  <2>2. held' \in [Session -> SUBSET Account]
    BY <1>0, <1>1 DEF CacheTypes, Taking
  <2>. QED  BY <1>0, <1>1, <2>1, <2>2 DEF CacheTypes
<1>6. LoopInv'
  BY <1>0 DEF LoopInv, LockFree, NoLoop
<1>7. WorkersInv'
  <2>1. \A r \in Session \ {s} : held'[r] = held[r]
    BY <1>0, <1>1 DEF CacheTypes, Taking
  <2>. QED  BY <1>0, <2>1 DEF WorkersInv, CacheTypes, Searching
<1>. QED  BY <1>3, <1>4, <1>5, <1>6, <1>7 DEF CacheInv

LEMMA ReleaseStep ==
  ASSUME CacheAssumption, CacheInv, NEW s \in Session, ReleaseSession(s)
  PROVE  CacheInv' /\ KeepsRead(store, store')
<1>. DEFINE H == held[s]
            less == Unpinning(store, H)
            A == H \cap Unpinned(less)
<1>0. /\ CacheTypes /\ LoopInv /\ WorkersInv /\ GoodStore(store) /\ LockFree
      /\ life' = [life EXCEPT ![s] = "closing"] /\ store' = Drop(less, A)
      /\ held' = Leaving(held, s) /\ retired' = retired \cup {s}
      /\ UNCHANGED <<seq, expanding, waveDue, at, acct, reader, scope>>
      /\ H \in SUBSET Account
  BY DEF CacheInv, ReleaseSession, Unpinning, CacheTypes, Leaving
<1>. HIDE DEF H
<1>1. ASSUME NEW a \in Account
      PROVE  /\ PreservedPins(store, a) = Cardinality(Holders(held, a))
             /\ Cardinality(Holders(held, a)) \in Nat
             /\ a \in H => Cardinality(Holders(held, a)) > 0
             /\ Cardinality(Holders(Leaving(held, s), a))
                  = Cardinality(Holders(held, a)) - (IF a \in H THEN 1 ELSE 0)
  <2>1. PreservedPins(store, a) = Cardinality(Holders(held, a))
    BY DEF CacheInv, PinsCounted
  <2>. QED  BY <1>0, <2>1, HoldersChange DEF CacheTypes, H
<1>2. H \in SUBSET Known(store) /\ \A a \in H : store.lines[a].pinCount > 0
  BY <1>0, <1>1 DEF PreservedPins
<1>3. /\ GoodStore(less) /\ less.size = store.size
      /\ \A a \in Account :
           PreservedPins(less, a) = PreservedPins(store, a) - (IF a \in H THEN 1 ELSE 0)
  BY <1>0, <1>2, Unpins
<1>. HIDE DEF less
<1>4. A \in SUBSET Unpinned(less) /\ A \in SUBSET Account
  BY <1>0
<1>. HIDE DEF A
<1>5. GoodStore(store') /\ SamePins(less, store') /\ KeepsRead(store, store')
  BY <1>0, <1>3, <1>4, Drops, DropsUnpinned DEF KeepsRead
<1>6. PinsCounted'
  <2>1. ASSUME NEW a \in Account
        PROVE  PreservedPins(store', a) = Cardinality(Holders(Leaving(held, s), a))
    BY <1>1, <1>3, <1>5 DEF SamePins
  <2>. QED  BY <1>0, <2>1 DEF PinsCounted
<1>7. CacheTypes'
  BY <1>0 DEF CacheTypes, Leaving
<1>8. LoopInv'
  BY <1>0 DEF LoopInv, LockFree, NoLoop
<1>9. WorkersInv'
  BY <1>0 DEF WorkersInv, CacheTypes, Searching, Leaving
<1>. QED  BY <1>5, <1>6, <1>7, <1>8, <1>9 DEF CacheInv

LEMMA CacheStep ==
  CacheAssumption /\ CacheInv /\ [CacheNext]_everyVar => CacheInv' /\ KeepsRead(store, store')
<1>. SUFFICES ASSUME CacheAssumption, CacheInv, [CacheNext]_everyVar
              PROVE  CacheInv' /\ KeepsRead(store, store')
  OBVIOUS
<1>1. CASE AdvanceLedger \/ StartWave
  BY <1>1, ApplyStep
<1>2. CASE Expand
  BY <1>2, ExpandStep
<1>3. CASE ExpandEnds
  BY <1>3, ExpandEndsStep
<1>4. ASSUME NEW s \in Session, Worker(s) \/ ReleaseSession(s) \/ Forget(s)
      PROVE  CacheInv' /\ KeepsRead(store, store')
  <2>1. CASE \E a \in Account : GetOrLoad(s, a)
    BY <2>1, GetStep
  <2>2. CASE PinAccount(s)
    BY <2>2, PinStep
  <2>3. CASE ReleaseSession(s)
    BY <2>3, ReleaseStep
  <2>4. CASE \/ Create(s) \/ UpdateBegin(s) \/ Invalid(s) \/ StartSearch(s)
             \/ CheckPinned(s) \/ ExpandSession(s) \/ SearchEnds(s) \/ Forget(s)
    BY <2>4, WorkersStep
  <2>. QED  BY <1>4, <2>1, <2>2, <2>3, <2>4 DEF Worker
<1>5. CASE UNCHANGED everyVar
  <2>1. /\ UNCHANGED <<seq, store, held, retired, expanding, waveDue>>
        /\ UNCHANGED <<life, at, acct, reader, scope>>
    BY <1>5 DEF everyVar, cacheVars, searchVars
  <2>2. GoodStore(store') /\ PinsCounted' /\ KeepsRead(store, store')
    BY <2>1, StoreKept
  <2>3. CacheTypes' /\ LoopInv' /\ WorkersInv'
    BY <2>1 DEF CacheInv, CacheTypes, LoopInv, WorkersInv, Searching
  <2>. QED  BY <2>2, <2>3 DEF CacheInv
<1>. QED  BY <1>1, <1>2, <1>3, <1>4, <1>5 DEF CacheNext

LEMMA CacheInvAlways == CacheSpec => []CacheInv
<1>1. CacheInit => CacheInv
  BY CacheStarts, CacheAssumption
<1>2. CacheInv /\ [CacheNext]_everyVar => CacheInv'
  BY CacheStep, CacheAssumption
<1>. QED  BY <1>1, <1>2, PTL DEF CacheSpec

(* The count of lines is exact and stays within the budget, whatever the   *)
(* loads, expands, reclaims, releases and ledger advances that changed it. *)
THEOREM LinesAreCounted == CacheSpec => []CountExact
<1>1. CacheInv => CountExact
  <2>. SUFFICES ASSUME CacheInv PROVE CountExact
    OBVIOUS
  <2>1. /\ CacheTypes /\ LoopInv /\ store \in StoreType /\ EntriesOK(store) /\ Counted(store)
        /\ Bounded(store, Account)
    BY CacheAssumption, StoredIs DEF CacheInv, GoodStore
  <2>2. SumStored(store, Account) = Cardinality(LinesOf(store, Account))
    BY <2>1, CacheAssumption, SumCounts
  <2>3. CacheTypeOK
    BY <2>1 DEF CacheTypeOK, CacheTypes, LoopInv, StoreType, EntriesOK
  <2>. QED  BY <2>1, <2>2, <2>3 DEF CountExact, Counted
<1>. QED  BY <1>1, CacheInvAlways, PTL

(* An account's pins are the sessions that hold it.                        *)
THEOREM PinsAreHolders == CacheSpec => []PinsExact
<1>1. CacheInv => PinsExact
  <2>. SUFFICES ASSUME CacheInv PROVE PinsExact
    OBVIOUS
  <2>1. CacheTypes /\ \A a \in Account : PreservedPins(store, a) = Cardinality(Holders(held, a))
    BY DEF CacheInv, PinsCounted
  <2>2. ASSUME NEW s \in Session, NEW a \in held[s] PROVE a \in Known(store)
    <3>1. a \in Account /\ held \in [Session -> SUBSET Account]
      BY <2>1 DEF CacheTypes
    <3>2. Cardinality(Holders(held, a)) > 0
      BY <3>1, CacheAssumption, HoldersChange
    <3>. QED  BY <2>1, <3>1, <3>2 DEF PreservedPins
  <2>3. \A a \in Known(store) :
          store.lines[a].pinCount = Cardinality({s \in Session : a \in held[s]})
    BY <2>1 DEF Known, PreservedPins, Holders
  <2>. QED  BY <2>2, <2>3 DEF PinsExact
<1>. QED  BY <1>1, CacheInvAlways, PTL

(* No vector changes under a search that reads it, although lines_ grows   *)
(* and shrinks meanwhile.                                                  *)
THEOREM ReadersSeeNoChange == CacheSpec => ReadersStable
<1>1. CacheInv /\ [CacheNext]_everyVar
        => [\A s \in Session :
              reader[s] # NoVec /\ reader'[s] = reader[s]
                => store'.size[reader[s]] = store.size[reader[s]]]_everyVar
  <2>. SUFFICES ASSUME CacheInv, [CacheNext]_everyVar, NEW s \in Session, reader[s] # NoVec
                PROVE  store'.size[reader[s]] = store.size[reader[s]]
    OBVIOUS
  <2>1. KeepsRead(store, store') /\ reader[s] \in Vec
    BY CacheStep, CacheAssumption DEF CacheInv, CacheTypes
  <2>2. ~SoleOwner(reader[s])
    BY DEF SoleOwner
  <2>. QED  BY <2>1, <2>2 DEF KeepsRead
<1>. QED  BY <1>1, CacheInvAlways, PTL DEF CacheSpec, ReadersStable
=============================================================================
