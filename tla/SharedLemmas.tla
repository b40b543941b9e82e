---------------------------- MODULE SharedLemmas ----------------------------
(***************************************************************************)
(* What the proofs about several components rest on: what joining a queue  *)
(* at its end and taking its first element do to what is in it, that       *)
(* numbers have a least one, and what a loop over a sequence returns.      *)
(***************************************************************************)
EXTENDS Integers, Sequences, Selection, SequenceTheorems, WellFoundedInduction, TLAPS

-----------------------------------------------------------------------------
(* Queues. *)

InQueue(q, x) == \E i \in 1 .. Len(q) : q[i] = x
NoneTwice(q) == \A i, k \in 1 .. Len(q) : q[i] = q[k] => i = k

(* Nothing is in an empty queue. *)
LEMMA EmptyQueue == (\A x : ~InQueue(<< >>, x)) /\ NoneTwice(<< >>)
BY EmptySeq DEF InQueue, NoneTwice

(* What is in a queue of elements of S is an element of S. *)
LEMMA QueueElements ==
  ASSUME NEW S, NEW q \in Seq(S)
  PROVE  /\ \A x : InQueue(q, x) => x \in S
         /\ \A x : InQueue(q, x) => q # << >>
         /\ q # << >> => \E x \in S : InQueue(q, x)
<1>1. /\ Len(q) \in Nat /\ \A i \in 1 .. Len(q) : q[i] \in S
      /\ q # << >> => Len(q) # 0
  BY LenProperties, ElementOfSeq, EmptySeq
<1>. QED  BY <1>1, EmptyQueue DEF InQueue

(* What joins a queue goes behind all that was in it. *)
LEMMA AppendQueue ==
  ASSUME NEW S, NEW q \in Seq(S), NEW x \in S
  PROVE  /\ Append(q, x) \in Seq(S) /\ Append(q, x) # << >>
         /\ Len(q) \in Nat /\ Len(Append(q, x)) = Len(q) + 1
         /\ \A y : InQueue(Append(q, x), y) <=> InQueue(q, y) \/ y = x
         /\ NoneTwice(q) /\ ~InQueue(q, x) => NoneTwice(Append(q, x))
         /\ q # << >> => Head(Append(q, x)) = Head(q)
<1>1. /\ Append(q, x) \in Seq(S) /\ Len(q) \in Nat
      /\ Len(Append(q, x)) = Len(q) + 1
      /\ \A i \in 1 .. Len(q) : Append(q, x)[i] = q[i]
      /\ Append(q, x)[Len(q) + 1] = x
  BY AppendProperties, LenProperties
<1>2. Append(q, x) # << >>
  BY AppendProperties
<1>3. ASSUME NEW y PROVE InQueue(Append(q, x), y) <=> InQueue(q, y) \/ y = x
  BY <1>1 DEF InQueue
<1>4. NoneTwice(q) /\ ~InQueue(q, x) => NoneTwice(Append(q, x))
  BY <1>1 DEF InQueue, NoneTwice
<1>5. q # << >> => Head(Append(q, x)) = Head(q)
  <2>1. q # << >> => 1 \in 1 .. Len(q) /\ Head(q) = q[1]
    BY <1>1, HeadTailProperties, EmptySeq
  <2>2. Head(Append(q, x)) = Append(q, x)[1]
    BY <1>1, <1>2, HeadTailProperties
  <2>. QED  BY <1>1, <2>1, <2>2
<1>. QED  BY <1>1, <1>2, <1>3, <1>4, <1>5

(* What is taken is the first, and the others stay. *)
LEMMA TakeQueue ==
  ASSUME NEW S, NEW q \in Seq(S), q # << >>
  PROVE  /\ Head(q) \in S /\ Tail(q) \in Seq(S) /\ InQueue(q, Head(q))
         /\ Len(q) \in Nat \ {0} /\ Len(Tail(q)) = Len(q) - 1
         /\ \A y : InQueue(q, y) <=> InQueue(Tail(q), y) \/ y = Head(q)
         /\ NoneTwice(q) => NoneTwice(Tail(q)) /\ ~InQueue(Tail(q), Head(q))
<1>1. /\ Len(q) \in Nat \ {0} /\ Tail(q) \in Seq(S)
      /\ Len(Tail(q)) = Len(q) - 1
      /\ \A i \in 1 .. Len(q) - 1 : Tail(q)[i] = q[i + 1]
      /\ Head(q) = q[1] /\ Head(q) \in S
  BY HeadTailProperties, LenProperties, EmptySeq
<1>2. InQueue(q, Head(q))
  BY <1>1 DEF InQueue
<1>3. ASSUME NEW y PROVE InQueue(q, y) <=> InQueue(Tail(q), y) \/ y = Head(q)
  <2>1. ASSUME NEW i \in 1 .. Len(q), q[i] = y, y # Head(q)
        PROVE  InQueue(Tail(q), y)
    <3>1. i - 1 \in 1 .. Len(q) - 1 /\ Tail(q)[i - 1] = q[i]
      BY <2>1, <1>1
    <3>. QED  BY <3>1, <2>1, <1>1 DEF InQueue
  <2>2. InQueue(Tail(q), y) => InQueue(q, y)
    BY <1>1 DEF InQueue
  <2>. QED  BY <2>1, <2>2, <1>2 DEF InQueue
<1>4. NoneTwice(q) => NoneTwice(Tail(q)) /\ ~InQueue(Tail(q), Head(q))
  BY <1>1 DEF InQueue, NoneTwice
<1>. QED  BY <1>1, <1>2, <1>3, <1>4

(* A sequence is one of the elements it has. *)
LEMMA SeqWithin ==
  ASSUME NEW S, NEW q \in Seq(S), NEW T, \A i \in 1 .. Len(q) : q[i] \in T
  PROVE  q \in Seq(T)
<1>. DEFINE n == Len(q)
<1>1. n \in Nat /\ q \in [1 .. n -> S] /\ \A i \in 1 .. n : q[i] \in T
  BY LenProperties
<1>. HIDE DEF n
<1>2. q \in [1 .. n -> T]
  BY <1>1
<1>. QED  BY <1>1, <1>2

-----------------------------------------------------------------------------
(* A set of numbers has a least one: induction as an argument by the least *)
(* counterexample.                                                         *)
LEMMA LeastNumber ==
  ASSUME NEW T \in SUBSET Nat, T # {}
  PROVE  \E x \in T : \A y \in T : x <= y
<1>. DEFINE R == {ss \in Nat \X Nat : ss[1] < ss[2]}
<1>1. IsWellFoundedOn(R, Nat)
  BY NatLessThanWellFounded DEF OpToRel
<1>. HIDE DEF R
<1>2. PICK x \in T : \A y \in T : ~(<<y, x>> \in R)
  BY <1>1, WFMin
<1>3. \A y \in T : ~(y < x)
  BY <1>2 DEF R
<1>. QED  BY <1>3

-----------------------------------------------------------------------------
(* Loops. *)

(* A loop of n steps has a result: each step makes the next value out of   *)
(* the one before.                                                         *)
Runs(f, b, G, n) == f[0] = b /\ \A i \in 1 .. n : f[i] = G[i][f[i - 1]]

LEMMA Iterates ==
  ASSUME NEW S, NEW b \in S, NEW n \in Nat, NEW G \in [1 .. n -> [S -> S]]
  PROVE  \E f \in [0 .. n -> S] : Runs(f, b, G, n)
<1>. DEFINE T == {m \in 0 .. n : ~ \E f \in [0 .. m -> S] : Runs(f, b, G, m)}
<1>1. ASSUME T # {} PROVE FALSE
  <2>1. T \in SUBSET Nat
    OBVIOUS
  <2>2. PICK m \in T : \A k \in T : m <= k
    <3>. HIDE DEF T
    <3>. QED  BY <1>1, <2>1, LeastNumber
  <2>3. m \in 0 .. n /\ ~ \E f \in [0 .. m -> S] : Runs(f, b, G, m)
    OBVIOUS
  <2>4. CASE m = 0
    <3>. DEFINE f == [i \in 0 .. 0 |-> b]
    <3>1. f \in [0 .. m -> S] /\ Runs(f, b, G, m)
      BY <2>4 DEF Runs
    <3>. QED  BY <2>3, <3>1
  <2>5. CASE m # 0
    <3>1. m - 1 \in 0 .. n /\ m - 1 \notin T /\ m \in 1 .. n
      BY <2>2, <2>3, <2>5
    <3>2. PICK f \in [0 .. m - 1 -> S] : Runs(f, b, G, m - 1)
      BY <3>1
    <3>. DEFINE g == [i \in 0 .. m |-> IF i = m THEN G[m][f[m - 1]] ELSE f[i]]
    <3>3. G[m][f[m - 1]] \in S
      <4>1. m - 1 \in 0 .. m - 1
        BY <3>1
      <4>2. G[m] \in [S -> S] /\ f[m - 1] \in S
        BY <3>1, <4>1
      <4>. QED  BY <4>2
    <3>4. g \in [0 .. m -> S]
      BY <3>1, <3>3
    <3>5. g[0] = b /\ g[m] = G[m][g[m - 1]]
      BY <3>1, <3>2 DEF Runs
    <3>6. ASSUME NEW i \in 1 .. m, i # m PROVE g[i] = G[i][g[i - 1]]
      BY <3>1, <3>2, <3>6 DEF Runs
    <3>. HIDE DEF g
    <3>7. Runs(g, b, G, m)
      BY <3>5, <3>6 DEF Runs
    <3>. QED  BY <2>3, <3>4, <3>7
  <2>. QED  BY <2>4, <2>5
<1>2. n \notin T
  BY <1>1
<1>. QED  BY <1>2

(* What holds at the start and survives each step holds to the end. *)
LEMMA StepByStep ==
  ASSUME NEW n \in Nat, NEW X, 0 \in X, \A i \in 1 .. n : i - 1 \in X => i \in X
  PROVE  \A i \in 0 .. n : i \in X
<1>. DEFINE T == {m \in 0 .. n : m \notin X}
<1>1. ASSUME T # {} PROVE FALSE
  <2>1. T \in SUBSET Nat
    OBVIOUS
  <2>2. PICK m \in T : \A k \in T : m <= k
    <3>. HIDE DEF T
    <3>. QED  BY <1>1, <2>1, LeastNumber
  <2>3. m \in 1 .. n /\ m - 1 \in 0 .. n /\ m - 1 \notin T
    BY <2>2
  <2>. QED  BY <2>3
<1>. QED  BY <1>1

(* The loop of Among, step by step. *)
AmongLoop(kept, s, T) ==
  /\ kept[0] = << >>
  /\ \A i \in 1 .. Len(s) :
       kept[i] = IF s[i] \in T THEN Append(kept[i - 1], s[i]) ELSE kept[i - 1]
  /\ Among(s, T) = kept[Len(s)]

LEMMA AmongSteps ==
  ASSUME NEW U, NEW s \in Seq(U), NEW T
  PROVE  \E kept : AmongLoop(kept, s, T) /\ \A i \in 0 .. Len(s) : kept[i] \in Seq(U \cap T)
<1>. DEFINE n == Len(s)
            P(F) == F = [i \in 0 .. n |->
                           IF i = 0 THEN << >>
                           ELSE IF s[i] \in T THEN Append(F[i - 1], s[i]) ELSE F[i - 1]]
            kept == CHOOSE F : P(F)
            V == U \cap T
            G == [i \in 1 .. n |-> [q \in Seq(V) |-> IF s[i] \in T THEN Append(q, s[i]) ELSE q]]
<1>1. n \in Nat /\ \A i \in 1 .. n : s[i] \in U
  BY LenProperties, ElementOfSeq
<1>2. << >> \in Seq(V)
  OBVIOUS
<1>3. ASSUME NEW i \in 1 .. n, NEW q \in Seq(V)
      PROVE  (IF s[i] \in T THEN Append(q, s[i]) ELSE q) \in Seq(V)
  BY <1>1, AppendProperties
<1>4. G \in [1 .. n -> [Seq(V) -> Seq(V)]]
  BY <1>3
<1>5. PICK f \in [0 .. n -> Seq(V)] : Runs(f, << >>, G, n)
  <2>. HIDE DEF G, n
  <2>. QED  BY <1>1, <1>2, <1>4, Iterates
<1>6. P(f)
  <2>1. f = [i \in 0 .. n |-> f[i]]
    OBVIOUS
  <2>2. ASSUME NEW i \in 0 .. n
        PROVE  f[i] = IF i = 0 THEN << >>
                      ELSE IF s[i] \in T THEN Append(f[i - 1], s[i]) ELSE f[i - 1]
    <3>1. CASE i = 0
      BY <1>5, <3>1 DEF Runs
    <3>2. CASE i # 0
      <4>1. i \in 1 .. n /\ i - 1 \in 0 .. n
        BY <1>1, <3>2
      <4>2. f[i] = G[i][f[i - 1]]
        BY <1>5, <4>1 DEF Runs
      <4>3. f[i - 1] \in Seq(V)
        BY <4>1
      <4>. QED  BY <3>2, <4>1, <4>2, <4>3
    <3>. QED  BY <3>1, <3>2
  <2>. QED  BY <2>1, <2>2
<1>7. P(kept)
  <2>. HIDE DEF P
  <2>. QED  BY <1>6
<1>8. Among(s, T) = kept[n]
  BY Zenon DEF Among, kept
<1>. HIDE DEF kept
<1>9. /\ kept[0] = << >>
      /\ \A i \in 1 .. n :
           kept[i] = IF s[i] \in T THEN Append(kept[i - 1], s[i]) ELSE kept[i - 1]
  <2>1. kept[0] = << >>
    BY <1>7, <1>1
  <2>2. ASSUME NEW i \in 1 .. n
        PROVE  kept[i] = IF s[i] \in T THEN Append(kept[i - 1], s[i]) ELSE kept[i - 1]
    <3>1. i \in 0 .. n /\ i # 0
      BY <1>1
    <3>. QED  BY <1>7, <3>1
  <2>. QED  BY <2>1, <2>2
<1>10. \A i \in 0 .. n : kept[i] \in Seq(V)
  <2>. DEFINE X == {i \in 0 .. n : kept[i] \in Seq(V)}
  <2>. HIDE DEF n, V
  <2>1. 0 \in X
    <3>1. 0 \in 0 .. n
      BY <1>1
    <3>2. kept[0] \in Seq(V)
      BY <1>2, <1>9, Zenon
    <3>. QED  BY <3>1, <3>2
  <2>2. ASSUME NEW i \in 1 .. n, i - 1 \in X PROVE i \in X
    <3>1. i \in 0 .. n /\ kept[i - 1] \in Seq(V)
      BY <1>1, <2>2
    <3>2. kept[i] \in Seq(V)
      BY <1>3, <1>9, <3>1
    <3>. QED  BY <3>1, <3>2
  <2>3. \A i \in 0 .. n : i \in X
    <3>. HIDE DEF X, n
    <3>. QED  BY <1>1, <2>1, <2>2, StepByStep
  <2>. QED  BY <2>3
<1>. QED  BY <1>8, <1>9, <1>10 DEF AmongLoop

(* What is picked is in the sequence and in the set. *)
LEMMA AmongMembers ==
  ASSUME NEW U, NEW s \in Seq(U), NEW T
  PROVE  Among(s, T) \in Seq(U \cap T)
<1>1. PICK kept : AmongLoop(kept, s, T) /\ \A i \in 0 .. Len(s) : kept[i] \in Seq(U \cap T)
  BY AmongSteps
<1>2. Len(s) \in 0 .. Len(s)
  BY LenProperties
<1>. QED  BY <1>1, <1>2 DEF AmongLoop

(* q has picked what is in T of the first m elements of s: w says which.   *)
Picks(q, w, m, s, T) ==
  /\ w \in [1 .. Len(q) -> 1 .. m]
  /\ \A k \in 1 .. Len(q) : q[k] = s[w[k]] /\ k <= w[k]
  /\ \A j, k \in 1 .. Len(q) : j < k => w[j] < w[k]
  /\ \A i \in 1 .. m : s[i] \in T => \E k \in 1 .. Len(q) : w[k] = i

(* All that is in the set is picked, in its order. *)
LEMMA AmongPicks ==
  ASSUME NEW U, NEW s \in Seq(U), NEW T
  PROVE  /\ \E w : Picks(Among(s, T), w, Len(s), s, T)
         /\ Len(Among(s, T)) <= Len(s)
<1>. DEFINE n == Len(s)
            V == U \cap T
<1>1. n \in Nat /\ \A i \in 1 .. n : s[i] \in U
  BY LenProperties, ElementOfSeq
<1>2. PICK kept : AmongLoop(kept, s, T) /\ \A i \in 0 .. n : kept[i] \in Seq(V)
  BY AmongSteps
<1>. HIDE DEF V, n
<1>3. /\ kept[0] = << >> /\ Among(s, T) = kept[n]
      /\ \A i \in 1 .. n :
           kept[i] = IF s[i] \in T THEN Append(kept[i - 1], s[i]) ELSE kept[i - 1]
  BY <1>2 DEF AmongLoop, n
<1>. DEFINE X == {m \in 0 .. n : \E w : Picks(kept[m], w, m, s, T)}
<1>4. 0 \in X
  <2>1. Len(<< >>) = 0 /\ [k \in 1 .. 0 |-> 0] \in [1 .. 0 -> 1 .. 0]
    OBVIOUS
  <2>2. Picks(<< >>, [k \in 1 .. 0 |-> 0], 0, s, T)
    BY <2>1 DEF Picks
  <2>. QED  BY <1>1, <1>3, <2>2
<1>5. ASSUME NEW m \in 1 .. n, m - 1 \in X PROVE m \in X
  <2>. DEFINE q == kept[m - 1]
              l == Len(q)
  <2>1. PICK w : Picks(q, w, m - 1, s, T)
    BY <1>5
  <2>2. m \in 0 .. n /\ m - 1 \in 0 .. n /\ m \in Nat
    BY <1>1
  <2>3. q \in Seq(V) /\ l \in Nat /\ \A x : Append(q, x) = Append(q, x)
    BY <1>2, <2>2, LenProperties
  <2>4. kept[m] = IF s[m] \in T THEN Append(q, s[m]) ELSE q
    BY <1>3
  <2>. HIDE DEF q
  <2>5. /\ w \in [1 .. l -> 1 .. m - 1]
        /\ \A k \in 1 .. l : q[k] = s[w[k]] /\ k <= w[k]
        /\ \A j, k \in 1 .. l : j < k => w[j] < w[k]
        /\ \A i \in 1 .. m - 1 : s[i] \in T => \E k \in 1 .. l : w[k] = i
    BY <2>1 DEF Picks
  <2>6. CASE s[m] \notin T
    <3>1. w \in [1 .. l -> 1 .. m]
      BY <2>2, <2>5
    <3>2. \A i \in 1 .. m : i = m \/ i \in 1 .. m - 1
      BY <2>2
    <3>3. Picks(q, w, m, s, T)
      BY <2>5, <2>6, <3>1, <3>2 DEF Picks
    <3>. QED  BY <2>2, <2>4, <2>6, <3>3
  <2>7. CASE s[m] \in T
    <3>. DEFINE r == Append(q, s[m])
                v == [k \in 1 .. l + 1 |-> IF k = l + 1 THEN m ELSE w[k]]
    <3>1. s[m] \in V
      BY <1>1, <2>7 DEF V
    <3>2. Len(r) = l + 1 /\ r[l + 1] = s[m] /\ \A k \in 1 .. l : r[k] = q[k]
      BY <2>3, <3>1, AppendProperties
    <3>. HIDE DEF r, l
    <3>3. \A k \in 1 .. l + 1 : k = l + 1 \/ k \in 1 .. l
      BY <2>3
    <3>4. v[l + 1] = m /\ \A k \in 1 .. l : v[k] = w[k] /\ w[k] \in 1 .. m - 1
      BY <2>3, <2>5
    <3>5. v \in [1 .. l + 1 -> 1 .. m]
      BY <2>2, <2>3, <2>5
    <3>. HIDE DEF v
    <3>6. l + 1 <= m
      <4>1. CASE l = 0
        BY <2>2, <4>1
      <4>2. CASE l # 0
        <5>1. l \in 1 .. l
          BY <2>3, <4>2
        <5>. QED  BY <2>2, <2>3, <2>5, <3>4, <5>1
      <4>. QED  BY <4>1, <4>2
    <3>7. ASSUME NEW k \in 1 .. l + 1 PROVE r[k] = s[v[k]] /\ k <= v[k]
      BY <2>5, <3>2, <3>3, <3>4, <3>6
    <3>8. ASSUME NEW j \in 1 .. l + 1, NEW k \in 1 .. l + 1, j < k PROVE v[j] < v[k]
      <4>1. j \in 1 .. l
        BY <2>3, <3>8
      <4>2. CASE k = l + 1
        BY <2>2, <3>4, <4>1, <4>2
      <4>3. CASE k \in 1 .. l
        BY <2>5, <3>4, <3>8, <4>1, <4>3
      <4>. QED  BY <3>3, <4>2, <4>3
    <3>9. ASSUME NEW i \in 1 .. m, s[i] \in T PROVE \E k \in 1 .. l + 1 : v[k] = i
      <4>1. CASE i = m
        <5>1. l + 1 \in 1 .. l + 1
          BY <2>3
        <5>. QED  BY <3>4, <4>1, <5>1
      <4>2. CASE i # m
        <5>1. i \in 1 .. m - 1
          BY <2>2, <4>2
        <5>2. PICK k \in 1 .. l : w[k] = i
          BY <2>5, <3>9, <5>1
        <5>3. k \in 1 .. l + 1 /\ v[k] = i
          BY <2>3, <3>4, <5>2
        <5>. QED  BY <5>3
      <4>. QED  BY <4>1, <4>2
    <3>10. Picks(r, v, m, s, T)
      BY <3>2, <3>5, <3>7, <3>8, <3>9 DEF Picks
    <3>. QED  BY <2>2, <2>4, <2>7, <3>10 DEF r
  <2>. QED  BY <2>6, <2>7
<1>6. \A i \in 0 .. n : i \in X
  <2>. HIDE DEF X
  <2>. QED  BY <1>1, <1>4, <1>5, StepByStep
<1>7. PICK w : Picks(Among(s, T), w, n, s, T)
  BY <1>1, <1>3, <1>6
<1>8. Len(Among(s, T)) <= n
  <2>. DEFINE l == Len(Among(s, T))
  <2>1. l \in Nat
    BY AmongMembers, LenProperties
  <2>2. CASE l = 0
    BY <1>1, <2>2
  <2>3. CASE l # 0
    <3>1. l \in 1 .. l
      BY <2>1, <2>3
    <3>2. w[l] \in 1 .. n /\ l <= w[l]
      BY <1>7, <3>1 DEF Picks
    <3>. QED  BY <1>1, <2>1, <3>2
  <2>. QED  BY <2>2, <2>3
<1>. QED  BY <1>7, <1>8 DEF n

(* Nothing that is in the set is left out. *)
LEMMA AmongAll ==
  ASSUME NEW U, NEW s \in Seq(U), NEW T, NEW x \in T, NEW i \in 1 .. Len(s), s[i] = x
  PROVE  \E k \in 1 .. Len(Among(s, T)) : Among(s, T)[k] = x
<1>1. PICK w : Picks(Among(s, T), w, Len(s), s, T)
  BY AmongPicks
<1>2. PICK k \in 1 .. Len(Among(s, T)) : w[k] = i
  BY <1>1 DEF Picks
<1>. QED  BY <1>1, <1>2 DEF Picks
=============================================================================
