----------------------------- MODULE FastPathFinder -----------------------------
(***************************************************************************)
(* FastPathFinder (src/src/edgy/graph.cpp): one search over the books for  *)
(* one source asset.  Candidates are gathered in five stages, the first of *)
(* them are priced, and the best are returned, the short ones first.       *)
(*                                                                         *)
(* The books are those of the apply thread, which goes on writing them:    *)
(* each query sees them as they are at that moment.  A path is the         *)
(* sequence of the assets it buys.                                         *)
(***************************************************************************)
EXTENDS Naturals, Sequences, FiniteSets, SequencesExt, FiniteSetsExt, Selection

CONSTANTS
  Asset, Native,
  TokenOf,        \* an asset without its issuer
  Ends,           \* the pairs of source and destination asked for
  BookSets,       \* what the books may be when the search begins
  Churn,          \* the books that may come or go meanwhile
  ChurnBound,     \* how often they do
  Tip, NoQuality, \* the quality of a book's tip by its two assets
  Budgets,        \* [maxHops, twoHop, expand, branch, rank]
  Extras,         \* the sequences of paths the session's context may hold
  Rates,          \* [quality, liquidity]: what RippleCalc may say of a live path
  MaxPathLength, MaxPathCount, MaxCandidates

Token == {TokenOf[a] : a \in Asset}

ASSUME FastAssumption ==
  /\ Native \in Asset /\ TokenOf \in [Asset -> Token]
  /\ \A a \in Asset : TokenOf[a] = TokenOf[Native] => a = Native
  /\ Ends \subseteq {e \in Asset \X Asset : e[1] # e[2]}
  /\ BookSets \subseteq SUBSET (Asset \X Asset) /\ Churn \subseteq Asset \X Asset
  /\ IsFiniteSet(Asset) /\ ChurnBound \in Nat /\ Extras \subseteq Seq(Seq(Asset))
  /\ NoQuality \in Nat /\ Tip \in [Asset \X Asset -> 0 .. NoQuality]
  /\ {MaxPathLength, MaxPathCount, MaxCandidates} \subseteq Nat
  /\ Budgets \subseteq [maxHops : 0 .. MaxPathLength, twoHop : Nat \ {0, 1}, expand : Nat,
                        branch : Nat, rank : Nat]

VARIABLES
  src, dst, domain, convertAll, budget, extra,  \* what is asked
  books,        \* LocalOrderBooks: pairs <<in, out>>
  everBooks,    \* history: the books there were at some time of this search
  churned,      \* history: how often the books changed
  late,         \* continueCallback says no: the session's time is up
  pc,
  pairs,                    \* the one- and two-hop paths before they are sorted
  candidates,
  frontier, expanded,       \* q and the number of frames taken from it
  at, rankedKeys, ranks,    \* the ranking: index, currency sequences, results
  paths, discovered         \* the result

asked == <<src, dst, domain, convertAll, budget, extra>>
world == <<books, everBooks, churned>>
walk == <<frontier, expanded>>
ranking == <<at, rankedKeys, ranks>>
result == <<paths, discovered>>
finderVars == <<asked, world, late, pc, pairs, candidates, walk, ranking, result>>

FinderInit ==
  /\ \E e \in Ends : src = e[1] /\ dst = e[2]
  /\ domain \in BOOLEAN /\ convertAll \in BOOLEAN /\ budget \in Budgets /\ extra \in Extras
  /\ books \in BookSets /\ everBooks = books /\ churned = 0
  /\ late = FALSE /\ pc = "pairs"
  /\ pairs = {} /\ candidates = << >>
  /\ frontier = << << >> >> /\ expanded = 0
  /\ at = 0 /\ rankedKeys = {} /\ ranks = << >>
  /\ paths = << >> /\ discovered = << >>

(* The apply thread adds or removes a book. *)
BookChange ==
  \E b \in Churn :
    /\ churned < ChurnBound /\ pc \notin {"rank", "done"}
    /\ books' = IF b \in books THEN books \ {b} ELSE books \cup {b}
    /\ everBooks' = everBooks \cup books' /\ churned' = churned + 1
    /\ UNCHANGED <<asked, late, pc, pairs, candidates, walk, ranking, result>>

-----------------------------------------------------------------------------
(* The queries (order_books.cpp): by asset, or by the currency paid in;    *)
(* in a domain, whose books are kept apart, by asset only.                 *)

Same(a, b) == TokenOf[a] = TokenOf[b]
Keyed(a, b) == IF domain THEN a = b ELSE Same(a, b)
HasBook(a, b) == \E x \in Asset : Keyed(x, a) /\ <<x, b>> \in books
Neighbors(a) == {b \in Asset : HasBook(a, b)}
Intermediates(a, b) ==
  {m \in Neighbors(a) : \E y \in Asset : Keyed(y, b) /\ <<m, y>> \in books}
BookSize(a) == Cardinality({b \in Asset : <<a, b>> \in books})

-----------------------------------------------------------------------------
(* Candidates. *)

(* addPath: a path that is empty, too long, one too many or there already  *)
(* is dropped.                                                             *)
AddPath(set, path) ==
  IF \/ path = << >> \/ Len(path) > MaxPathLength
     \/ Len(set) >= MaxCandidates \/ Contains(set, path)
  THEN set
  ELSE Append(set, path)

AddPaths(set, seq) ==
  LET grown[i \in 0 .. Len(seq)] == IF i = 0 THEN set ELSE AddPath(grown[i - 1], seq[i])
  IN  grown[Len(seq)]

HopCurrencyKey(path) == [i \in DOMAIN path |-> TokenOf[path[i]]]

EdgeQ(a, b) == IF Tip[a, b] = NoQuality THEN NoQuality \div 2 ELSE Tip[a, b]
Saturated(p, q) == IF p + q > NoQuality THEN NoQuality ELSE p + q
PathQ(hops) ==
  FoldLeft(LAMBDA q, i : Saturated(q, EdgeQ(IF i = 1 THEN src ELSE hops[i - 1], hops[i])),
           0, [i \in DOMAIN hops |-> i])

NoWorse(p, q) ==
  \/ PathQ(p) < PathQ(q)
  \/ PathQ(p) = PathQ(q) /\ Len(p) <= Len(q)

(* The order of equals is whatever std::ranges::sort leaves them in. *)
Sorted(S) ==
  {s \in SetToSeqs(S) : \A i, j \in DOMAIN s : i < j => NoWorse(s[i], s[j])}

(* A loop over the set M comes to n of its elements, in the order of the   *)
(* hash set: all, its limit, or as far as the session's deadline allows.   *)
Loop(M, limit, n) ==
  LET all == IF Cardinality(M) < limit THEN Cardinality(M) ELSE limit
  IN  /\ n <= (IF late THEN 0 ELSE all)
      /\ late' = (late \/ n < all)

Mids(a, b) == {m \in Intermediates(a, b) : ~Same(m, src) /\ ~Same(m, dst)}

NeitherNative == src # Native /\ dst # Native

(* The pairs: the book itself, the two through the native asset, and those *)
(* through any other pivot.  The four queries take the lock one by one.    *)
Direct ==
  /\ pc = "pairs" /\ pc' = "native"
  /\ pairs' = IF HasBook(src, dst) THEN {<<dst>>} ELSE {}
  /\ UNCHANGED <<asked, world, late, candidates, walk, ranking, result>>

ViaNativeIn ==
  /\ pc = "native"
  /\ pc' = IF NeitherNative /\ HasBook(src, Native) THEN "native out" ELSE "pivots"
  /\ UNCHANGED <<asked, world, late, pairs, candidates, walk, ranking, result>>

ViaNativeOut ==
  /\ pc = "native out" /\ pc' = "pivots"
  /\ pairs' = IF HasBook(Native, dst) THEN pairs \cup {<<Native, dst>>} ELSE pairs
  /\ UNCHANGED <<asked, world, late, candidates, walk, ranking, result>>

Pivots ==
  /\ pc = "pivots" /\ pc' = "hubs in"
  /\ LET M == IF NeitherNative THEN Mids(src, dst) \ {Native} ELSE Mids(src, dst)
     IN  \E seen \in SUBSET M :
           /\ Loop(M, budget.twoHop, Cardinality(seen))
           /\ \E s \in Sorted(pairs \cup {<<m, dst>> : m \in seen}) :
                candidates' = AddPaths(candidates, s)
  /\ pairs' = {}
  /\ UNCHANGED <<asked, world, walk, ranking, result>>

-----------------------------------------------------------------------------
(* Three hops, by a hub: any asset and the native one, in either order.    *)
(* The book next to the hub is asked for first.                            *)

HubLoop(P) ==
  \E s \in SetToAllKPermutations(P) :
    /\ Loop(P, budget.twoHop \div 2, Len(s))
    /\ candidates' = AddPaths(candidates, s)

HubsInFirst ==
  /\ pc = "hubs in"
  /\ pc' = IF budget.maxHops >= 3 /\ dst # Native /\ HasBook(Native, dst)
           THEN "into native" ELSE "hubs out"
  /\ UNCHANGED <<asked, world, late, pairs, candidates, walk, ranking, result>>

HubsIn ==
  /\ pc = "into native" /\ pc' = "hubs out"
  /\ HubLoop({<<m, Native, dst>> : m \in Mids(src, Native) \ {Native}})
  /\ UNCHANGED <<asked, world, pairs, walk, ranking, result>>

HubsOutFirst ==
  /\ pc = "hubs out"
  /\ pc' = IF budget.maxHops >= 3 /\ src # Native /\ HasBook(src, Native)
           THEN "out of native" ELSE "walk"
  /\ UNCHANGED <<asked, world, late, pairs, candidates, walk, ranking, result>>

HubsOut ==
  /\ pc = "out of native" /\ pc' = "walk"
  /\ HubLoop({<<Native, m, dst>> : m \in Mids(Native, dst) \ {Native}})
  /\ UNCHANGED <<asked, world, pairs, walk, ranking, result>>

-----------------------------------------------------------------------------
(* Longer ones: a walk in breadth, within a budget of frames and branches. *)

First(b) == b = dst \/ b = Native

(* orderedNeighbors: the destination and the native asset lead, the others *)
(* follow by the number of their books.  Two neighbours are not sorted.    *)
OrderedNeighbors(a) ==
  LET near == Neighbors(a)
      Precedes(x, y) ==
        \/ First(x)
        \/ ~First(y) /\ (Cardinality(near) > 2 => BookSize(x) >= BookSize(y))
  IN  {s \in SetToSeqs(near) : \A i, j \in DOMAIN s : i < j => Precedes(s[i], s[j])}

(* Slip: only the source is not walked through again. *)
NextNotSource(hops, b) == ~Same(b, src)

MayStep(hops, b) == ~Same(b, src) /\ ~Contains(hops, b)

(* Slip: the last hop allowed is taken to be one too many. *)
OnwardLess(p) == Last(p) # dst /\ Len(p) + 1 < budget.maxHops

Onward(p) == Last(p) # dst /\ Len(p) < budget.maxHops

Taken(seq, n) == SubSeq(seq, 1, IF Len(seq) < n THEN Len(seq) ELSE n)

Walk ==
  /\ pc = "walk" /\ budget.maxHops >= 4
  /\ frontier # << >> /\ expanded < budget.expand /\ ~late
  /\ LET hops == Head(frontier) IN
       \E near \in OrderedNeighbors(IF hops = << >> THEN src ELSE Last(hops)) :
         LET open == Among(near, {b \in Asset : MayStep(hops, b)})
             next == [i \in DOMAIN Taken(open, budget.branch) |-> Append(hops, open[i])]
         IN  /\ candidates' = AddPaths(candidates, Among(next, {p \in ToSet(next) : Last(p) = dst}))
             /\ frontier' = Tail(frontier) \o Among(next, {p \in ToSet(next) : Onward(p)})
  /\ expanded' = expanded + 1
  /\ UNCHANGED <<asked, world, late, pc, pairs, ranking, result>>

(* The walk is over, or the deadline comes before its next frame; the      *)
(* paths the session found earlier follow.                                 *)
WalkEnds ==
  /\ pc = "walk" /\ pc' = "rank"
  /\ \/ budget.maxHops < 4 /\ UNCHANGED late
     \/ (frontier = << >> \/ expanded >= budget.expand) /\ UNCHANGED late
     \/ late' = TRUE
  /\ candidates' = AddPaths(candidates, extra)
  /\ UNCHANGED <<asked, world, pairs, walk, ranking, result>>

-----------------------------------------------------------------------------
(* The ranking: RippleCalc, which is not part of this code, says of a      *)
(* candidate that it is dry or what it yields.                             *)

RankLimit == IF Len(candidates) < budget.rank THEN Len(candidates) ELSE budget.rank

Unranked ==
  {i \in DOMAIN candidates : i > at /\ HopCurrencyKey(candidates[i]) \notin rankedKeys}

MoreToRank == Cardinality(rankedKeys) < RankLimit /\ Unranked # {}

Rank ==
  /\ pc = "rank" /\ ~late /\ MoreToRank
  /\ LET i == Min(Unranked) IN
       /\ at' = i
       /\ rankedKeys' = rankedKeys \cup {HopCurrencyKey(candidates[i])}
       /\ \/ UNCHANGED ranks
          \/ \E r \in Rates :
               ranks' = Append(ranks, [path |-> candidates[i], rate |-> r, index |-> i])
  /\ UNCHANGED <<asked, world, late, pc, pairs, candidates, walk, result>>

(* The order of the ranked: by quality, unless everything is converted;    *)
(* then by liquidity, length and place.                                    *)
Ahead(p, q) ==
  LET key(r) == <<IF convertAll THEN 0 ELSE r.rate.quality, 100 - r.rate.liquidity,
                  Len(r.path), r.index>>
      a == key(p)
      b == key(q)
  IN  \E i \in 1 .. 4 : a[i] < b[i] /\ \A j \in 1 .. i - 1 : a[j] = b[j]

Ranked == {s \in SetToSeqs(ToSet(ranks)) : \A i, j \in DOMAIN s : i < j => Ahead(s[i], s[j])}

Short(r) == Len(r.path) <= 2

(* Slip: in the order of the ranking, whatever the length. *)
ChosenAsRanked(sorted) == sorted

(* The two picks: no long path before a short one. *)
Chosen(sorted) ==
  LET short == {r \in ToSet(sorted) : Short(r)}
  IN  Among(sorted, short) \o Among(sorted, ToSet(sorted) \ short)

Finish ==
  /\ pc = "rank" /\ pc' = "done"
  /\ \/ ~MoreToRank /\ UNCHANGED late
     \/ late' = TRUE
  /\ \E sorted \in Ranked :
       LET first == Taken(Chosen(sorted), MaxPathCount)
           rest == Among(sorted, ToSet(sorted) \ ToSet(first))
           all == [i \in DOMAIN (first \o rest) |-> (first \o rest)[i].path]
       IN  /\ paths' = Taken(all, MaxPathCount)
           /\ discovered' = all
  /\ UNCHANGED <<asked, world, pairs, candidates, walk, ranking>>

Gather ==
  \/ Direct \/ ViaNativeIn \/ ViaNativeOut \/ Pivots
  \/ HubsInFirst \/ HubsIn \/ HubsOutFirst \/ HubsOut
  \/ Walk \/ WalkEnds

FinderNext == BookChange \/ Gather \/ Rank \/ Finish

FinderSpec == FinderInit /\ [][FinderNext]_finderVars

-----------------------------------------------------------------------------
(* Properties. *)

FinderTypeOK ==
  /\ books \subseteq everBooks /\ everBooks \subseteq Asset \X Asset
  /\ churned \in 0 .. ChurnBound /\ late \in BOOLEAN
  /\ pairs \subseteq Seq(Asset) /\ candidates \in Seq(Seq(Asset))
  /\ frontier \in Seq(Seq(Asset)) /\ expanded \in 0 .. budget.expand
  /\ at \in 0 .. Len(candidates) /\ rankedKeys \subseteq Seq(Token)
  /\ ranks \in Seq([path : Seq(Asset), rate : Rates, index : DOMAIN candidates])
  /\ paths \in Seq(Seq(Asset)) /\ discovered \in Seq(Seq(Asset))

(* p is a way from src to dst over the books B.  A book is looked up by    *)
(* the currency paid in; the last book before dst by that of dst as well.  *)
(* (In a domain both are looked up by the asset.)                          *)
WalkOver(B, p) ==
  /\ Last(p) = dst
  /\ \A i \in DOMAIN p :
       \E x, y \in Asset :
         /\ Keyed(x, IF i = 1 THEN src ELSE p[i - 1])
         /\ y = p[i] \/ (i = Len(p) /\ i > 1 /\ Keyed(y, dst))
         /\ <<x, y>> \in B

Simple(p) == IsInjective(p) /\ \A i \in DOMAIN p : p[i] = dst \/ ~Same(p[i], src)

NativeLoop(p) == Len(p) = 3 /\ Native \in {src, dst} /\ p[1] # p[2] /\ p[2] # p[3]

(* Whatever the apply thread does to the books meanwhile, a candidate the  *)
(* search finds is a way to the destination over books that were there,    *)
(* within the payment engine's length and number, and it passes no asset   *)
(* twice - but for the hubs of a native source or destination.             *)
CandidatesAreWalks ==
  /\ FinderTypeOK
  /\ Len(candidates) <= MaxCandidates
  /\ \A p \in ToSet(candidates) \ ToSet(extra) :
       /\ WalkOver(everBooks, p) /\ Len(p) <= MaxPathLength
       /\ Simple(p) \/ NativeLoop(p)

(* A search that was neither cut short nor disturbed. *)
Undisturbed == ~late /\ churned = 0

(* Every way of one or two hops there is, by the queries for pairs: the    *)
(* books with the native asset are asked for themselves, the book after    *)
(* any other asset by the destination's currency.                          *)
ShortWalks ==
  {p \in {<<dst>>} : HasBook(src, dst)}
    \cup {<<m, dst>> : m \in Mids(src, dst) \ {Native}}
    \cup {p \in {<<Native, dst>>} : NeitherNative /\ HasBook(src, Native) /\ HasBook(Native, dst)}

(* The comment above the two picks: no chain through a hub hides a pair.   *)
(* While a pair is unpriced, no longer path has been priced; and a longer  *)
(* path is only returned with every pair that was worth something, the     *)
(* better first.                                                           *)
ShortNotHidden ==
  /\ (/\ Undisturbed /\ Cardinality(Mids(src, dst)) <= budget.twoHop
      /\ \E k \in rankedKeys : Len(k) > 2) =>
        \A p \in ShortWalks : HopCurrencyKey(p) \in rankedKeys
  /\ pc = "done" =>
       \A r, s \in ToSet(ranks) :
         Contains(paths, s.path) /\ ~Contains(paths, r.path) =>
           /\ Short(r) => Short(s)
           /\ Short(r) = Short(s) => Ahead(s, r)

(* A budget wide enough for the graph misses nothing: the stages together  *)
(* bring every simple way within its number of hops.  (The walk does not   *)
(* enter a destination of the source's currency.)                          *)
SimpleWalks(B, n) ==
  {p \in SetToAllKPermutations(Asset) :
     /\ Len(p) \in 1 .. n /\ Simple(p) /\ WalkOver(B, p)
     /\ \E x \in Asset : Keyed(x, IF Len(p) = 1 THEN src ELSE p[Len(p) - 1]) /\ <<x, dst>> \in B}

WalkedWide ==
  /\ Undisturbed /\ Len(candidates) < MaxCandidates
  /\ budget.maxHops >= 4 /\ frontier = << >> /\ budget.branch >= Cardinality(Asset)

WideEnoughIsComplete ==
  pc = "rank" /\ at = 0 /\ WalkedWide /\ ~Same(src, dst) =>
    SimpleWalks(books, budget.maxHops) \subseteq ToSet(candidates)

-----------------------------------------------------------------------------
(* What the repository says and the code does not do. *)

(* README.md:30: every one- and two-hop pair is scanned.  The loop over    *)
(* the pivots stops at its limit, in the order of the hash set.            *)
EveryPairScanned ==
  pc = "rank" /\ Undisturbed => ShortWalks \subseteq ToSet(candidates)

(* README.md:33: longer hops fill leftover slots.  The walk passes over    *)
(* whatever has the source's currency, also the destination.               *)
LongerHopsFill ==
  pc = "done" /\ WalkedWide /\ Cardinality(rankedKeys) < budget.rank =>
    \A p \in SetToAllKPermutations(Asset) :
      Len(p) \in 1 .. budget.maxHops /\ WalkOver(books, p) /\ ~Contains(p, src)
        => HopCurrencyKey(p) \in rankedKeys

(* README.md:33, again: the leftover slots are not spent on paths that     *)
(* come back to where they began.                                          *)
NoSlotForLoops ==
  \A p \in ToSet(candidates) :
    Contains(p, src) => HopCurrencyKey(p) \notin rankedKeys
===============================================================================
