---------------------------- MODULE MCFastPathFinder ----------------------------
(* Five assets and one more issuer of the source's currency.  Five books   *)
(* are always there, a chain of three among them, four more may be.        *)
EXTENDS FastPathFinder

CONSTANTS N, S, G, A, B, D

Token1 == [a \in {N, S, G, A, B, D} |-> IF a = G THEN S ELSE a]
Always == {<<S, A>>, <<A, B>>, <<B, D>>, <<A, N>>, <<G, N>>}
Maybe == {<<G, D>>, <<A, D>>, <<N, A>>, <<N, D>>}
SomeBooks == {Always \cup M : M \in SUBSET Maybe}
AllEnds == {<<S, D>>, <<N, D>>, <<S, N>>}
OneComes == {<<A, D>>}

(* From one issuer of a currency to another, by four books only. *)
SameEnds == {<<S, G>>}
LongChain == {{<<S, A>>, <<A, B>>, <<B, N>>, <<N, G>>}}

(* Three pivots. *)
Star == {{<<N, A>>, <<N, B>>, <<N, S>>, <<A, D>>, <<B, D>>, <<S, D>>}}

(* From the native asset, or from one issuer to another. *)
DivergentEnds == SameEnds \cup {<<N, D>>}
DivergentBooks == LongChain \cup Star \cup SomeBooks
Tips == [e \in {N, S, G, A, B, D} \X {N, S, G, A, B, D} |->
           IF e = <<S, D>> THEN 5 ELSE IF e[1] = A THEN 1 ELSE 8]

Budget(hops, two, exp, br, rank) ==
  [maxHops |-> hops, twoHop |-> two, expand |-> exp, branch |-> br, rank |-> rank]
SomeBudgets == {Budget(2, 2, 2, 2, 2), Budget(4, 2, 2, 2, 3), Budget(4, 4, 20, 6, 3)}
SomeExtras == {<< >>, << <<A, D>>, <<A, B, D>> >>}
TwoRates == {[quality |-> 1, liquidity |-> 1], [quality |-> 2, liquidity |-> 2]}
=============================================================================
