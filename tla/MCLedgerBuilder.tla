--------------------------- MODULE MCLedgerBuilder ---------------------------
(* A small heap for LedgerBuilder: enough addresses for a copy or a clear  *)
(* to find a free one while every slot holds a view.                       *)
EXTENDS LedgerBuilder, TLC

CONSTANTS b1, b2, b3, o1, o2, o3, s1, s2

HeapSymmetry == Permutations({b1, b2, b3}) \cup Permutations({o1, o2, o3})
                  \cup Permutations({s1, s2})

(* What an address nobody points to holds makes no difference: it is       *)
(* overwritten when the address is taken again.                            *)
Reachable ==
  <<[x \in BaseId |-> IF BaseInUse(x) THEN bases[x] ELSE NoObjects],
    [x \in OvlId |-> IF OvlInUse(x) THEN overlays[x] ELSE NoChanges],
    base, overlay, frozen, header, fees, views>>
=============================================================================
