---------------------------- MODULE MCOrderBooks ----------------------------
(* Two issuers of one currency against the native asset: two qualities of  *)
(* one book, the other issuer's book, the way back, two books of a domain, *)
(* a pool beside the first book, and one that stands alone.                *)
EXTENDS OrderBooks, TLC

CONSTANTS xrp, usd1, usd2, XRP, USD, dom

MCTokenOf == (xrp :> XRP) @@ (usd1 :> USD) @@ (usd2 :> USD)

Dir(a, b, d, q) == [in |-> a, out |-> b, domain |-> d, quality |-> q]

MCRoot == {Dir(usd1, xrp, NoDomain, 1), Dir(usd1, xrp, NoDomain, 2),
           Dir(usd2, xrp, NoDomain, 1), Dir(xrp, usd1, NoDomain, 1),
           Dir(usd1, xrp, dom, 2), Dir(usd1, usd2, dom, 1)}
MCAmm == {{usd1, xrp}, {usd1, usd2}}
=============================================================================
