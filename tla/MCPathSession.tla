----------------------------- MODULE MCPathSession -----------------------------
(* Two currencies, an issuer besides the sender, and requests of every     *)
(* kind: one that is accepted, and those that differ from it in one point. *)
EXTENDS PathSession

CONSTANTS xrp, usd, me, gw, gx, none

Native == [cur |-> xrp, iss |-> none]
Mine == [cur |-> usd, iss |-> me]
Theirs == [cur |-> usd, iss |-> gw]
Others == [cur |-> usd, iss |-> gx]
InOrder == <<Native, Mine, Theirs, Others>>
Holds == {Native, Mine}

Plain == [source |-> "ok", destination |-> "ok", amount |-> "some",
          sendMax |-> [is |-> "absent", asset |-> Native],
          currencies |-> [is |-> "absent", of |-> << >>], domain |-> "absent"]
These(seq) == [is |-> "some", of |-> seq]
Most(a) == [is |-> "some", asset |-> a]
All == [Plain EXCEPT !.amount = "all"]

Accepted ==
  {Plain, [Plain EXCEPT !.currencies = These(<<Theirs>>)],
   [All EXCEPT !.sendMax = Most(Theirs)],
   [All EXCEPT !.sendMax = Most(Mine), !.currencies = These(<<Others>>)],
   [All EXCEPT !.sendMax = Most(Theirs),
               !.currencies = These(<<Native, [cur |-> usd, iss |-> none]>>)]}

Faulty ==
  {[Plain EXCEPT !.source = x] : x \in {"absent", "bad"}}
    \cup {[Plain EXCEPT !.destination = x] : x \in {"absent", "bad"}}
    \cup {[Plain EXCEPT !.amount = x] : x \in {"absent", "bad", "zero"}}
    \cup {[Plain EXCEPT !.sendMax = Most(Mine)], [Plain EXCEPT !.domain = "bad"],
          [All EXCEPT !.sendMax.is = "bad"],
          [All EXCEPT !.sendMax = Most(Theirs), !.currencies = These(<<Others>>)]}
    \cup {[Plain EXCEPT !.currencies = These(s)] :
            s \in {<< >>, <<Native, Mine, Theirs>>, <<[cur |-> xrp, iss |-> gw]>>}}

SomeRequests == Accepted \cup Faulty
=============================================================================
