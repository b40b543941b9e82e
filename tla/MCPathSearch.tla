----------------------------- MODULE MCPathSearch -----------------------------
(* Two sessions, the second with the longest stagger, and a clock that     *)
(* stands shortly before and after the ages that matter.                   *)
EXTENDS PathSearch

Climbing == {[search |-> 9, searchFast |-> -1]}

Wide == [s \in Session |-> IF s = 1 THEN 19 ELSE 3]
=============================================================================
