------------------------------- MODULE Selection -------------------------------
(***************************************************************************)
(* What a loop picks out of a sequence.  A recursive function where        *)
(* SelectSeq takes an operator, so that proofs can be about it.            *)
(***************************************************************************)
EXTENDS Naturals, Sequences

(* The elements of s that are in T, in their order. *)
Among(s, T) ==
  LET kept[i \in 0 .. Len(s)] ==
        IF i = 0 THEN << >>
        ELSE IF s[i] \in T THEN Append(kept[i - 1], s[i]) ELSE kept[i - 1]
  IN  kept[Len(s)]
================================================================================
