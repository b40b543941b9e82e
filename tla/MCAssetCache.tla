---------------------------- MODULE MCAssetCache ----------------------------
(* Two accounts, a subscription and a one-shot; a budget that the two      *)
(* accounts exceed; directories that take several chunks.                  *)
EXTENDS AssetCache

CONSTANTS sub, sub2, shot, v1, v2, v3, v4, v5

SizeOf(v) == IF v = NoVec THEN -1 ELSE store.size[v]

(* What a vector is called makes no difference, only how long it is and    *)
(* who shares it; what one nobody points to holds makes none at all.       *)
UpToAddresses ==
  <<[a \in Account |-> IF a \in Known(store)
       THEN [store.lines[a] EXCEPT !.lines = SizeOf(@)] ELSE NoEntry],
    [s \in Session |->
       <<SizeOf(reader[s]), {a \in Known(store) : store.lines[a].lines = reader[s]},
         {r \in Session : reader[r] = reader[s]}>>],
    store.total, seq, held, retired, expanding, waveDue, life, at, acct, scope>>
=============================================================================
