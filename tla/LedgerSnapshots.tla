--------------------------- MODULE LedgerSnapshots ---------------------------
(***************************************************************************)
(* What LedgerBuilder and MemoryLedger promise together: one ledger that   *)
(* is written key by key, and published views of it that never change,     *)
(* whatever is written, cleared or released after they were taken          *)
(* (memory_ledger.hpp: "Immutable in-memory ledger").                      *)
(***************************************************************************)
CONSTANTS
  Key,      \* keys of ledger objects
  FeeKey,   \* the key of the fee settings object
  Val,      \* contents of objects
  Absent,   \* no object
  Slot,     \* who holds a view: a published pointer, a cache, a session
  NoView,   \* a holder without a view
  Seqs,     \* ledger sequences
  NoFees    \* the fees before any were read

VARIABLES current, header, fees, views
vars == <<current, header, fees, views>>

Empty == [k \in Key |-> Absent]

Init ==
  /\ current = Empty
  /\ header \in [seq : Seqs, open : {FALSE}]
  /\ fees = NoFees
  /\ views = [s \in Slot |-> NoView]

Upsert(k, v) ==
  /\ current' = [current EXCEPT ![k] = v]
  /\ UNCHANGED <<header, fees, views>>

Erase(k) ==
  /\ current' = [current EXCEPT ![k] = Absent]
  /\ UNCHANGED <<header, fees, views>>

(* clear() keeps the header's sequence and the fees. *)
Clear ==
  /\ current' = Empty
  /\ header' = [header EXCEPT !.open = FALSE]
  /\ UNCHANGED <<fees, views>>

SetHeader(seq) ==
  /\ header' = [header EXCEPT !.seq = seq]
  /\ UNCHANGED <<current, fees, views>>

SetOpen(b) ==
  /\ header' = [header EXCEPT !.open = b]
  /\ UNCHANGED <<current, fees, views>>

(* A view has the fees of its own fee object, or the last ones known. *)
Publish(s) ==
  /\ fees' = IF current[FeeKey] # Absent THEN current[FeeKey] ELSE fees
  /\ views' = [views EXCEPT ![s] =
                 [map |-> current, header |-> header, fees |-> fees']]
  /\ UNCHANGED <<current, header>>

Release(s) ==
  /\ views' = [views EXCEPT ![s] = NoView]
  /\ UNCHANGED <<current, header, fees>>

Next ==
  \/ \E k \in Key : Erase(k) \/ \E v \in Val : Upsert(k, v)
  \/ Clear
  \/ \E q \in Seqs : SetHeader(q)
  \/ \E b \in BOOLEAN : SetOpen(b)
  \/ \E s \in Slot : Publish(s) \/ Release(s)

Spec == Init /\ [][Next]_vars
=============================================================================
