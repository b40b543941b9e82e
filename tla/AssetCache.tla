------------------------------ MODULE AssetCache ------------------------------
(***************************************************************************)
(* The cache of trust lines (src/src/vendor/path/AssetCache.cpp) as the    *)
(* engine and its path sessions use it: workers search with it, each for   *)
(* one session, while the apply thread advances it to the next ledger and  *)
(* connections that close release what their sessions pinned.              *)
(*                                                                         *)
(* A vector of lines is shared with the searches that read it, so it is an *)
(* address in a heap that says how many lines it has; which lines they are *)
(* makes no difference here.  lock_ makes each step one step, except the   *)
(* loops that expand accounts: those hold it over several steps            *)
(* (expanding).  searchMutex_ is held shared by a search from its begin to *)
(* its end.  The view itself is left out but for its ledger's number, and  *)
(* so are the MPTs.                                                        *)
(***************************************************************************)
EXTENDS Integers, FiniteSets, FiniteSetsExt

CONSTANTS
  Account,             \* accounts, ordered as their ids are
  Session,             \* sessions, named in advance
  OneShot,             \* those of a ripple_path_find, the others subscribe
  Vec, NoVec,          \* addresses of vectors, and null
  NoEntry,             \* an account lines_ does not mention
  MaxTotalLines, MaxLinesPerAccount, LineChunkSize, CacheReuseLedgers,
  LinesPerWave,        \* kPathExpandLinesPerWave
  LedgerBound          \* how many ledgers the cache is advanced to

Entry ==
  [lines : Vec \cup {NoVec}, pending : Nat, loadedSeq : Nat, pinCount : Nat,
   complete : BOOLEAN, reloadMinLines : Nat]

(* Accounts and sessions are finitely many, and make_shared always returns:*)
(* there is a vector that no entry and no search refers to.                *)
ASSUME CacheAssumption ==
  /\ Account \subseteq Nat /\ IsFiniteSet(Account)
  /\ OneShot \subseteq Session /\ IsFiniteSet(Session)
  /\ IsFiniteSet(Vec) /\ Cardinality(Vec) > Cardinality(Account) + Cardinality(Session)
  /\ NoVec \notin Vec /\ NoEntry \notin Entry
  /\ MaxTotalLines \in Nat /\ MaxLinesPerAccount \in Nat \ {0}
  /\ LineChunkSize \in Nat \ {0}
  /\ CacheReuseLedgers \in Nat /\ LinesPerWave \in Nat /\ LedgerBound \in Nat \ {0}

VARIABLES
  seq,        \* the ledger of ledger_
  store,      \* lines_, totalLineCount_, and the size of each vector
  held,       \* the accounts each session has pinned, in sessions_
  retired,    \* the sessions with a tombstone in sessions_
  expanding,  \* the loop that holds lock_, if one does
  waveDue,    \* the apply thread is about to expand
  life, at,   \* each session: whether it is open; what its worker is doing
  acct,       \* the account its worker is asking for
  reader,     \* the vector its worker reads
  scope       \* the LoadScope of its search, or 0

cacheVars == <<seq, store, held, retired>>
searchVars == <<life, at, acct, reader, scope>>
everyVar == <<cacheVars, expanding, waveDue, searchVars>>

NoLoop == [kind |-> "none", by |-> 0, work |-> {}, left |-> 0]

CacheInit ==
  /\ seq = 1
  /\ store = [lines |-> [a \in Account |-> NoEntry], total |-> 0,
              size |-> [v \in Vec |-> 0]]
  /\ held = [s \in Session |-> {}] /\ retired = {}
  /\ expanding = NoLoop /\ waveDue = FALSE
  /\ life = [s \in Session |-> "new"] /\ at = [s \in Session |-> "idle"]
  /\ acct = [s \in Session |-> 0]
  /\ reader = [s \in Session |-> NoVec] /\ scope = [s \in Session |-> 0]

-----------------------------------------------------------------------------
(* What is in the cache.  st stands for the store throughout. *)

Known(st) == {a \in Account : st.lines[a] # NoEntry}

(* storedLineCount. *)
StoredIn(st, e) == (IF e.lines = NoVec THEN 0 ELSE st.size[e.lines]) + e.pending
Stored(st, a) == IF a \in Known(st) THEN StoredIn(st, st.lines[a]) ELSE 0

RemainingBudget(st) == Max({0, MaxTotalLines - st.total})

(* use_count() == 1: no search reads the vector. *)
SoleOwner(v) == \A s \in Session : reader[s] # v

(* A vector make_shared returns: of the free ones any will do. *)
NewVec(st) ==
  CHOOSE v \in Vec : SoleOwner(v) /\ \A a \in Known(st) : st.lines[a].lines # v

SumStored(st, A) == MapThenSumSet(LAMBDA a : Stored(st, a), A)

(* Entries are taken out of lines_ and their lines out of the count. *)
Drop(st, A) ==
  [st EXCEPT !.lines = [a \in Account |-> IF a \in A THEN NoEntry ELSE @[a]],
             !.total = @ - SumStored(st, A)]

Unpinned(st) == {a \in Known(st) : st.lines[a].pinCount = 0}

(* reclaimUnpinnedUnlocked. *)
ReclaimUnpinned(st, skip) == Drop(st, Unpinned(st) \ {skip})

(* The room for account a, for which the unpinned others are given up. *)
WithRoom(st, a) == IF RemainingBudget(st) = 0 THEN ReclaimUnpinned(st, a) ELSE st

EffectiveChunkSize(s) == IF scope[s] # 0 THEN scope[s] ELSE LineChunkSize

(* getItemsChunk: up to want of the owner directory's lines.  The walk     *)
(* learns that it is through only when it finds less than it wanted.       *)
ThroughAt(k, want) == k < want

(* Slip: a shared vector grows under its readers. *)
CoalesceInPlace(st, a) ==
  LET e == st.lines[a]
  IN  [st EXCEPT !.size[e.lines] = @ + e.pending, !.lines[a].pending = 0]

(* coalescePendingUnlocked. *)
CoalescePending(st, a) ==
  LET e == st.lines[a] IN
  IF e.pending = 0 THEN st
  ELSE IF SoleOwner(e.lines) THEN CoalesceInPlace(st, a)
  ELSE [st EXCEPT !.size[NewVec(st)] = StoredIn(st, e),
                  !.lines[a].lines = NewVec(st), !.lines[a].pending = 0]

(* What is left for the next load of an account to aim at. *)
ProgressHint(st, a) ==
  IF a \notin Known(st) THEN 0
  ELSE IF Stored(st, a) = 0 THEN st.lines[a].reloadMinLines
  ELSE Max({st.lines[a].reloadMinLines, Stored(st, a) + LineChunkSize})

(* Slip: the pins of the entry that is replaced are lost. *)
ForgetPins(st, a) == 0

PreservedPins(st, a) == IF a \in Known(st) THEN st.lines[a].pinCount ELSE 0

(* Slip: the lines of the entry that is replaced stay in the count. *)
ReplacesUncounted(st, a) == [st EXCEPT !.lines[a] = NoEntry]

MakeWay(st, a) == Drop(st, {a})

(* loadOutgoingUnlocked of an account that is not in the cache, whose      *)
(* lines are too old or were dropped: what it may leave.  The vector it    *)
(* publishes is a new one even if no line or no room was found.            *)
LoadOutgoing(st, a, chunk) ==
  LET hint == ProgressHint(st, a)
      base == WithRoom(MakeWay(st, a), a)
      want == Min({RemainingBudget(base),
                      Min({MaxLinesPerAccount, Max({chunk, hint})})})
      v    == NewVec(base)
      Loaded(k) ==
        LET through == ThroughAt(k, want) \/ k >= MaxLinesPerAccount
        IN  [base EXCEPT
               !.total = @ + k, !.size[v] = k,
               !.lines[a] =
                 [lines |-> v, pending |-> 0, loadedSeq |-> seq,
                  pinCount |-> PreservedPins(st, a), complete |-> through,
                  reloadMinLines |-> IF ~through /\ hint > k
                                     THEN Min({hint, MaxLinesPerAccount}) ELSE 0]]
  IN  {Loaded(k) : k \in 0 .. want}

(* The chunk an expand brings, never by copying the published vector. *)
AppendChunk(st, a, k) ==
  LET e == st.lines[a] IN
  IF e.lines = NoVec
  THEN [st EXCEPT !.size[NewVec(st)] = k, !.lines[a].lines = NewVec(st)]
  ELSE IF k = 0 THEN st
  ELSE IF SoleOwner(e.lines)
  THEN [st EXCEPT !.size[e.lines] = @ + e.pending + k, !.lines[a].pending = 0]
  ELSE [st EXCEPT !.lines[a].pending = @ + k]

(* expandAccountUnlocked of an incomplete account: what it may leave, and  *)
(* how much it added.                                                      *)
ExpandAccount(st, a, chunk) ==
  LET have == Stored(st, a)
      base == WithRoom(st, a)
      goal == Max({chunk, st.lines[a].reloadMinLines - have})
      want == Min({Min({goal, RemainingBudget(base)}), MaxLinesPerAccount - have})
      Grown(k) ==
        LET got == AppendChunk(base, a, k) IN
        [got EXCEPT
           !.total = @ + k,
           !.lines[a].complete = ThroughAt(k, want) \/ have + k >= MaxLinesPerAccount,
           !.lines[a].reloadMinLines = IF k > 0 /\ have + k >= @ THEN 0 ELSE @]
  IN  IF have >= MaxLinesPerAccount
      THEN {[st |-> [st EXCEPT !.lines[a].complete = TRUE], added |-> 0]}
      ELSE IF RemainingBudget(base) = 0 THEN {[st |-> base, added |-> 0]}
      ELSE {[st |-> Grown(k), added |-> k] : k \in 0 .. want}

-----------------------------------------------------------------------------
(* The apply thread. *)

LockFree == expanding = NoLoop
Searching(s) == at[s] \in {"search", "check", "pin"}

(* Slip: the target of an account is not held to its limit. *)
UnlimitedHint(n) == n

LimitedHint(n) == Min({n, MaxLinesPerAccount})

(* A complete vector that somebody pinned is kept; of an incomplete one    *)
(* only how far it had got.                                                *)
Softened(e, n, newSeq) ==
  IF e.complete THEN e
  ELSE [e EXCEPT !.lines = NoVec, !.pending = 0, !.loadedSeq = newSeq,
                 !.reloadMinLines = Max({@, LimitedHint(n + LineChunkSize)})]

(* advanceLedger to the next ledger, in applyLedgerClosed: it waits for    *)
(* every search to end.  (A new view of the same ledger is swapped in and  *)
(* nothing else is touched.)                                               *)
AdvanceLedger ==
  /\ LockFree /\ ~waveDue /\ seq < LedgerBound
  /\ \A s \in Session : ~Searching(s)
  /\ seq' = seq + 1
  /\ LET kept  == Drop(store, Unpinned(store))
         stubs == {a \in Known(kept) : ~kept.lines[a].complete}
     IN  store' = [kept EXCEPT
           !.lines = [a \in Account |->
              IF a \in Known(kept) THEN Softened(@[a], Stored(kept, a), seq + 1) ELSE @[a]],
           !.total = Drop(kept, stubs).total]
  /\ waveDue' = TRUE
  /\ UNCHANGED <<held, retired, expanding, searchVars>>

Incomplete(st) == {a \in Known(st) : ~st.lines[a].complete}

(* expandIncompleteLines. *)
StartWave ==
  /\ LockFree /\ waveDue
  /\ waveDue' = FALSE
  /\ expanding' = [kind |-> "wave", by |-> 0, work |-> Incomplete(store),
                   left |-> LinesPerWave]
  /\ UNCHANGED <<cacheVars, searchVars>>

-----------------------------------------------------------------------------
(* The loops that hold lock_. *)

(* The accounts of a wave come in the order of their pins, then of ids. *)
IsNext(a) ==
  expanding.kind = "wave" =>
    \A b \in expanding.work \cap Known(store) :
      a \in Known(store) /\
        LET p == store.lines[a].pinCount
            q == store.lines[b].pinCount
        IN  p > q \/ (p = q /\ a <= b)

LoopChunk ==
  IF expanding.kind = "wave" THEN LineChunkSize ELSE EffectiveChunkSize(expanding.by)

(* A wave and a session's expand look at the budget before each chunk. *)
OutOfRoom ==
  /\ expanding.kind \in {"wave", "session"}
  /\ RemainingBudget(store) = 0 \/ (expanding.kind = "wave" /\ expanding.left = 0)

(* Without a LoadScope a session's expand takes one chunk per account. *)
OneChunkEach == expanding.kind = "session" /\ scope[expanding.by] = 0

Expand ==
  /\ ~LockFree /\ ~OutOfRoom
  /\ \E a \in expanding.work :
       /\ IsNext(a)
       /\ IF a \notin Incomplete(store)
          THEN /\ expanding' = [expanding EXCEPT !.work = @ \ {a}]
               /\ UNCHANGED store
          ELSE \E x \in ExpandAccount(store, a, LoopChunk) :
                 /\ store' = x.st
                 /\ expanding' =
                      [expanding EXCEPT
                         !.work = IF x.added = 0 \/ OneChunkEach THEN @ \ {a} ELSE @,
                         !.left = Max({0, @ - x.added})]
  /\ UNCHANGED <<seq, held, retired, waveDue, searchVars>>

(* The loop of a one-shot's getOrLoadOutgoing is followed by its return. *)
ExpandEnds ==
  /\ ~LockFree /\ (expanding.work = {} \/ OutOfRoom)
  /\ expanding' = NoLoop
  /\ IF expanding.kind # "get" THEN UNCHANGED <<store, at, reader>>
     ELSE LET s == expanding.by
              c == CoalescePending(store, acct[s])
          IN  /\ store' = c
              /\ reader' = [reader EXCEPT ![s] = c.lines[acct[s]].lines]
              /\ at' = [at EXCEPT ![s] = "check"]
  /\ UNCHANGED <<seq, held, retired, waveDue, life, acct, scope>>

-----------------------------------------------------------------------------
(* A worker that searches for a session. *)

Goes(s, from, to) == at[s] = from /\ at' = [at EXCEPT ![s] = to]

Create(s) ==
  /\ Goes(s, "idle", "valid")
  /\ life[s] = "new" /\ life' = [life EXCEPT ![s] = "creating"]
  /\ UNCHANGED <<cacheVars, expanding, waveDue, acct, reader, scope>>

(* An update finds its session open: closing() is read before the search.  *)
UpdateBegin(s) ==
  /\ Goes(s, "idle", "begin")
  /\ life[s] = "open"
  /\ UNCHANGED <<cacheVars, expanding, waveDue, life, acct, reader, scope>>

Invalid(s) ==
  /\ Goes(s, "valid", "idle")
  /\ life' = [life EXCEPT ![s] = "ended"]
  /\ reader' = [reader EXCEPT ![s] = NoVec]
  /\ UNCHANGED <<cacheVars, expanding, waveDue, acct, scope>>

(* doUpdate: the SearchPin, the SessionPin, and a one-shot's LoadScope if  *)
(* there is room for anything.                                             *)
StartSearch(s) ==
  /\ at[s] \in {"valid", "begin"} /\ at' = [at EXCEPT ![s] = "search"]
  /\ reader' = [reader EXCEPT ![s] = NoVec]
  /\ scope' = [scope EXCEPT ![s] =
       IF s \in OneShot THEN Min({MaxLinesPerAccount, RemainingBudget(store)}) ELSE 0]
  /\ UNCHANGED <<cacheVars, expanding, waveDue, life, acct>>

Reusable(a) ==
  /\ a \in Known(store)
  /\ seq - store.lines[a].loadedSeq <= CacheReuseLedgers
  /\ store.lines[a].lines # NoVec

(* getOrLoadOutgoing.  Until its search starts a session pins nothing and  *)
(* the account is read at once.                                            *)
GetOrLoad(s, a) ==
  /\ LockFree /\ at[s] \in {"valid", "search"}
  /\ acct' = [acct EXCEPT ![s] = IF at[s] = "search" THEN a ELSE 0]
  /\ LET full == /\ scope[s] # 0 /\ a \in Incomplete(store)
                 /\ RemainingBudget(store) > 0
         From(st) == /\ store' = st
                     /\ reader' = [reader EXCEPT ![s] = st.lines[a].lines]
                     /\ at' = [at EXCEPT ![s] = IF @ = "search" THEN "check" ELSE @]
                     /\ UNCHANGED expanding
     IN  \/ Reusable(a) /\ ~full /\ From(CoalescePending(store, a))
         \/ /\ Reusable(a) /\ full
            /\ expanding' = [kind |-> "get", by |-> s, work |-> {a}, left |-> 0]
            /\ UNCHANGED <<store, at, reader>>
         \/ /\ ~Reusable(a)
            /\ \E st \in LoadOutgoing(store, a, EffectiveChunkSize(s)) : From(st)
  /\ UNCHANGED <<seq, held, retired, waveDue, life, scope>>

(* The rest of getRippleLines: an account the session has pinned, or one   *)
(* it may not pin any more, is left alone.                                 *)
CheckPinned(s) ==
  /\ LockFree
  /\ \/ /\ s \in retired \/ acct[s] \in held[s]
        /\ Goes(s, "check", "search") /\ acct' = [acct EXCEPT ![s] = 0]
     \/ /\ s \notin retired /\ acct[s] \notin held[s]
        /\ Goes(s, "check", "pin") /\ UNCHANGED acct
  /\ UNCHANGED <<cacheVars, expanding, waveDue, life, reader, scope>>

(* pinAccountUnlocked refuses a session that was retired meanwhile. *)
MayPin(s) == s \notin retired

(* The account is looked up again, since what was read may be gone from    *)
(* the cache by now, and pinned.                                           *)
PinAccount(s) ==
  /\ LockFree /\ Goes(s, "pin", "search")
  /\ LET a == acct[s]
         found == a \in Known(store) /\ store.lines[a].lines # NoVec
     IN  \E st \in IF found THEN {CoalescePending(store, a)}
                   ELSE LoadOutgoing(store, a, EffectiveChunkSize(s)) :
           /\ reader' = [reader EXCEPT ![s] = st.lines[a].lines]
           /\ IF MayPin(s)
              THEN /\ store' = [st EXCEPT !.lines[a].pinCount = @ + 1]
                   /\ held' = [held EXCEPT ![s] = @ \cup {a}]
              ELSE store' = st /\ UNCHANGED held
  /\ acct' = [acct EXCEPT ![s] = 0]
  /\ UNCHANGED <<seq, retired, expanding, waveDue, life, scope>>

(* expandIncompleteLinesForSession. *)
ExpandSession(s) ==
  /\ LockFree /\ at[s] = "search" /\ s \notin retired /\ held[s] # {}
  /\ expanding' = [kind |-> "session", by |-> s, work |-> held[s], left |-> 0]
  /\ UNCHANGED <<cacheVars, waveDue, searchVars>>

(* The search is over or throws.  A create is registered unless it threw,  *)
(* a one-shot never is.                                                    *)
SearchEnds(s) ==
  /\ LockFree /\ Goes(s, "search", "idle")
  /\ \/ life[s] # "creating" /\ UNCHANGED life
     \/ life[s] = "creating" /\ s \notin OneShot /\ life' = [life EXCEPT ![s] = "open"]
     \/ life[s] = "creating" /\ life' = [life EXCEPT ![s] = "ended"]
  /\ reader' = [reader EXCEPT ![s] = NoVec]
  /\ scope' = [scope EXCEPT ![s] = 0]
  /\ UNCHANGED <<cacheVars, expanding, waveDue, acct>>

-----------------------------------------------------------------------------
(* forgetConnSessions: the session is closed and its pins are released ... *)
ReleaseSession(s) ==
  /\ LockFree
  /\ life[s] = "open" /\ life' = [life EXCEPT ![s] = "closing"]
  /\ LET less == [store EXCEPT !.lines = [a \in Account |->
                    IF a \in held[s] THEN [store.lines[a] EXCEPT !.pinCount = @ - 1]
                    ELSE store.lines[a]]]
     IN  store' = Drop(less, held[s] \cap Unpinned(less))
  /\ held' = [held EXCEPT ![s] = {}]
  /\ retired' = retired \cup {s}
  /\ UNCHANGED <<seq, expanding, waveDue, at, acct, reader, scope>>

(* ... and, under lock_ again, the tombstone that refused new ones goes.   *)
Forget(s) ==
  /\ LockFree
  /\ life[s] = "closing" /\ life' = [life EXCEPT ![s] = "closed"]
  /\ retired' = retired \ {s}
  /\ UNCHANGED <<seq, store, held, expanding, waveDue, at, acct, reader, scope>>

-----------------------------------------------------------------------------
Worker(s) ==
  \/ Create(s) \/ UpdateBegin(s) \/ Invalid(s) \/ StartSearch(s)
  \/ \E a \in Account : GetOrLoad(s, a)
  \/ CheckPinned(s) \/ PinAccount(s) \/ ExpandSession(s) \/ SearchEnds(s)

CacheNext ==
  \/ AdvanceLedger \/ StartWave \/ Expand \/ ExpandEnds
  \/ \E s \in Session : Worker(s) \/ ReleaseSession(s) \/ Forget(s)

CacheSpec == CacheInit /\ [][CacheNext]_everyVar

-----------------------------------------------------------------------------
(* Properties. *)

(* Every variable stays within its type, and no account has or aims at     *)
(* more lines than one account may.                                        *)
CacheTypeOK ==
  /\ seq \in 1 .. LedgerBound
  /\ store.lines \in [Account -> Entry \cup {NoEntry}]
  /\ store.total \in Nat /\ store.size \in [Vec -> Nat]
  /\ \A a \in Known(store) :
       /\ Stored(store, a) <= MaxLinesPerAccount
       /\ store.lines[a].reloadMinLines <= MaxLinesPerAccount
  /\ held \in [Session -> SUBSET Account] /\ retired \subseteq Session
  /\ expanding.kind \in {"none", "wave", "session", "get"}
  /\ expanding.work \subseteq Account /\ expanding.left \in Nat
  /\ waveDue \in BOOLEAN
  /\ life \in [Session -> {"new", "creating", "open", "closing", "closed", "ended"}]
  /\ at \in [Session -> {"idle", "valid", "begin", "search", "check", "pin"}]
  /\ acct \in [Session -> Account \cup {0}]
  /\ reader \in [Session -> Vec \cup {NoVec}]
  /\ scope \in [Session -> 0 .. MaxLinesPerAccount]

(* The count is the number of lines the cache holds and never exceeds the  *)
(* budget, whichever of the loads, expands, reclaims, releases and ledger  *)
(* advances came in between: a line counted twice is room lost for good.   *)
CountExact ==
  /\ CacheTypeOK
  /\ store.total = SumStored(store, Account)
  /\ store.total <= MaxTotalLines

(* An account's pins are the sessions that hold it: none is dropped under  *)
(* a session that will look for it again, none is kept for nobody, and     *)
(* replacing an entry keeps them.                                          *)
PinsExact ==
  /\ \A s \in Session : held[s] \subseteq Known(store)
  /\ \A a \in Known(store) :
       store.lines[a].pinCount = Cardinality({s \in Session : a \in held[s]})

(* A vector never changes while a search reads it, although the wave and   *)
(* the searches of others grow the account it belongs to.                  *)
ReadersStable ==
  [][\A s \in Session :
       reader[s] # NoVec /\ reader'[s] = reader[s]
         => store'.size[reader[s]] = store.size[reader[s]]]_everyVar

-----------------------------------------------------------------------------
(* What the repository says and the code does not do. *)

(* AssetCache.h:41: an entry is freed when every path_find that used it    *)
(* has ended.  Nobody releases the pins of a ripple_path_find, nor those   *)
(* of a create that throws.                                                *)
NoPinsLeft == \A s \in Session : life[s] = "ended" => held[s] = {}

(* AssetCache.h:44: a retired session cannot be pinned again by an update  *)
(* that is still running.  forgetConnSessions takes the tombstone away at  *)
(* once, not when the session is destroyed.                                *)
NoPinAfterClose == \A s \in Session : life[s] = "closed" => held[s] = {}
=============================================================================
