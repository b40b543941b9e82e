------------------------------ MODULE PathSearch ------------------------------
(***************************************************************************)
(* How deep a subscription's searches go (src/src/edgy/graph.cpp,          *)
(* SearchBudget; src/src/edgy/session.cpp, shouldDeepen, findPaths,        *)
(* doUpdate) and who decides that it is time for the next one              *)
(* (src/src/edgy/engine.cpp, notifySubscriptions).                         *)
(*                                                                         *)
(* The visit of a round and the search itself each read the clock, in      *)
(* different threads and from different ages: the visit sets the age back  *)
(* by the session's stagger, the search does not.                          *)
(***************************************************************************)
EXTENDS Integers, FiniteSets

CONSTANTS
  Session,        \* session ids, as nextId_ counts them
  Width,          \* source assets of each session's account, none being named
  Instants,       \* the times the clock shows, in ms: what bounds it
  Configs,        \* [search] and [search-fast] as they were configured
  DeepenPerRound  \* 4 in the code: sessions that deepen in one round

MaxDepth == 4

ASSUME SearchAssumption ==
  /\ Session \subseteq Nat
  /\ Width \in [Session -> Nat]
  /\ Instants \subseteq Nat /\ 0 \in Instants
  /\ Configs \subseteq [search : Int, searchFast : Int]
  /\ DeepenPerRound \in Nat

VARIABLES
  cfg,        \* the configuration, within its bounds
  now,        \* the clock
  stage,      \* per session: "new", "creating", "open" or "closed"
  createdAt, lastDepth, searchesDone,
  exists,     \* whether the source account is in the ledger
  job,        \* the update of a session: where it is, and whether it deepens
  reply,      \* the last answer or frame
  visits,     \* sessions a round has still to visit
  deepenLeft

sessionVars == <<stage, createdAt, lastDepth, searchesDone, reply>>
visitVars == <<visits, deepenLeft>>
searchVars == <<cfg, now, sessionVars, exists, job, visitVars>>

-----------------------------------------------------------------------------
(* SearchBudget. *)

(* Slip: nothing is cut off at the upper end. *)
ClampLow(x, lo, hi) == IF x < lo THEN lo ELSE x

Clamp(x, lo, hi) == IF x < lo THEN lo ELSE IF x > hi THEN hi ELSE x
Larger(x, y) == IF x < y THEN y ELSE x

(* Slip: the last band is missing. *)
ClimbShort(span, age) ==
  IF age >= 25000 THEN Larger(1, (span * 3) \div 4)
  ELSE IF age >= 12000 THEN Larger(1, (span * 2) \div 4)
  ELSE IF age >= 4000 THEN Larger(1, span \div 4)
  ELSE 0

(* How far the climb from lo to lo + span has got at an age. *)
Climb(span, age) ==
  IF age >= 50000 THEN span
  ELSE IF age >= 25000 THEN Larger(1, (span * 3) \div 4)
  ELSE IF age >= 12000 THEN Larger(1, (span * 2) \div 4)
  ELSE IF age >= 4000 THEN Larger(1, span \div 4)
  ELSE 0

DepthFor(oneShot, done, age, searchFast, search) ==
  LET hi == Clamp(search, 0, MaxDepth)
      lo == Clamp(searchFast, 0, hi)
  IN  IF oneShot \/ lo = hi THEN hi
      ELSE Clamp(Larger(Clamp(lo + done, lo, hi), lo + Climb(hi - lo, age)), lo, hi)

(* forDepth: of the budget only the number of source assets decides        *)
(* anything here.  kMaxSrcCur, 18 too, never cuts it further.              *)
SourcesAt(depth) ==
  LET d == Clamp(depth, 0, MaxDepth)
  IN  CASE d = 0 -> 6 [] d = 1 -> 10 [] d = 2 -> 14 [] OTHER -> 18

-----------------------------------------------------------------------------
(* PathSession. *)

Age(s) == now - createdAt[s]
Stagger(s) == (s % 20) * 150

DueDepth(age) == DepthFor(FALSE, 0, age, cfg.searchFast, cfg.search)

(* Slip: the searches done count here as they do in the search. *)
DueWithCount(s) ==
  DepthFor(FALSE, searchesDone[s], Larger(0, Age(s) - Stagger(s)),
           cfg.searchFast, cfg.search) > lastDepth[s]

ShouldDeepen(s) == DueDepth(Larger(0, Age(s) - Stagger(s))) > lastDepth[s]

SearchDepth(s) ==
  DepthFor(FALSE, searchesDone[s], Age(s), cfg.searchFast, cfg.search)

(* findPaths gives up when an account has more source assets than the      *)
(* depth allows: it has nothing left out yet, so it never cuts the set.    *)
OverHard(s) == Width[s] > SourcesAt(SearchDepth(s))

NoJob == [at |-> "none", deepens |-> FALSE]

(* The configuration is brought within its bounds before anything starts.  *)
Normalized(c) ==
  LET full == Clamp(c.search, 0, MaxDepth)
  IN  [search |-> full, searchFast |-> Clamp(c.searchFast, 0, full)]

SearchInit ==
  /\ \E c \in Configs : cfg = Normalized(c)
  /\ now = 0
  /\ stage = [s \in Session |-> "new"]
  /\ createdAt = [s \in Session |-> 0]
  /\ lastDepth = [s \in Session |-> cfg.searchFast]
  /\ searchesDone = [s \in Session |-> 0]
  /\ exists = [s \in Session |-> TRUE]
  /\ job = [s \in Session |-> NoJob]
  /\ reply = [s \in Session |-> "none"]
  /\ visits = {} /\ deepenLeft = 0

Advance ==
  /\ \E t \in Instants : t > now /\ now' = t
  /\ UNCHANGED <<cfg, sessionVars, exists, job, visitVars>>

(* A later ledger has no such account any more. *)
AccountDeleted(s) ==
  /\ exists[s]
  /\ exists' = [exists EXCEPT ![s] = FALSE]
  /\ UNCHANGED <<cfg, now, sessionVars, job, visitVars>>

(* The job of a create: doCreate goes straight on to a full search. *)
CreateSession(s) ==
  /\ stage[s] = "new"
  /\ stage' = [stage EXCEPT ![s] = "creating"]
  /\ createdAt' = [createdAt EXCEPT ![s] = now]
  /\ job' = [job EXCEPT ![s] = [at |-> "queued", deepens |-> TRUE]]
  /\ UNCHANGED <<cfg, now, lastDepth, searchesDone, exists, reply, visitVars>>

(* close, or the connection's end. *)
CloseSession(s) ==
  /\ stage[s] = "open"
  /\ stage' = [stage EXCEPT ![s] = "closed"]
  /\ UNCHANGED <<cfg, now, createdAt, lastDepth, searchesDone, reply, exists,
                 job, visitVars>>

(* The update is over: a create that was valid is registered, whatever its *)
(* search returned, and a frame is sent.                                   *)
Concludes(s, answer, valid) ==
  /\ job' = [job EXCEPT ![s] = NoJob]
  /\ reply' = [reply EXCEPT ![s] = answer]
  /\ stage' = IF stage[s] # "creating" THEN stage
              ELSE [stage EXCEPT ![s] = IF valid THEN "open" ELSE "closed"]
  /\ UNCHANGED <<cfg, now, createdAt, exists, visitVars>>

(* A queued update finds its session closed. *)
UpdateSkipped(s) ==
  /\ job[s].at = "queued" /\ stage[s] = "closed"
  /\ job' = [job EXCEPT ![s] = NoJob]
  /\ UNCHANGED <<cfg, now, sessionVars, exists, visitVars>>

(* isValid: without the account there is nothing to search. *)
UpdateInvalid(s) ==
  /\ job[s].at = "queued" /\ stage[s] # "closed" /\ ~exists[s]
  /\ Concludes(s, "invalid", FALSE)
  /\ UNCHANGED <<lastDepth, searchesDone>>

UpdateRefused(s) ==
  /\ job[s].at = "queued" /\ stage[s] # "closed" /\ exists[s] /\ OverHard(s)
  /\ Concludes(s, "internal", TRUE)
  /\ UNCHANGED <<lastDepth, searchesDone>>

UpdateBegin(s) ==
  /\ job[s].at = "queued" /\ stage[s] # "closed" /\ exists[s] /\ ~OverHard(s)
  /\ job' = [job EXCEPT ![s].at = "searching"]
  /\ UNCHANGED <<cfg, now, sessionVars, exists, visitVars>>

(* Slip: a reprice that finds no path alive goes on to a search. *)
Escalates(s) == TRUE

(* allowEscalate is for updates that search anyway. *)
Searches(s) == job[s].deepens

(* The known paths are priced again: the depth stays. *)
RepriceKnown(s) ==
  /\ job[s].at = "searching" /\ ~job[s].deepens
  /\ Concludes(s, "answer", TRUE)
  /\ UNCHANGED <<lastDepth, searchesDone>>

(* The depth is recorded before the search and the search is counted after *)
(* it; with [timeout-ms] it may have been cut short.                       *)
RunSearch(s) ==
  /\ job[s].at = "searching" /\ Searches(s)
  /\ lastDepth' = [lastDepth EXCEPT ![s] = SearchDepth(s)]
  /\ searchesDone' = [searchesDone EXCEPT ![s] = @ + 1]
  /\ Concludes(s, "answer", TRUE)

(* The search throws: no frame, and a create is answered with an error.    *)
SearchThrows(s) ==
  /\ job[s].at = "searching" /\ Searches(s)
  /\ lastDepth' = [lastDepth EXCEPT ![s] = SearchDepth(s)]
  /\ UNCHANGED searchesDone
  /\ Concludes(s, "thrown", FALSE)

-----------------------------------------------------------------------------
(* notifySubscriptions, from a mid-close tick. *)

Open == {s \in Session : stage[s] = "open"}

BeginRound ==
  /\ visits = {} /\ Open # {}
  /\ visits' = Open /\ deepenLeft' = DeepenPerRound
  /\ UNCHANGED <<cfg, now, sessionVars, exists, job>>

MayDeepen(s) == ShouldDeepen(s) /\ deepenLeft > 0

(* The sessions are visited in the order of the map, always the same; one  *)
(* with an update in flight is passed over.                                *)
VisitSession(s) ==
  /\ s \in visits /\ \A r \in visits : s <= r
  /\ visits' = visits \ {s}
  /\ IF job[s].at # "none" THEN UNCHANGED <<job, deepenLeft>>
     ELSE /\ job' = [job EXCEPT ![s] = [at |-> "queued", deepens |-> MayDeepen(s)]]
          /\ deepenLeft' = IF MayDeepen(s) THEN deepenLeft - 1 ELSE deepenLeft
  /\ UNCHANGED <<cfg, now, sessionVars, exists>>

Round == BeginRound \/ \E s \in Session : VisitSession(s)

UpdateOf(s) ==
  \/ UpdateSkipped(s) \/ UpdateInvalid(s) \/ UpdateRefused(s) \/ UpdateBegin(s)
  \/ RepriceKnown(s) \/ RunSearch(s) \/ SearchThrows(s)

SearchNext ==
  \/ Advance \/ Round
  \/ \E s \in Session : CreateSession(s) \/ CloseSession(s) \/ AccountDeleted(s) \/ UpdateOf(s)

(* Time passes, rounds go on and the pool's jobs run. *)
Fairness ==
  /\ WF_searchVars(Advance) /\ WF_searchVars(Round)
  /\ \A s \in Session : WF_searchVars(UpdateOf(s))

SearchSpec == SearchInit /\ [][SearchNext]_searchVars
FairSearchSpec == SearchSpec /\ Fairness

-----------------------------------------------------------------------------
(* Properties. *)

(* Every variable stays within its type; a depth is one SearchBudget has,  *)
(* and a round never deepens more sessions than it may.                    *)
SearchTypeOK ==
  /\ cfg \in [search : 0 .. MaxDepth, searchFast : 0 .. MaxDepth]
  /\ cfg.searchFast <= cfg.search
  /\ now \in Instants
  /\ stage \in [Session -> {"new", "creating", "open", "closed"}]
  /\ createdAt \in [Session -> Instants]
  /\ lastDepth \in [Session -> 0 .. MaxDepth]
  /\ searchesDone \in [Session -> Nat]
  /\ exists \in [Session -> BOOLEAN]
  /\ job \in [Session -> [at : {"none", "queued", "searching"}, deepens : BOOLEAN]]
  /\ reply \in [Session -> {"none", "answer", "invalid", "internal", "thrown"}]
  /\ visits \subseteq Session
  /\ deepenLeft \in 0 .. DeepenPerRound

(* No session has ever searched deeper than its age allows, although every *)
(* search counts towards the depth of the next and the thread that decides *)
(* reads another age than the one that searches.                           *)
OnSchedule ==
  /\ SearchTypeOK
  /\ \A s \in Session : stage[s] # "new" => lastDepth[s] <= DueDepth(Age(s))

(* No search is spent on a depth the session has been at: whoever deepens  *)
(* an open session gets further with it.                                   *)
EachSearchDeeper ==
  [][\A s \in Session :
       stage[s] = "open" /\ searchesDone'[s] # searchesDone[s]
         => lastDepth'[s] > lastDepth[s]]_searchVars

(* The clock goes on for long enough after the session was created. *)
LivesLongEnough(s) == \E t \in Instants : t >= createdAt[s] + 50000 + Stagger(s)

(* A session that stays open reaches the configured depth in the end, if   *)
(* its account stays and the budget of that depth takes its assets.        *)
Deepens ==
  \A s \in Session :
    stage[s] = "open" /\ LivesLongEnough(s) /\ Width[s] <= SourcesAt(cfg.search)
      ~> lastDepth[s] = cfg.search \/ stage[s] = "closed" \/ ~exists[s]

-----------------------------------------------------------------------------
(* What the repository says and the code does not do. *)

(* session.cpp:111: a set of source assets that is too large is cut, and   *)
(* the results are valid for what is left.  It is refused with an error.   *)
WideIsCut == \A s \in Session : reply[s] # "internal"
=============================================================================
