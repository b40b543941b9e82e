------------------------------- MODULE PathSession -------------------------------
(***************************************************************************)
(* One subscription and what its client is told (src/src/edgy/session.cpp: *)
(* parseJson, isValid, doCreate, doClose, doStatus, revalidatePaths,       *)
(* findPaths, doUpdate; src/src/edgy/engine.cpp: the job of a round, the   *)
(* sub-commands close and status).                                         *)
(*                                                                         *)
(* An update runs on a worker and takes the session's lock three times, to *)
(* validate, to fetch the last alternatives and to store its result; close *)
(* and status come in between.  The view of the ledger that the cache has  *)
(* is replaced while no update runs: each holds a SearchPin, for which     *)
(* advanceLedger() waits (AssetCache).  How deep it searches is            *)
(* PathSearch, how a search finds its paths FastPathFinder.                *)
(***************************************************************************)
EXTENDS Naturals, Sequences, FiniteSets, SequencesExt, FiniteSetsExt, Selection

CONSTANTS
  Currency, NativeCurrency,
  Issuer, Sender, NoIssuer,   \* the sender can be an issuer; nobody issues the native one
  AssetOrder,    \* the assets there are, in the order of a set of them
  AutoSources,   \* those the sender could pay with
  Requests,      \* the parameters of the create
  MaxSrcCur,     \* kMaxSrcCur
  MarketBound,   \* how often the view of the ledger changes
  UpdateBound    \* how many updates rounds ask for

AnyAsset == [cur : Currency, iss : Issuer \cup {NoIssuer}]

(* What a request has under each of its keys, as far as the checks look.   *)
Params ==
  [source : {"ok", "absent", "bad"}, destination : {"ok", "absent", "bad"},
   amount : {"some", "all", "absent", "bad", "zero"},
   sendMax : [is : {"absent", "some", "bad"}, asset : AnyAsset],
   currencies : [is : {"absent", "some"}, of : Seq(AnyAsset)],
   domain : {"absent", "ok", "bad"}]

ASSUME SessionAssumption ==
  /\ NativeCurrency \in Currency /\ Sender \in Issuer /\ NoIssuer \notin Issuer
  /\ AssetOrder \in Seq(AnyAsset) /\ AutoSources \subseteq ToSet(AssetOrder)
  /\ Requests \subseteq Params
  /\ MarketBound \in Nat /\ UpdateBound \in Nat /\ MaxSrcCur \in Nat \ {0}

VARIABLES
  params, phase,
  sources,                    \* sourceAssets_
  ledger, accounts, crowded,  \* the cache's view of the ledger, the accounts in it
  status, context,            \* jvStatus_, context_
  live, updates,              \* a round has the session on its list; rounds so far
  wpc, deepens, answer,       \* the update in flight: its place, kind and newStatus
  received,                   \* the last thing the client got
  afterClose                  \* frames it got after the answer to its close

ledgerVars == <<ledger, accounts, crowded>>
requestVars == <<params, sources>>
clientVars == <<received, afterClose>>
workVars == <<wpc, deepens, answer>>
roundVars == <<live, updates>>
vars == <<requestVars, phase, ledgerVars, status, context, roundVars, workVars, clientVars>>

-----------------------------------------------------------------------------
(* parseJson: the checks in the order of the code. *)

SendMax == params.sendMax.asset
HasSendMax(p) == p.sendMax.is = "some"

(* An issuer left out is the sender. *)
IssuerOf(c) == IF c.cur # NativeCurrency /\ c.iss = NoIssuer THEN Sender ELSE c.iss

OtherIssuer(p, c) ==
  /\ HasSendMax(p) /\ c.cur = p.sendMax.asset.cur
  /\ Cardinality({IssuerOf(c), p.sendMax.asset.iss, Sender}) = 3

CurrencyError(p, c) ==
  IF c.cur = NativeCurrency /\ c.iss # NoIssuer THEN "srcCurMalformed"
  ELSE IF OtherIssuer(p, c) THEN "srcIsrMalformed"
  ELSE "none"

Checks(p) ==
  LET C == p.currencies.of
      bad == {i \in DOMAIN C : CurrencyError(p, C[i]) # "none"}
  IN << <<p.source = "absent", "srcActMissing">>,
        <<p.destination = "absent", "dstActMissing">>,
        <<p.amount = "absent", "dstAmtMissing">>,
        <<p.source = "bad", "srcActMalformed">>,
        <<p.destination = "bad", "dstActMalformed">>,
        <<p.amount \in {"bad", "zero"}, "dstAmtMalformed">>,
        <<p.sendMax.is # "absent" /\ p.amount # "all", "dstAmtMalformed">>,
        <<p.sendMax.is = "bad", "sendmaxMalformed">>,
        <<p.currencies.is = "some" /\ Len(C) \notin 1 .. MaxSrcCur, "srcCurMalformed">>,
        <<bad # {}, IF bad = {} THEN "none" ELSE CurrencyError(p, C[Min(bad)])>>,
        <<p.domain = "bad", "domainMalformed">> >>

ParseError(p) ==
  LET failed == {i \in DOMAIN Checks(p) : Checks(p)[i][1]}
  IN  IF failed = {} THEN "none" ELSE Checks(p)[Min(failed)][2]

(* Slip: a source is taken whatever send_max says. *)
AnySource(p, c) == {[cur |-> c.cur, iss |-> IssuerOf(c)]}

(* One of source_currencies: with send_max only if it is its currency, and *)
(* then by the sender as well as by the issuer named.                      *)
SourcesOf(p, c) ==
  LET i == IssuerOf(c)
      m == p.sendMax.asset
  IN  IF ~HasSendMax(p) THEN {[cur |-> c.cur, iss |-> i]}
      ELSE IF c.cur # m.cur THEN {}
      ELSE {[cur |-> c.cur, iss |-> Sender],
            [cur |-> c.cur, iss |-> IF i # Sender THEN i ELSE m.iss]}

Named(p) ==
  IF p.currencies.is # "some" THEN {}
  ELSE UNION {SourcesOf(p, p.currencies.of[i]) : i \in DOMAIN p.currencies.of}

-----------------------------------------------------------------------------
(* Answers.  Which ways there are from an asset to the destination is left *)
(* open: each search and each reprice finds what it finds.                 *)

Assets == ToSet(AssetOrder)

(* What an accepted request names is among the assets there are. *)
ASSUME OrderAssumption ==
  \A p \in Requests :
    ParseError(p) = "none" =>
      Named(p) \subseteq Assets /\ (HasSendMax(p) => p.sendMax.asset \in Assets)

(* Views are numbered as the cache gets them.  One is of a closed ledger,  *)
(* or it is open: with transactions of the next one applied, as yet        *)
(* without a number of its own.                                            *)
View == [no : 0 .. MarketBound, seq : Nat \ {0}, open : BOOLEAN]
FirstView == [no |-> 0, seq |-> 2, open |-> FALSE]

(* setClosedLedgerIdentity: what is named for an open view is the ledger   *)
(* before its number; 0 is no ledger.                                      *)
NameOf(v) == IF v.open THEN v.seq - 1 ELSE v.seq

(* at is the view that was looked at, names what the client is told of it. *)
NoAnswer == [error |-> "none", alts |-> << >>, full |-> FALSE, warn |-> "none",
             at |-> FirstView, names |-> 0, success |-> FALSE, closed |-> FALSE]
ErrorAt(e) == [NoAnswer EXCEPT !.error = e, !.at = ledger]
Identified(x) == [x EXCEPT !.at = ledger, !.names = NameOf(ledger)]

(* What findPaths searches: what was named, send_max, or the sender's.     *)
Sources ==
  IF sources # {} THEN sources
  ELSE IF HasSendMax(params) THEN {SendMax}
  ELSE AutoSources
NoneNamed == sources = {} /\ ~HasSendMax(params)

Init ==
  /\ params \in Requests /\ phase = "new"
  /\ sources = {}
  /\ ledger = FirstView
  /\ accounts = {"source", "destination"} /\ crowded = FALSE
  /\ status = NoAnswer /\ context = [a \in Assets |-> FALSE]
  /\ live = FALSE /\ updates = 0
  /\ wpc = "idle" /\ deepens = FALSE /\ answer = NoAnswer
  /\ received = NoAnswer /\ afterClose = 0

(* Slip: the view is replaced under the updates that run.                  *)
Unpinned == FALSE

Pinned == wpc \in {"name", "search", "restore", "store"}

(* The engine hands the cache another view: of the ledger that closed, or  *)
(* of the same one with more transactions.  (After a snapshot there is a   *)
(* new cache, which an update in flight does not get to see either: it     *)
(* keeps the one its round had.)  An account comes or goes, or the sender  *)
(* gets more source assets than the depth of a search allows, or fewer     *)
(* again, which matters when it has named none.                            *)
LedgerMoves ==
  /\ phase \in {"new", "creating", "open"}
  /\ ledger.no < MarketBound /\ ~Pinned
  /\ \/ ledger' = [no |-> ledger.no + 1, seq |-> ledger.seq + 1, open |-> FALSE]
     \/ \E o \in {TRUE, ~ledger.open} : ledger' = [ledger EXCEPT !.no = @ + 1, !.open = o]
  /\ \/ UNCHANGED <<accounts, crowded>>
     \/ NoneNamed /\ crowded' = ~crowded /\ UNCHANGED accounts
     \/ \E x \in {"source", "destination"} :
          /\ accounts' = IF x \in accounts THEN accounts \ {x} ELSE accounts \cup {x}
          /\ UNCHANGED crowded
  /\ UNCHANGED <<requestVars, phase, status, context, roundVars, workVars, clientVars>>

(* isValid.  A destination that is not there yet can be sent the native    *)
(* asset; the amounts modelled are not.                                    *)
AccountError ==
  IF "source" \notin accounts THEN "srcActNotFound"
  ELSE IF "destination" \notin accounts THEN "actNotFound"
  ELSE "none"

Receives(x) == received' = x

-----------------------------------------------------------------------------
(* create: the first update runs on, and its result is the answer.  The    *)
(* session is registered afterwards if it was valid before it.             *)

Create ==
  /\ phase = "new"
  /\ LET error == IF ParseError(params) # "none" THEN ParseError(params) ELSE AccountError IN
       IF error # "none"
       THEN /\ phase' = "refused" /\ status' = ErrorAt(error)
            /\ Receives(ErrorAt(error))
            /\ UNCHANGED <<sources, workVars>>
       ELSE /\ phase' = "creating" /\ sources' = Named(params)
            /\ wpc' = "validate" /\ deepens' = TRUE
            /\ status' = Identified(status)
            /\ UNCHANGED <<answer, received>>
  /\ UNCHANGED <<params, ledgerVars, context, roundVars, afterClose>>

-----------------------------------------------------------------------------
(* The round: its list is made before the session is visited. *)

StartRound ==
  /\ phase = "open" /\ ~live /\ updates < UpdateBound
  /\ live' = TRUE /\ updates' = updates + 1
  /\ UNCHANGED <<requestVars, phase, ledgerVars, status, context, workVars, clientVars>>

(* A session with an update in flight is passed over. *)
Visit ==
  /\ live /\ live' = FALSE
  /\ IF wpc # "idle" THEN UNCHANGED workVars
     ELSE wpc' = "queued" /\ deepens' \in BOOLEAN /\ UNCHANGED answer
  /\ UNCHANGED <<requestVars, phase, ledgerVars, status, context, updates, clientVars>>

(* Slip: the job does not look whether its session is still wanted. *)
StartsAnyway == TRUE

Starts == phase # "closed"

JobStarts ==
  /\ wpc = "queued"
  /\ wpc' = IF Starts THEN "validate" ELSE "idle"
  /\ UNCHANGED <<requestVars, phase, ledgerVars, status, context, roundVars, deepens,
                 answer, clientVars>>

-----------------------------------------------------------------------------
(* doUpdate. *)

(* With the pin, and under the lock.  An error takes the place of the      *)
(* status kept; otherwise that gets the identity of the view looked at,    *)
(* and the same view is the one to price.                                  *)
Validate ==
  /\ wpc = "validate"
  /\ IF AccountError # "none"
     THEN status' = ErrorAt(AccountError) /\ answer' = ErrorAt(AccountError) /\ wpc' = "push"
     ELSE /\ status' = Identified(status) /\ answer' = [NoAnswer EXCEPT !.at = ledger]
          /\ wpc' = "name"
  /\ UNCHANGED <<requestVars, phase, ledgerVars, context, roundVars, deepens, clientVars>>

(* For the name of an open view the cache is asked once more. *)
Name ==
  /\ wpc = "name" /\ wpc' = "search"
  /\ answer' = [answer EXCEPT !.names = NameOf(IF answer.at.open THEN ledger ELSE answer.at)]
  /\ UNCHANGED <<requestVars, phase, ledgerVars, status, context, roundVars, deepens, clientVars>>

Alternative(a, how) == [asset |-> a, how |-> how, at |-> answer.at]
Alternatives(seq, how) == [i \in DOMAIN seq |-> Alternative(seq[i], how)]

(* The order of the loop: send_max leads, the rest is ordered by asset. *)
Ordered ==
  LET rest == Among(AssetOrder, Sources)
      lead == IF HasSendMax(params) THEN {SendMax} ELSE {}
  IN  Among(rest, lead) \o Among(rest, Assets \ lead)

Result(alts, full) ==
  [NoAnswer EXCEPT !.alts = alts, !.full = full, !.at = answer.at, !.names = answer.names]

(* findPaths without a search: the known paths are priced.  No default     *)
(* path is allowed, so an asset without known paths has no alternative.    *)
Reprice ==
  /\ wpc = "search" /\ ~deepens /\ ~(NoneNamed /\ crowded)
  /\ \E A \in SUBSET {a \in Sources : context[a]} :
       answer' = Result(Alternatives(Among(AssetOrder, A), "paths"), FALSE)
  /\ wpc' = "restore"
  /\ UNCHANGED <<requestVars, phase, ledgerVars, status, context, roundVars, deepens, clientVars>>

(* A full search, as far as the deadline allows: P are the assets it finds *)
(* paths for, D others that can be paid with by the default path.  Those   *)
(* with computed paths stand ahead.                                        *)
Search ==
  /\ wpc = "search" /\ deepens /\ ~(NoneNamed /\ crowded)
  /\ \E n \in 0 .. Len(Ordered) :
       LET done == SubSeq(Ordered, 1, n) IN
       \E P \in SUBSET ToSet(done) : \E D \in SUBSET (ToSet(done) \ P) :
         /\ context' = [a \in DOMAIN context |->
                          IF Contains(done, a) THEN a \in P ELSE context[a]]
         /\ answer' = Result(Alternatives(Among(done, P), "paths")
                               \o Alternatives(Among(done, D), "default"), TRUE)
  /\ wpc' = "restore"
  /\ UNCHANGED <<requestVars, phase, ledgerVars, status, roundVars, deepens, clientVars>>

(* Too many source assets: findPaths returns false. *)
Refused ==
  /\ wpc = "search" /\ NoneNamed /\ crowded
  /\ answer' = ErrorAt("internal") /\ wpc' = "store"
  /\ UNCHANGED <<requestVars, phase, ledgerVars, status, context, roundVars, deepens, clientVars>>

(* The search throws: no frame; a create is answered with an error.        *)
Throws ==
  /\ wpc = "search" /\ deepens /\ wpc' = "idle" /\ deepens' = FALSE
  /\ IF phase = "creating"
     THEN phase' = "refused" /\ Receives(ErrorAt("internal"))
     ELSE UNCHANGED <<phase, received>>
  /\ UNCHANGED <<requestVars, ledgerVars, status, context, roundVars, answer, afterClose>>

(* Under the lock: a reprice that comes to nothing takes the alternatives  *)
(* that were kept.                                                         *)
Restore ==
  /\ wpc = "restore" /\ wpc' = "store"
  /\ answer' =
       IF answer.alts = << >> /\ ~answer.full /\ status.alts # << >>
       THEN [answer EXCEPT !.alts = status.alts, !.warn = "revalidateFailed"]
       ELSE answer
  /\ UNCHANGED <<requestVars, phase, ledgerVars, status, context, roundVars, deepens, clientVars>>

(* Slip: a later notice takes the place of the one that is there. *)
LastNotice(a, w) == [a EXCEPT !.warn = IF w = "none" THEN @ ELSE w]

(* setPathFindNotice: the first notice stays, and an error has none. *)
Noticed(a, w) ==
  IF a.error # "none" \/ a.warn # "none" THEN a ELSE [a EXCEPT !.warn = w]

(* Slip: only the result of a full search is kept. *)
KeptIfFull(a) == IF a.full THEN a ELSE status

Kept(a) == a

(* The lines of the accounts may be incomplete; then the lock is taken. *)
Store ==
  /\ wpc = "store" /\ wpc' = "push"
  /\ \E w \in {"none", "partial", "budget"} : answer' = Noticed(answer, w)
  /\ status' = Kept(answer')
  /\ UNCHANGED <<requestVars, phase, ledgerVars, context, roundVars, deepens, clientVars>>

(* The frame; or the answer to the create, whose session is open now. *)
Push ==
  /\ wpc = "push" /\ wpc' = "idle"
  /\ Receives(answer)
  /\ phase' = IF phase = "creating" THEN "open" ELSE phase
  /\ afterClose' = IF phase = "closed" THEN afterClose + 1 ELSE afterClose
  /\ answer' = NoAnswer /\ deepens' = FALSE
  /\ UNCHANGED <<requestVars, ledgerVars, status, context, roundVars>>

Update ==
  \/ Validate \/ Name \/ Reprice \/ Search \/ Refused \/ Throws \/ Restore \/ Store \/ Push

-----------------------------------------------------------------------------
(* close and status, on the thread of the socket. *)

Close ==
  /\ phase = "open" /\ phase' = "closed"
  /\ status' = [status EXCEPT !.closed = TRUE]
  /\ Receives(status')
  /\ UNCHANGED <<requestVars, ledgerVars, context, roundVars, workVars, afterClose>>

Status ==
  /\ phase = "open"
  /\ status' = [status EXCEPT !.success = TRUE]
  /\ Receives(status')
  /\ UNCHANGED <<requestVars, phase, ledgerVars, context, roundVars, workVars, afterClose>>

Next ==
  \/ LedgerMoves \/ Create \/ StartRound \/ Visit \/ JobStarts \/ Update \/ Close \/ Status

Spec == Init /\ [][Next]_vars

-----------------------------------------------------------------------------
(* Properties. *)

ErrorName ==
  {"none", "internal", "srcActNotFound", "actNotFound", "srcActMissing", "dstActMissing",
   "dstAmtMissing", "srcActMalformed", "dstActMalformed", "dstAmtMalformed",
   "sendmaxMalformed", "srcCurMalformed", "srcIsrMalformed", "domainMalformed"}

Priced == [asset : Assets, how : {"paths", "default"}, at : View]

Answer ==
  [error : ErrorName, alts : Seq(Priced), full : BOOLEAN,
   warn : {"none", "partial", "budget", "revalidateFailed"},
   at : View, names : Nat, success : BOOLEAN, closed : BOOLEAN]

TypeOK ==
  /\ params \in Requests /\ sources \subseteq Assets
  /\ phase \in {"new", "creating", "open", "closed", "refused"}
  /\ ledger \in View
  /\ accounts \subseteq {"source", "destination"} /\ crowded \in BOOLEAN
  /\ context \in [Assets -> BOOLEAN]
  /\ live \in BOOLEAN /\ updates \in 0 .. UpdateBound /\ deepens \in BOOLEAN
  /\ wpc \in {"idle", "queued", "validate", "name", "search", "restore", "store", "push"}
  /\ {status, answer, received} \subseteq Answer
  /\ afterClose \in Nat

Stale(x) == x.warn = "revalidateFailed"

OfItsLedger(x) == \A i \in DOMAIN x.alts : x.alts[i].at = x.at /\ x.names = NameOf(x.at)

(* The prices a client is sent are all of one view, and that is the one    *)
(* whose ledger they come with, the parent's if it is open; or they are    *)
(* older, and then it is told so, whatever else there is to tell: they     *)
(* have the notice of a failed reprice, and are not in a full reply ...    *)
StaleIsMarked ==
  /\ TypeOK
  /\ wpc = "push" =>
       /\ OfItsLedger(answer) \/ Stale(answer)
       /\ Stale(answer) => ~answer.full /\ answer.alts # << >>

(* ... and they are the alternatives the client had before, whatever it    *)
(* has asked for or been sent meanwhile.  Nor does what it is told go back *)
(* otherwise: an answer to status or close is of no earlier view than a    *)
(* frame it has had, a frame of none earlier than any answer, whichever    *)
(* threads they are from.  Only the ledger named can be one less: that of  *)
(* an open view, after its parent was named by a closed one.               *)
NeverBack ==
  [][/\ received'.at.no >= received.at.no
     /\ Stale(received') => received'.alts = received.alts
     /\ received'.names # 0 /\ received'.names < received.names =>
          received'.at.open /\ received'.names = received.names - 1]_received

(* At most the update that was in flight sends a frame after the answer to *)
(* close; the list of a round that was made before starts no other.        *)
AtMostOneAfterClose == afterClose <= 1

(* A session that is not refused searches what was asked for: with         *)
(* send_max nothing of another currency, and nothing of a third issuer     *)
(* unless send_max is any issuer's, having the sender itself for its own;  *)
(* without it exactly the sources named.                                   *)
SourcesAsAsked ==
  phase \in {"creating", "open", "closed"} =>
    /\ HasSendMax(params) =>
         /\ params.amount = "all"
         /\ \A a \in Sources :
              /\ a.cur = SendMax.cur
              /\ \/ a.iss \in {Sender, SendMax.iss}
                 \/ /\ SendMax.iss = Sender
                    /\ a.iss \in {IssuerOf(c) : c \in ToSet(params.currencies.of)}
    /\ ~HasSendMax(params) /\ params.currencies.is = "some" =>
         Sources = {[cur |-> c.cur, iss |-> IssuerOf(c)] : c \in ToSet(params.currencies.of)}

-----------------------------------------------------------------------------
(* What the repository says and the code does not do. *)

(* session.cpp:96: the notice is for alternatives that may be stale.  One  *)
(* that needs no computed path is not priced again: a session that has no  *)
(* other is told so of prices of this very ledger.                         *)
MarkedOnlyIfOld ==
  Stale(received) =>
    \E i \in DOMAIN received.alts :
      received.alts[i].how = "paths" \/ received.alts[i].at # received.at

(* README.md:12: wire JSON matches the node, its ledger identity too.  The *)
(* first transaction after a close opens the view, which is then named by  *)
(* the ledger before it.                                                   *)
NamesNeverBack == [][received'.names = 0 \/ received'.names >= received.names]_received

(* README.md:12: wire JSON matches the node, its ledger identity too.      *)
(* While an update searches, what status and close answer has the identity *)
(* of the new ledger and the alternatives of the last one.                 *)
StatusOfItsLedger == OfItsLedger(received) \/ Stale(received)

(* README.md:12: wire JSON matches the node.  status puts "success" into   *)
(* whatever was kept, also into an error.                                  *)
NoErrorSucceeds == received.success => received.error = "none"
===============================================================================
