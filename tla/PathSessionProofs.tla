--------------------------- MODULE PathSessionProofs ---------------------------
(***************************************************************************)
(* Proofs about PathSession: what a client is sent while updates, close    *)
(* and status interleave, that old prices come with a notice, and which    *)
(* sources are searched for it; about PathSearch, how deep its searches    *)
(* go; and about FastPathFinder, what one search finds and returns.        *)
(*                                                                         *)
(* What a search finds makes no difference to the order of the frames, so  *)
(* the first invariant says of a frame only what fields it has.            *)
(***************************************************************************)
EXTENDS PathSession, PathSearch, FastPathFinder, SharedLemmas, FiniteSetTheorems

-----------------------------------------------------------------------------
(* Views of the ledger. *)

(* One was handed to the cache no later than the other. *)
NoLater(v, w) == v.no <= w.no /\ v.seq <= w.seq

LEMMA ViewNumbers ==
  ASSUME NEW v \in View
  PROVE  /\ v.no \in Nat /\ v.seq \in Nat /\ v.open \in BOOLEAN /\ NameOf(v) \in Nat
         /\ v.open => NameOf(v) = v.seq - 1
         /\ ~v.open => NameOf(v) = v.seq
<1>1. /\ v.no \in 0 .. MarketBound /\ v.seq \in Nat \ {0} /\ v.open \in BOOLEAN
      /\ MarketBound \in Nat
  BY SessionAssumption DEF View
<1>. QED  BY <1>1 DEF NameOf

LEMMA FirstIsView == FirstView \in View
BY SessionAssumption DEF FirstView, View

LEMMA BeforeItself == \A v \in View : NoLater(v, v)
BY ViewNumbers DEF NoLater

LEMMA BeforeThen ==
  ASSUME NEW u \in View, NEW v \in View, NEW w \in View, NoLater(u, v), NoLater(v, w)
  PROVE  NoLater(u, w)
BY ViewNumbers DEF NoLater

LEMMA NextView ==
  ASSUME ledger \in View, LedgerMoves PROVE ledger' \in View /\ NoLater(ledger, ledger')
<1>1. /\ ledger.no \in Nat /\ ledger.no < MarketBound /\ MarketBound \in Nat
      /\ ledger.seq \in Nat \ {0} /\ ledger.open \in BOOLEAN
      /\ ledger = [no |-> ledger.no, seq |-> ledger.seq, open |-> ledger.open]
  BY SessionAssumption DEF LedgerMoves, View
<1>2. CASE ledger' = [no |-> ledger.no + 1, seq |-> ledger.seq + 1, open |-> FALSE]
  BY <1>1, <1>2 DEF View, NoLater
<1>3. ASSUME NEW o \in {TRUE, ~ledger.open}, ledger' = [ledger EXCEPT !.no = @ + 1, !.open = o]
      PROVE  ledger' \in View /\ NoLater(ledger, ledger')
  <2>1. o \in BOOLEAN
    BY <1>1, <1>3, Zenon
  <2>2. ledger' = [no |-> ledger.no + 1, seq |-> ledger.seq, open |-> o]
    BY <1>1, <1>3
  <2>. QED  BY <1>1, <2>1, <2>2 DEF View, NoLater
<1>. QED  BY <1>2, <1>3 DEF LedgerMoves

-----------------------------------------------------------------------------
(* Frames. *)

Field == {"error", "alts", "full", "warn", "at", "names", "success", "closed"}

Frame(x) ==
  x = [f \in Field |-> x[f]] /\ x.at \in View /\ (x.names = 0 \/ x.names = NameOf(x.at))

(* Two frames that say the same of the ledger and its paths. *)
SameNews(x, y) == x.at = y.at /\ x.names = y.names /\ x.alts = y.alts /\ x.warn = y.warn

LEMMA EmptyFrame ==
  /\ NoAnswer = [f \in Field |-> NoAnswer[f]] /\ NoAnswer.alts = << >>
  /\ NoAnswer.at = FirstView /\ NoAnswer.names = 0 /\ NoAnswer.warn = "none"
  /\ Frame(NoAnswer) /\ ~Stale(NoAnswer)
BY FirstIsView DEF Frame, Field, Stale, NoAnswer

LEMMA FreshFrames ==
  ASSUME ledger \in View, Frame(answer)
  PROVE  /\ \A e : /\ Frame(ErrorAt(e)) /\ ~Stale(ErrorAt(e)) /\ ErrorAt(e).names = 0
                   /\ ErrorAt(e).alts = << >> /\ ErrorAt(e).at = ledger
         /\ \A alts, full : /\ Frame(Result(alts, full)) /\ ~Stale(Result(alts, full))
                            /\ Result(alts, full).at = answer.at
<1>1. ASSUME NEW e
      PROVE  /\ Frame(ErrorAt(e)) /\ ~Stale(ErrorAt(e)) /\ ErrorAt(e).names = 0
             /\ ErrorAt(e).alts = << >> /\ ErrorAt(e).at = ledger
  BY EmptyFrame DEF Frame, Field, Stale, ErrorAt
<1>2. ASSUME NEW alts, NEW full
      PROVE  /\ Frame(Result(alts, full)) /\ ~Stale(Result(alts, full))
             /\ Result(alts, full).at = answer.at
  BY EmptyFrame DEF Frame, Field, Stale, Result
<1>. QED  BY <1>1, <1>2

(* An answer to close or status has a flag more than what is kept. *)
LEMMA FrameMarked ==
  ASSUME NEW x, Frame(x)
  PROVE  /\ Frame([x EXCEPT !.closed = TRUE]) /\ SameNews([x EXCEPT !.closed = TRUE], x)
         /\ Frame([x EXCEPT !.success = TRUE]) /\ SameNews([x EXCEPT !.success = TRUE], x)
BY DEF Frame, Field, SameNews

LEMMA FrameMoved ==
  ASSUME NEW x, Frame(x), ledger \in View
  PROVE  /\ Frame(Identified(x)) /\ Identified(x).at = ledger
         /\ Identified(x).alts = x.alts /\ Identified(x).warn = x.warn
BY DEF Frame, Field, Identified

LEMMA FrameRestored ==
  ASSUME NEW x, Frame(x), NEW a
  PROVE  LET y == [x EXCEPT !.alts = a, !.warn = "revalidateFailed"]
         IN  Frame(y) /\ y.at = x.at /\ y.alts = a
BY DEF Frame, Field

(* A notice is only ever added where there is none, and the stale one is   *)
(* not among them.                                                         *)
LEMMA FrameNoticed ==
  ASSUME NEW x, Frame(x), NEW w \in {"none", "partial", "budget"}
  PROVE  /\ Frame(Noticed(x, w)) /\ Noticed(x, w).at = x.at /\ Noticed(x, w).alts = x.alts
         /\ Stale(Noticed(x, w)) <=> Stale(x)
<1>3. CASE x.error # "none" \/ x.warn # "none"
  BY <1>3 DEF Noticed
<1>4. CASE ~(x.error # "none" \/ x.warn # "none")
  <2>1. Noticed(x, w) = [x EXCEPT !.warn = w]
    BY <1>4 DEF Noticed
  <2>. QED  BY <1>4, <2>1 DEF Frame, Field, Stale
<1>. QED  BY <1>3, <1>4

-----------------------------------------------------------------------------
(* Where a session and its update can be.  A session is on the list of a   *)
(* round only once it is open, and until then only the update of its       *)
(* create runs.                                                            *)

InFlight == {"validate", "name", "search", "restore", "store", "push"}

PlaceInv ==
  /\ phase \in {"new", "creating", "open", "closed", "refused"}
  /\ wpc \in InFlight \cup {"idle", "queued"}
  /\ live \in BOOLEAN /\ ledger \in View
  /\ phase \in {"new", "refused"} => ~live /\ wpc = "idle"
  /\ phase = "creating" => ~live /\ wpc \in InFlight

(* Of the frames after the answer to close the update that was in flight   *)
(* still owes its one, or has sent it.                                     *)
CloseInv ==
  /\ afterClose \in {0, 1}
  /\ phase # "closed" \/ wpc \in InFlight => afterClose = 0

(* What is kept is what the client was last told, at an earlier ledger     *)
(* perhaps, except between the store of an update and its frame, when it   *)
(* is that frame already.  An update that has the pin is of the view of    *)
(* now.  Alternatives that are restored are those kept, hence those the    *)
(* client has.                                                             *)
NewsInv ==
  /\ Frame(status) /\ Frame(answer) /\ Frame(received)
  /\ NoLater(received.at, ledger) /\ NoLater(status.at, ledger)
  /\ phase # "refused" => NoLater(received.at, status.at)
  /\ Pinned => answer.at = ledger
  /\ wpc = "restore" => ~Stale(answer)
  /\ wpc = "store" /\ Stale(answer) => answer.alts = status.alts
  /\ wpc = "push" => SameNews(answer, status)
  /\ wpc = "push" /\ Stale(answer) => answer.alts = received.alts
  /\ phase # "refused" /\ wpc # "push" => status.alts = received.alts

SessionInv == PlaceInv /\ CloseInv /\ NewsInv

LEMMA SessionInit == Init => SessionInv
<1>. SUFFICES ASSUME Init PROVE SessionInv
  OBVIOUS
<1>1. /\ phase = "new" /\ wpc = "idle" /\ live = FALSE /\ ledger = FirstView /\ afterClose = 0
      /\ status = NoAnswer /\ answer = NoAnswer /\ received = NoAnswer
  BY DEF Init
<1>2. PlaceInv /\ CloseInv
  BY <1>1, FirstIsView DEF PlaceInv, CloseInv, InFlight
<1>3. NewsInv
  <2>1. /\ Frame(status) /\ Frame(answer) /\ Frame(received)
        /\ received.at = ledger /\ status.at = ledger /\ status.alts = received.alts
    BY <1>1, EmptyFrame
  <2>. QED  BY <1>1, <2>1, FirstIsView, BeforeItself DEF NewsInv, Pinned
<1>. QED  BY <1>2, <1>3 DEF SessionInv

LEMMA SessionStep == SessionInv /\ [Next]_vars => SessionInv'
<1>. SUFFICES ASSUME SessionInv, [Next]_vars PROVE SessionInv'
  OBVIOUS
<1>. USE DEF SessionInv, PlaceInv, InFlight
<1>1. /\ Frame(status) /\ Frame(answer) /\ Frame(received)
      /\ ledger \in View /\ NoLater(ledger, ledger)
      /\ status.at \in View /\ received.at \in View
      /\ NoLater(received.at, ledger) /\ NoLater(status.at, ledger)
  BY BeforeItself DEF NewsInv, Frame
<1>2. CASE LedgerMoves
  <2>1. /\ ledger' \in View /\ NoLater(ledger, ledger') /\ ~Pinned
        /\ UNCHANGED <<requestVars, phase, status, context, roundVars, workVars, clientVars>>
    BY <1>1, <1>2, NextView DEF LedgerMoves
  <2>2. UNCHANGED <<phase, status, answer, received, wpc, live, afterClose>>
    BY <2>1 DEF requestVars, roundVars, workVars, clientVars
  <2>3. PlaceInv' /\ CloseInv'
    BY <2>1, <2>2 DEF CloseInv
  <2>4. NoLater(received.at, ledger') /\ NoLater(status.at, ledger') /\ ~Pinned'
    BY <1>1, <2>1, <2>2, BeforeThen DEF Pinned
  <2>5. NewsInv'
    BY <2>2, <2>4 DEF NewsInv, SameNews, Stale, Frame
  <2>. QED  BY <2>3, <2>5
<1>3. CASE Create
  <2>1. CASE phase' = "refused"
    <3>1. PICK e : /\ status' = ErrorAt(e) /\ received' = ErrorAt(e)
                   /\ UNCHANGED <<workVars, ledgerVars, roundVars, afterClose>>
      BY <1>3, <2>1 DEF Create, Receives
    <3>2. PlaceInv' /\ CloseInv'
      BY <1>3, <2>1, <3>1 DEF Create, CloseInv, workVars, ledgerVars, roundVars
    <3>3. NewsInv'
      <4>1. Frame(ErrorAt(e)) /\ ErrorAt(e).at = ledger
        BY <1>1, FreshFrames
      <4>. QED  BY <1>1, <1>3, <2>1, <3>1, <4>1
                DEF NewsInv, Create, workVars, ledgerVars, Pinned
    <3>. QED  BY <3>2, <3>3
  <2>2. CASE phase' = "creating"
    <3>1. /\ phase = "new" /\ wpc' = "validate" /\ status' = Identified(status)
          /\ UNCHANGED <<answer, received, ledgerVars, roundVars, afterClose>>
      BY <1>3, <2>2 DEF Create
    <3>2. PlaceInv' /\ CloseInv'
      BY <2>2, <3>1 DEF CloseInv, ledgerVars, roundVars
    <3>3. NewsInv'
      <4>1. Frame(status') /\ status'.at = ledger /\ status'.alts = status.alts
        BY <1>1, <3>1, FrameMoved
      <4>2. status.alts = received.alts
        BY <3>1 DEF NewsInv
      <4>. QED  BY <1>1, <2>2, <3>1, <4>1, <4>2 DEF NewsInv, ledgerVars, Pinned
    <3>. QED  BY <3>2, <3>3
  <2>. QED  BY <1>3, <2>1, <2>2 DEF Create
<1>4. CASE StartRound \/ Visit \/ JobStarts
  <2>1. UNCHANGED <<phase, status, answer, received, ledgerVars, afterClose>>
    BY <1>4 DEF StartRound, Visit, JobStarts, workVars, clientVars
  <2>2. PlaceInv' /\ CloseInv' /\ (wpc' = wpc \/ wpc' \in {"idle", "queued", "validate"})
        /\ (wpc' # wpc => wpc \in {"idle", "queued"})
    BY <1>4, <2>1 DEF StartRound, Visit, JobStarts, workVars, roundVars, CloseInv, Starts, ledgerVars
  <2>3. NewsInv'
    BY <2>1, <2>2 DEF NewsInv, ledgerVars, SameNews, Pinned
  <2>. QED  BY <2>2, <2>3
<1>5. CASE Validate
  <2>1. UNCHANGED <<phase, received, ledger, live, afterClose>> /\ wpc = "validate"
    BY <1>5 DEF Validate, ledgerVars, roundVars, clientVars
  <2>2. CASE AccountError # "none"
    <3>1. status' = ErrorAt(AccountError) /\ answer' = ErrorAt(AccountError) /\ wpc' = "push"
      BY <1>5, <2>2 DEF Validate
    <3>2. NewsInv'
      <4>1. /\ Frame(status') /\ Frame(answer') /\ SameNews(answer', status')
            /\ ~Stale(answer') /\ status'.at = ledger
        BY <1>1, <3>1, FreshFrames DEF SameNews
      <4>. QED  BY <1>1, <2>1, <3>1, <4>1 DEF NewsInv, Pinned
    <3>. QED  BY <2>1, <3>1, <3>2 DEF CloseInv
  <2>3. CASE AccountError = "none"
    <3>1. /\ status' = Identified(status) /\ wpc' = "name"
          /\ answer' = [NoAnswer EXCEPT !.at = ledger]
      BY <1>5, <2>3 DEF Validate
    <3>2. Frame(status') /\ status'.at = ledger /\ status'.alts = status.alts
      BY <1>1, <3>1, FrameMoved
    <3>3. Frame(answer') /\ answer'.at = ledger
      BY <1>1, <3>1, EmptyFrame DEF Frame, Field
    <3>4. NewsInv'
      BY <1>1, <2>1, <3>1, <3>2, <3>3 DEF NewsInv, Pinned
    <3>. QED  BY <2>1, <3>1, <3>4 DEF CloseInv
  <2>. QED  BY <2>2, <2>3
<1>14. CASE Name
  <2>1. /\ UNCHANGED <<phase, status, received, ledger, live, afterClose>>
        /\ wpc = "name" /\ wpc' = "search" /\ \E n : answer' = [answer EXCEPT !.names = n]
    BY <1>14 DEF Name, ledgerVars, roundVars, clientVars
  <2>2. answer.at = ledger
    BY <2>1 DEF NewsInv, Pinned
  <2>3. answer' = [answer EXCEPT !.names = NameOf(ledger)]
    BY <1>14, <2>2 DEF Name
  <2>4. Frame(answer') /\ answer'.at = ledger
    BY <1>1, <2>2, <2>3 DEF Frame, Field
  <2>5. NewsInv'
    BY <2>1, <2>4 DEF NewsInv, Pinned
  <2>. QED  BY <2>1, <2>5 DEF CloseInv
<1>6. CASE Reprice \/ Search
  <2>1. UNCHANGED <<phase, status, received, ledger, live, afterClose>>
        /\ wpc = "search" /\ wpc' = "restore"
    BY <1>6 DEF Reprice, Search, ledgerVars, roundVars, clientVars
  <2>2. Frame(answer') /\ ~Stale(answer') /\ answer'.at = ledger
    <3>1. \E alts, full : answer' = Result(alts, full)
      BY <1>6 DEF Reprice, Search
    <3>2. answer.at = ledger
      BY <2>1 DEF NewsInv, Pinned
    <3>. QED  BY <1>1, <3>1, <3>2, FreshFrames
  <2>3. NewsInv'
    BY <1>1, <2>1, <2>2 DEF NewsInv, Pinned
  <2>. QED  BY <2>1, <2>3 DEF CloseInv
<1>7. CASE Refused
  <2>1. UNCHANGED <<phase, status, received, ledger, live, afterClose>>
        /\ wpc = "search" /\ wpc' = "store" /\ answer' = ErrorAt("internal")
    BY <1>7 DEF Refused, ledgerVars, roundVars, clientVars
  <2>2. Frame(answer') /\ ~Stale(answer') /\ answer'.at = ledger
    BY <1>1, <2>1, FreshFrames
  <2>3. NewsInv'
    BY <1>1, <2>1, <2>2 DEF NewsInv, Pinned
  <2>. QED  BY <2>1, <2>3 DEF CloseInv
<1>8. CASE Throws
  <2>1. UNCHANGED <<status, answer, ledger, live, afterClose>>
        /\ wpc = "search" /\ wpc' = "idle"
    BY <1>8 DEF Throws, ledgerVars, roundVars
  <2>2. CASE phase = "creating"
    <3>1. phase' = "refused" /\ received' = ErrorAt("internal")
      BY <1>8, <2>2 DEF Throws, Receives
    <3>2. Frame(received') /\ received'.at = ledger
      BY <1>1, <3>1, FreshFrames
    <3>3. NewsInv'
      BY <1>1, <2>1, <3>1, <3>2 DEF NewsInv, Pinned
    <3>. QED  BY <2>1, <2>2, <3>1, <3>3 DEF CloseInv
  <2>3. CASE phase # "creating"
    <3>1. phase' = phase /\ received' = received
      BY <1>8, <2>3 DEF Throws
    <3>2. NewsInv'
      BY <2>1, <3>1 DEF NewsInv, Pinned
    <3>. QED  BY <2>1, <2>3, <3>1, <3>2 DEF CloseInv
  <2>. QED  BY <2>2, <2>3
<1>9. CASE Restore
  <2>1. UNCHANGED <<phase, status, received, ledger, live, afterClose>>
        /\ wpc = "restore" /\ wpc' = "store"
    BY <1>9 DEF Restore, ledgerVars, roundVars, clientVars
  <2>2. /\ Frame(answer') /\ answer'.at = answer.at
        /\ Stale(answer') => answer'.alts = status.alts
    <3>1. CASE answer' = answer
      BY <1>1, <2>1, <3>1 DEF NewsInv
    <3>2. CASE answer' = [answer EXCEPT !.alts = status.alts, !.warn = "revalidateFailed"]
      BY <1>1, <3>2, FrameRestored
    <3>. QED  BY <1>9, <3>1, <3>2 DEF Restore
  <2>3. NewsInv'
    BY <2>1, <2>2 DEF NewsInv, Pinned
  <2>. QED  BY <2>1, <2>3 DEF CloseInv
<1>10. CASE Store
  <2>1. UNCHANGED <<phase, received, ledger, live, afterClose>>
        /\ wpc = "store" /\ wpc' = "push" /\ status' = answer'
    BY <1>10 DEF Store, Kept, ledgerVars, roundVars, clientVars
  <2>2. /\ Frame(answer') /\ answer'.at = answer.at /\ answer'.alts = answer.alts
        /\ Stale(answer') <=> Stale(answer)
    BY <1>1, <1>10, FrameNoticed DEF Store
  <2>3. NewsInv'
    <3>1. answer.at = ledger
      BY <2>1 DEF NewsInv, Pinned
    <3>2. Stale(answer') => answer'.alts = received.alts
      BY <2>1, <2>2 DEF NewsInv
    <3>. QED  BY <1>1, <2>1, <2>2, <3>1, <3>2 DEF NewsInv, SameNews, Pinned
  <2>. QED  BY <2>1, <2>3 DEF CloseInv
<1>11. CASE Push
  <2>1. UNCHANGED <<status, ledger, live>> /\ wpc = "push" /\ wpc' = "idle"
        /\ received' = answer /\ answer' = NoAnswer
    BY <1>11 DEF Push, Receives, ledgerVars, roundVars
  <2>2. PlaceInv' /\ phase' # "refused"
    BY <1>11, <2>1 DEF Push
  <2>3. CloseInv'
    BY <1>11, <2>1 DEF Push, CloseInv
  <2>4. NewsInv'
    <3>1. received'.at = status.at /\ received'.alts = status.alts
      BY <2>1 DEF NewsInv, SameNews
    <3>. QED  BY <1>1, <2>1, <2>2, <3>1, BeforeItself, EmptyFrame DEF NewsInv, Pinned
  <2>. QED  BY <2>2, <2>3, <2>4
<1>12. CASE Close \/ Status
  <2>1. /\ UNCHANGED <<answer, ledger, live, wpc, afterClose>> /\ phase = "open"
        /\ phase' \in {"open", "closed"} /\ received' = status'
    BY <1>12 DEF Close, Status, Receives, ledgerVars, roundVars, workVars
  <2>2. Frame(status') /\ SameNews(status', status)
    BY <1>1, <1>12, FrameMarked DEF Close, Status
  <2>3. PlaceInv' /\ CloseInv'
    BY <2>1 DEF CloseInv
  <2>4. NewsInv'
    BY <1>1, <2>1, <2>2, BeforeItself DEF NewsInv, SameNews, Pinned
  <2>. QED  BY <2>3, <2>4
<1>13. CASE UNCHANGED vars
  BY <1>13 DEF vars, ledgerVars, requestVars, clientVars, workVars, roundVars,
               CloseInv, NewsInv, SameNews, Stale, Frame, Pinned
<1>. QED  BY <1>2, <1>3, <1>4, <1>5, <1>6, <1>7, <1>8, <1>9, <1>10, <1>11, <1>12, <1>13, <1>14
          DEF Next, Update

LEMMA SessionAlways == Spec => []SessionInv
BY SessionInit, SessionStep, PTL DEF Spec

-----------------------------------------------------------------------------

(* AtMostOneAfterClose: the update in flight at a close sends at most one  *)
(* frame after it, and no round begun before it starts another (doClose,   *)
(* doUpdate in session.cpp, the closing() test of notifySubscriptions).    *)
THEOREM OneFrameAfterClose == Spec => []AtMostOneAfterClose
<1>1. SessionInv => AtMostOneAfterClose
  BY DEF SessionInv, CloseInv, AtMostOneAfterClose
<1>. QED  BY <1>1, SessionAlways, PTL

(* What a client learns after something else. *)
Forward(x, y) ==
  /\ y.at.no >= x.at.no
  /\ Stale(y) => y.alts = x.alts
  /\ y.names # 0 /\ y.names < x.names => y.at.open /\ y.names = x.names - 1

LEMMA LaterIsForward ==
  ASSUME NEW x, NEW y, Frame(x), Frame(y), NoLater(x.at, y.at), Stale(y) => y.alts = x.alts
  PROVE  Forward(x, y)
<1>1. /\ x.at \in View /\ y.at \in View
      /\ x.names = 0 \/ x.names = NameOf(x.at)
      /\ y.names = 0 \/ y.names = NameOf(y.at)
  BY DEF Frame
<1>2. /\ x.at.no \in Nat /\ y.at.no \in Nat /\ x.at.seq \in Nat /\ y.at.seq \in Nat
      /\ x.at.no <= y.at.no /\ x.at.seq <= y.at.seq
      /\ NameOf(x.at) = x.at.seq \/ NameOf(x.at) = x.at.seq - 1
      /\ y.at.open \/ NameOf(y.at) = y.at.seq
      /\ NameOf(y.at) = y.at.seq \/ NameOf(y.at) = y.at.seq - 1
      /\ NameOf(x.at) \in Nat /\ NameOf(y.at) \in Nat
  BY <1>1, ViewNumbers DEF NoLater
<1>3. ASSUME y.names # 0, y.names < x.names PROVE y.at.open /\ y.names = x.names - 1
  <2>1. y.names = NameOf(y.at) /\ x.names = NameOf(x.at)
    BY <1>1, <1>2, <1>3
  <2>. QED  BY <1>2, <1>3, <2>1
<1>. QED  BY <1>2, <1>3 DEF Forward

(* NeverBack: from the worker's frames and the socket's answers together a *)
(* client never learns of an earlier view than it knows, the ledger it is  *)
(* told goes back by one at most, when that of a closed view is followed   *)
(* by the parent of an open one, and restored alternatives are the ones it *)
(* has (doUpdate, doStatus, doClose and setClosedLedgerIdentity in         *)
(* session.cpp).                                                           *)
THEOREM NewsGoForward == Spec => NeverBack
<1>1. SessionInv /\ [Next]_vars => [Forward(received, received')]_received
  <2>. SUFFICES ASSUME SessionInv, Next
                PROVE  received' = received \/ Forward(received, received')
    BY DEF vars, clientVars
  <2>1. /\ Frame(status) /\ Frame(answer) /\ Frame(received) /\ ledger \in View
        /\ NoLater(received.at, ledger)
    BY DEF SessionInv, NewsInv, PlaceInv
  <2>2. ASSUME NEW e, received' = ErrorAt(e) PROVE Forward(received, received')
    BY <2>1, <2>2, FreshFrames, LaterIsForward
  <2>3. CASE Push
    <3>1. /\ received' = answer /\ SameNews(answer, status) /\ phase # "refused"
          /\ Stale(answer) => answer.alts = received.alts
      BY <2>3 DEF Push, Receives, SessionInv, PlaceInv, NewsInv
    <3>2. NoLater(received.at, answer.at)
      BY <3>1 DEF SessionInv, NewsInv, SameNews
    <3>. QED  BY <2>1, <3>1, <3>2, LaterIsForward
  <2>4. CASE Close \/ Status
    <3>1. phase = "open" /\ received' = status' /\ SameNews(status', status) /\ Frame(status')
      BY <2>1, <2>4, FrameMarked DEF Close, Status, Receives
    <3>2. NoLater(received.at, received'.at)
      BY <3>1 DEF SessionInv, NewsInv, SameNews
    <3>3. ASSUME Stale(received') PROVE received'.alts = received.alts
      BY <3>1, <3>3 DEF SessionInv, NewsInv, SameNews, Stale
    <3>. QED  BY <2>1, <3>1, <3>2, <3>3, LaterIsForward
  <2>5. CASE Create \/ Throws
    <3>1. received' = received \/ \E e : received' = ErrorAt(e)
      BY <2>5 DEF Create, Throws, Receives
    <3>. QED  BY <2>2, <3>1
  <2>6. CASE LedgerMoves \/ StartRound \/ Visit \/ JobStarts \/ Validate \/ Name \/ Reprice
               \/ Search \/ Refused \/ Restore \/ Store
    BY <2>6 DEF LedgerMoves, StartRound, Visit, JobStarts, Validate, Name, Reprice, Search,
                Refused, Restore, Store, clientVars
  <2>. QED  BY <2>3, <2>4, <2>5, <2>6 DEF Next, Update
<1>2. [Forward(received, received')]_received =>
        [/\ received'.at.no >= received.at.no
         /\ Stale(received') => received'.alts = received.alts
         /\ received'.names # 0 /\ received'.names < received.names =>
              received'.at.open /\ received'.names = received.names - 1]_received
  BY DEF Forward, Stale
<1>. QED  BY <1>1, <1>2, SessionAlways, PTL DEF Spec, NeverBack

-----------------------------------------------------------------------------
(* What the checks of parseJson establish. *)

LEMMA LeastOf ==
  ASSUME NEW S \in SUBSET Nat, S # {}
  PROVE  Min(S) \in S
<1>1. \E x \in S : \A y \in S : x <= y
  BY LeastNumber
<1>. QED  BY <1>1 DEF Min

LEMMA ThreeApart ==
  ASSUME NEW a, NEW b, NEW c, a # b, a # c, b # c
  PROVE  Cardinality({a, b, c}) = 3
<1>1. IsFiniteSet({}) /\ Cardinality({}) = 0
  BY FS_EmptySet
<1>2. IsFiniteSet({c}) /\ Cardinality({c}) = 1
  BY FS_Singleton
<1>3. IsFiniteSet({b, c}) /\ Cardinality({b, c}) = 2
  <2>1. {b, c} = {c} \cup {b} /\ b \notin {c}
    OBVIOUS
  <2>. QED  BY <1>2, <2>1, FS_AddElement
<1>4. {a, b, c} = {b, c} \cup {a} /\ a \notin {b, c}
  OBVIOUS
<1>. QED  BY <1>3, <1>4, FS_AddElement

(* A request that passes them all: send_max comes only with the whole      *)
(* amount, and each currency named is one it allows.                       *)
LEMMA ChecksFail ==
  ASSUME NEW p \in Params, NEW i \in DOMAIN Checks(p), Checks(p)[i][1]
  PROVE  Checks(p)[i][2] # "none"
<1>. DEFINE C == p.currencies.of
            bad == {k \in DOMAIN C : CurrencyError(p, C[k]) # "none"}
<1>1. i \in 1 .. 11
  BY DEF Checks
<1>2. i # 10 => Checks(p)[i][2] # "none"
  BY <1>1 DEF Checks
<1>3. ASSUME i = 10 PROVE Checks(p)[i][2] # "none"
  <2>1. bad # {}
    <3>1. Checks(p)[10] = <<bad # {}, IF bad = {} THEN "none" ELSE CurrencyError(p, C[Min(bad)])>>
      BY Zenon DEF Checks
    <3>. HIDE DEF bad
    <3>2. Checks(p)[10][1] = (bad # {})
      BY <3>1
    <3>. QED  BY <1>3, <3>2
  <2>2. C \in Seq(AnyAsset)
    BY DEF Params
  <2>3. bad \in SUBSET Nat
    BY <2>2, LenProperties
  <2>4. Min(bad) \in bad
    BY <2>1, <2>3, LeastOf
  <2>5. Checks(p)[i][2] = CurrencyError(p, C[Min(bad)])
    BY <1>3, <2>1 DEF Checks
  <2>. QED  BY <2>4, <2>5
<1>. QED  BY <1>2, <1>3

LEMMA ParsedWell ==
  ASSUME NEW p \in Params, ParseError(p) = "none"
  PROVE  /\ HasSendMax(p) => p.amount = "all"
         /\ p.currencies.is = "some" => Len(p.currencies.of) >= 1
         /\ \A k \in DOMAIN p.currencies.of : ~OtherIssuer(p, p.currencies.of[k])
<1>. DEFINE failed == {i \in DOMAIN Checks(p) : Checks(p)[i][1]}
<1>1. DOMAIN Checks(p) = 1 .. 11
  BY DEF Checks
<1>2. failed = {}
  <2>1. failed \in SUBSET Nat
    BY <1>1
  <2>2. SUFFICES ASSUME failed # {} PROVE FALSE
    OBVIOUS
  <2>3. Min(failed) \in failed
    BY <2>1, <2>2, LeastOf
  <2>4. ParseError(p) = Checks(p)[Min(failed)][2]
    BY <2>2 DEF ParseError
  <2>. HIDE DEF failed
  <2>5. Min(failed) \in DOMAIN Checks(p) /\ Checks(p)[Min(failed)][1]
    BY <2>3 DEF failed
  <2>. QED  BY <2>4, <2>5, ChecksFail
<1>3. ~Checks(p)[7][1] /\ ~Checks(p)[9][1] /\ ~Checks(p)[10][1]
  BY <1>1, <1>2
<1>4. HasSendMax(p) => p.amount = "all"
  BY <1>3 DEF Checks, HasSendMax
<1>5. p.currencies.is = "some" => Len(p.currencies.of) >= 1
  <2>1. p.currencies.is = "some" => Len(p.currencies.of) \in 1 .. MaxSrcCur
    BY <1>3 DEF Checks
  <2>. QED  BY <2>1
<1>6. \A k \in DOMAIN p.currencies.of : CurrencyError(p, p.currencies.of[k]) = "none"
  BY <1>3 DEF Checks
<1>7. \A k \in DOMAIN p.currencies.of : ~OtherIssuer(p, p.currencies.of[k])
  BY <1>6 DEF CurrencyError
<1>. QED  BY <1>4, <1>5, <1>7

(* So each source it makes of them is one send_max allows. *)
LEMMA SourceAllowed ==
  ASSUME NEW p \in Params, ParseError(p) = "none", HasSendMax(p), NEW a \in Named(p)
  PROVE  /\ a.cur = p.sendMax.asset.cur
         /\ \/ a.iss \in {Sender, p.sendMax.asset.iss}
            \/ /\ p.sendMax.asset.iss = Sender
               /\ a.iss \in {IssuerOf(c) : c \in ToSet(p.currencies.of)}
<1>. DEFINE C == p.currencies.of
            m == p.sendMax.asset
<1>1. PICK k \in DOMAIN C : a \in SourcesOf(p, C[k])
  BY DEF Named
<1>2. /\ C[k].cur = m.cur
      /\ a.cur = C[k].cur
      /\ a.iss \in {Sender, IssuerOf(C[k]), m.iss}
  BY <1>1 DEF SourcesOf
<1>3. ~OtherIssuer(p, C[k])
  BY <1>1, ParsedWell
<1>4. Cardinality({IssuerOf(C[k]), m.iss, Sender}) # 3
  BY <1>2, <1>3 DEF OtherIssuer
<1>5. IssuerOf(C[k]) \in {m.iss, Sender} \/ m.iss = Sender
  BY <1>4, ThreeApart
<1>6. IssuerOf(C[k]) \in {IssuerOf(c) : c \in ToSet(C)}
  BY DEF ToSet
<1>. QED  BY <1>2, <1>5, <1>6

(* Until a session is refused it has the sources its request names.        *)
RequestInv ==
  /\ params \in Requests
  /\ phase \in {"creating", "open", "closed"} =>
       sources = Named(params) /\ ParseError(params) = "none"

LEMMA RequestStep == RequestInv /\ [Next]_vars => RequestInv'
<1>. SUFFICES ASSUME RequestInv, [Next]_vars PROVE RequestInv'
  OBVIOUS
<1>1. CASE Create
  <2>1. params' = params /\ phase = "new"
    BY <1>1 DEF Create
  <2>2. phase' = "refused" \/ (ParseError(params) = "none" /\ sources' = Named(params))
    BY <1>1 DEF Create
  <2>. QED  BY <2>1, <2>2 DEF RequestInv
<1>2. CASE Push \/ Throws
  BY <1>2 DEF RequestInv, Push, Throws, requestVars
<1>3. CASE Close
  BY <1>3 DEF RequestInv, Close, requestVars
<1>4. CASE LedgerMoves \/ StartRound \/ Visit \/ JobStarts \/ Validate \/ Name \/ Reprice \/ Search
             \/ Refused \/ Restore \/ Store \/ Status \/ UNCHANGED vars
  BY <1>4 DEF RequestInv, LedgerMoves, StartRound, Visit, JobStarts, Validate, Name, Reprice,
              Search, Refused, Restore, Store, Status, requestVars, vars
<1>. QED  BY <1>1, <1>2, <1>3, <1>4 DEF Next, Update

(* SourcesAsAsked: a session that is not refused searches the sources it   *)
(* was asked for, within what send_max allows (parseJson, findPaths in     *)
(* session.cpp).                                                           *)
THEOREM SearchesWhatWasAsked == Spec => []SourcesAsAsked
<1>1. Init => RequestInv
  BY DEF Init, RequestInv
<1>2. RequestInv => SourcesAsAsked
  <2>. SUFFICES ASSUME RequestInv, phase \in {"creating", "open", "closed"}
                PROVE  SourcesAsAsked
    BY DEF SourcesAsAsked
  <2>1. params \in Params /\ sources = Named(params) /\ ParseError(params) = "none"
    BY SessionAssumption DEF RequestInv
  <2>2. ASSUME HasSendMax(params), NEW a \in Sources
        PROVE  /\ a.cur = SendMax.cur
               /\ \/ a.iss \in {Sender, SendMax.iss}
                  \/ /\ SendMax.iss = Sender
                     /\ a.iss \in {IssuerOf(c) : c \in ToSet(params.currencies.of)}
    <3>1. CASE a = SendMax
      BY <3>1
    <3>2. CASE a \in Named(params)
      BY <2>1, <2>2, <3>2, SourceAllowed DEF SendMax
    <3>. QED  BY <2>1, <2>2, <3>1, <3>2 DEF Sources
  <2>3. HasSendMax(params) => params.amount = "all"
    BY <2>1, ParsedWell
  <2>4. ASSUME ~HasSendMax(params), params.currencies.is = "some"
        PROVE  Sources = {[cur |-> c.cur, iss |-> IssuerOf(c)] :
                            c \in ToSet(params.currencies.of)}
    <3>. DEFINE C == params.currencies.of
    <3>1. C \in Seq(AnyAsset) /\ Len(C) >= 1
      BY <2>1, <2>4, ParsedWell DEF Params
    <3>2. 1 \in DOMAIN C
      BY <3>1, LenProperties
    <3>3. \A k \in DOMAIN C : SourcesOf(params, C[k])
                               = {[cur |-> C[k].cur, iss |-> IssuerOf(C[k])]}
      BY <2>4 DEF SourcesOf
    <3>4. Named(params) = {[cur |-> C[k].cur, iss |-> IssuerOf(C[k])] : k \in DOMAIN C}
      BY <2>4, <3>3 DEF Named
    <3>5. Named(params) # {}
      BY <3>2, <3>4
    <3>6. Sources = Named(params)
      BY <2>1, <3>5 DEF Sources
    <3>. QED  BY <3>4, <3>6 DEF ToSet
  <2>. QED  BY <2>2, <2>3, <2>4 DEF SourcesAsAsked
<1>. QED  BY <1>1, <1>2, RequestStep, PTL DEF Spec

-----------------------------------------------------------------------------
(* Prices and their ledgers. *)

Now == {x \in Priced : x.at = answer.at}

LEMMA OrderIsOfAssets == AssetOrder \in Seq(Assets)
<1>1. Len(AssetOrder) \in Nat /\ AssetOrder = [i \in 1 .. Len(AssetOrder) |-> AssetOrder[i]]
  BY SessionAssumption, LenProperties
<1>2. \A i \in 1 .. Len(AssetOrder) : AssetOrder[i] \in Assets
  BY <1>1 DEF Assets, ToSet
<1>. QED  BY <1>1, <1>2

LEMMA AllOfThese ==
  ASSUME NEW S, NEW T, NEW s \in Seq(S), \A i \in 1 .. Len(s) : s[i] \in T
  PROVE  s \in Seq(T)
<1>1. Len(s) \in Nat /\ s = [i \in 1 .. Len(s) |-> s[i]]
  BY LenProperties
<1>. QED  BY <1>1

LEMMA AmongAssets ==
  ASSUME NEW s \in Seq(Assets), NEW T PROVE Among(s, T) \in Seq(Assets)
<1>1. Among(s, T) \in Seq(Assets \cap T)
  BY AmongMembers
<1>. QED  BY <1>1

(* What is priced now is of the view looked at ... *)
LEMMA PricedNow ==
  ASSUME answer.at \in View, NEW s \in Seq(Assets), NEW how \in {"paths", "default"}
  PROVE  Alternatives(s, how) \in Seq(Now)
<1>1. Len(s) \in Nat /\ DOMAIN s = 1 .. Len(s) /\ \A i \in 1 .. Len(s) : s[i] \in Assets
  BY LenProperties
<1>2. \A i \in 1 .. Len(s) : Alternative(s[i], how) \in Now
  BY <1>1 DEF Alternative, Now, Priced
<1>. QED  BY <1>1, <1>2 DEF Alternatives

(* ... and a reply made of it is of its ledger. *)
LEMMA FreshAnswers ==
  ASSUME ledger \in View, answer \in Answer
  PROVE  /\ NoAnswer \in Answer
         /\ \A e \in ErrorName : ErrorAt(e) \in Answer
         /\ \A e : OfItsLedger(ErrorAt(e)) /\ ~Stale(ErrorAt(e))
         /\ \A alts \in Seq(Now), full \in BOOLEAN :
              /\ Result(alts, full) \in Answer /\ ~Stale(Result(alts, full))
              /\ Result(alts, full).full = full /\ Result(alts, full).alts = alts
              /\ answer.names = NameOf(answer.at) => OfItsLedger(Result(alts, full))
<1>1. answer.at \in View /\ answer.names \in Nat
  BY DEF Answer
<1>2. << >> \in Seq(Priced) /\ DOMAIN << >> = {}
  OBVIOUS
<1>3. NoAnswer \in Answer
  BY <1>2, FirstIsView DEF NoAnswer, Answer, ErrorName
<1>4. \A e \in ErrorName : ErrorAt(e) \in Answer
  BY <1>3 DEF ErrorAt, Answer
<1>5. \A e : ErrorAt(e).alts = << >> /\ ~Stale(ErrorAt(e))
  BY EmptyFrame DEF ErrorAt, Field, Stale
<1>6. ASSUME NEW alts \in Seq(Now), NEW full \in BOOLEAN
      PROVE  /\ Result(alts, full) \in Answer /\ ~Stale(Result(alts, full))
             /\ Result(alts, full).full = full /\ Result(alts, full).alts = alts
             /\ answer.names = NameOf(answer.at) => OfItsLedger(Result(alts, full))
  <2>1. \A i \in 1 .. Len(alts) : alts[i] \in Now
    BY <1>6
  <2>2. \A i \in 1 .. Len(alts) : alts[i] \in Priced /\ alts[i].at = answer.at
    BY <2>1 DEF Now
  <2>3. alts \in Seq(Priced)
    BY <2>2, AllOfThese
  <2>4. /\ Result(alts, full).at = answer.at /\ Result(alts, full).names = answer.names
        /\ Result(alts, full).alts = alts /\ Result(alts, full).full = full
        /\ ~Stale(Result(alts, full))
    BY EmptyFrame DEF Result, Field, Stale
  <2>5. Result(alts, full) \in Answer
    BY <1>1, <1>3, <2>3 DEF Result, Answer
  <2>6. DOMAIN alts = 1 .. Len(alts)
    BY LenProperties
  <2>. QED  BY <2>2, <2>4, <2>5, <2>6 DEF OfItsLedger
<1>. QED  BY <1>2, <1>3, <1>4, <1>5, <1>6 DEF OfItsLedger

LEMMA ErrorNames ==
  ASSUME NEW p \in Params
  PROVE  ParseError(p) \in ErrorName /\ AccountError \in ErrorName
<1>. DEFINE failed == {i \in DOMAIN Checks(p) : Checks(p)[i][1]}
            C == p.currencies.of
            bad == {k \in DOMAIN C : CurrencyError(p, C[k]) # "none"}
<1>1. DOMAIN Checks(p) = 1 .. 11
  BY DEF Checks
<1>2. \A i \in 1 .. 11 : Checks(p)[i][2] \in ErrorName
  <2>1. \A i \in (1 .. 11) \ {10} : Checks(p)[i][2] \in ErrorName
    BY DEF Checks, ErrorName
  <2>2. \A c : CurrencyError(p, c) \in ErrorName
    BY DEF CurrencyError, ErrorName
  <2>3. Checks(p)[10][2] = IF bad = {} THEN "none" ELSE CurrencyError(p, C[Min(bad)])
    BY DEF Checks
  <2>4. "none" \in ErrorName
    BY DEF ErrorName
  <2>. HIDE DEF bad
  <2>5. Checks(p)[10][2] \in ErrorName
    BY <2>2, <2>3, <2>4
  <2>. QED  BY <2>1, <2>5
<1>3. failed = {} \/ Min(failed) \in 1 .. 11
  <2>1. failed \in SUBSET Nat
    BY <1>1
  <2>. QED  BY <1>1, <2>1, LeastOf
<1>4. ParseError(p) = IF failed = {} THEN "none" ELSE Checks(p)[Min(failed)][2]
  BY DEF ParseError
<1>5. ParseError(p) \in ErrorName
  <2>1. "none" \in ErrorName
    BY DEF ErrorName
  <2>. HIDE DEF failed
  <2>. QED  BY <1>2, <1>3, <1>4, <2>1
<1>. QED  BY <1>5 DEF AccountError, ErrorName

(* An answer on its way to the client: its prices are of its ledger until  *)
(* the reprice that came to nothing takes those that were kept.            *)
Marked(x) ==
  /\ OfItsLedger(x) \/ Stale(x)
  /\ Stale(x) => ~x.full /\ x.alts # << >>

MarkedInv ==
  /\ TypeOK
  /\ wpc = "search" => answer.names = NameOf(answer.at)
  /\ wpc = "restore" => OfItsLedger(answer) /\ ~Stale(answer)
  /\ wpc \in {"store", "push"} => Marked(answer)

LEMMA MarkedInit == Init => MarkedInv
<1>. SUFFICES ASSUME Init PROVE MarkedInv
  OBVIOUS
<1>1. ledger \in View /\ updates \in 0 .. UpdateBound
  BY SessionAssumption, FirstIsView DEF Init
<1>2. {status, answer, received} \subseteq Answer
  <2>1. << >> \in Seq(Priced)
    OBVIOUS
  <2>2. NoAnswer \in Answer
    BY <2>1, FirstIsView DEF NoAnswer, Answer, ErrorName
  <2>. QED  BY <2>2 DEF Init
<1>. QED  BY <1>1, <1>2 DEF Init, TypeOK, MarkedInv

(* What a step does to the types when it makes no answer. *)
LEMMA PlainTypes ==
  ASSUME TypeOK, UNCHANGED <<requestVars, ledgerVars, context>>,
         phase' \in {"new", "creating", "open", "closed", "refused"},
         wpc' \in {"idle", "queued", "validate", "name", "search", "restore", "store", "push"},
         live' \in BOOLEAN, updates' \in 0 .. UpdateBound, deepens' \in BOOLEAN,
         afterClose' \in Nat, {status', answer', received'} \subseteq Answer
  PROVE  TypeOK'
BY DEF TypeOK, requestVars, ledgerVars

LEMMA MovedAnswer ==
  ASSUME NEW x \in Answer, ledger \in View PROVE Identified(x) \in Answer
<1>1. NameOf(ledger) \in Nat
  BY ViewNumbers
<1>. QED  BY <1>1 DEF Identified, Answer

LEMMA MarkedStep == SessionInv /\ MarkedInv /\ [Next]_vars => MarkedInv'
<1>. SUFFICES ASSUME SessionInv, MarkedInv, [Next]_vars PROVE MarkedInv'
  OBVIOUS
<1>0. /\ TypeOK /\ ledger \in View /\ params \in Params
      /\ status \in Answer /\ answer \in Answer /\ received \in Answer
      /\ updates \in 0 .. UpdateBound /\ afterClose \in Nat
  BY SessionAssumption DEF MarkedInv, TypeOK
<1>14. Pinned => answer.at = ledger
  BY DEF SessionInv, NewsInv
<1>13. AccountError \in ErrorName /\ "internal" \in ErrorName
  BY <1>0, ErrorNames DEF ErrorName
<1>. USE DEF Receives
<1>1. CASE LedgerMoves
  <2>1. /\ ledger' \in View
        /\ UNCHANGED <<requestVars, phase, status, context, roundVars, workVars, clientVars>>
    BY <1>0, <1>1, NextView DEF LedgerMoves
  <2>2. accounts' \subseteq {"source", "destination"} /\ crowded' \in BOOLEAN
    BY <1>0, <1>1 DEF LedgerMoves, TypeOK
  <2>4. TypeOK'
    BY <1>0, <2>1, <2>2 DEF TypeOK, requestVars, roundVars, workVars, clientVars
  <2>. QED  BY <2>1, <2>4 DEF MarkedInv, Marked, OfItsLedger, Stale, workVars
<1>2. CASE Create
  <2>1. CASE phase' = "refused"
    <3>1. PICK e \in ErrorName : status' = ErrorAt(e) /\ received' = ErrorAt(e)
      BY <1>0, <1>2, <2>1, ErrorNames DEF Create
    <3>2. UNCHANGED <<requestVars, ledgerVars, context, roundVars, workVars, afterClose>>
      BY <1>2, <2>1 DEF Create, requestVars
    <3>3. TypeOK'
      BY <1>0, <2>1, <3>1, <3>2, FreshAnswers, PlainTypes DEF roundVars, workVars, TypeOK
    <3>. QED  BY <3>2, <3>3 DEF MarkedInv, Marked, OfItsLedger, Stale, workVars
  <2>2. CASE phase' # "refused"
    <3>1. /\ phase' = "creating" /\ sources' = Named(params) /\ ParseError(params) = "none"
          /\ wpc' = "validate" /\ deepens' = TRUE
          /\ status' = Identified(status)
          /\ UNCHANGED <<answer, received, params, ledgerVars, context, roundVars, afterClose>>
      BY <1>2, <2>2 DEF Create
    <3>2. sources' \subseteq Assets
      BY <1>0, <3>1, OrderAssumption DEF TypeOK
    <3>3. status' \in Answer
      BY <1>0, <3>1, MovedAnswer
    <3>4. TypeOK'
      BY <1>0, <3>1, <3>2, <3>3 DEF TypeOK, ledgerVars, roundVars
    <3>. QED  BY <3>1, <3>4 DEF MarkedInv
  <2>. QED  BY <2>1, <2>2
<1>3. CASE StartRound \/ Visit \/ JobStarts
  <2>1. UNCHANGED <<requestVars, ledgerVars, context, phase, status, answer, clientVars>>
    BY <1>3 DEF StartRound, Visit, JobStarts, workVars
  <2>2. /\ wpc' = wpc \/ wpc' \in {"idle", "queued", "validate"}
        /\ live' \in BOOLEAN /\ deepens' \in BOOLEAN
    BY <1>0, <1>3 DEF StartRound, Visit, JobStarts, workVars, roundVars, Starts, TypeOK
  <2>3. updates' \in 0 .. UpdateBound
    BY <1>0, <1>3, SessionAssumption DEF StartRound, Visit, JobStarts, roundVars
  <2>4. wpc' \in {"idle", "queued", "validate", "name", "search", "restore", "store", "push"}
    BY <1>0, <2>2 DEF TypeOK
  <2>5. TypeOK'
    BY <1>0, <2>1, <2>2, <2>3, <2>4, PlainTypes DEF TypeOK, clientVars
  <2>. QED  BY <2>1, <2>2, <2>5 DEF MarkedInv, Marked, OfItsLedger, Stale
<1>4. CASE Validate
  <2>1. UNCHANGED <<requestVars, phase, ledgerVars, context, roundVars, deepens, clientVars>>
    BY <1>4 DEF Validate
  <2>2. CASE AccountError # "none"
    <3>1. status' = ErrorAt(AccountError) /\ answer' = ErrorAt(AccountError) /\ wpc' = "push"
      BY <1>4, <2>2 DEF Validate
    <3>2. TypeOK'
      <4>1. ErrorAt(AccountError) \in Answer
        BY <1>0, <1>13, FreshAnswers
      <4>2. /\ {status', answer', received'} \subseteq Answer
            /\ UNCHANGED <<phase, live, updates, deepens, afterClose>>
        BY <1>0, <2>1, <3>1, <4>1 DEF roundVars, clientVars
      <4>. QED  BY <1>0, <2>1, <3>1, <4>2, PlainTypes DEF TypeOK
    <3>3. Marked(answer')
      BY <1>0, <3>1, FreshAnswers DEF Marked
    <3>. QED  BY <3>1, <3>2, <3>3 DEF MarkedInv, Marked, OfItsLedger, Stale
  <2>3. CASE AccountError = "none"
    <3>1. /\ status' = Identified(status) /\ wpc' = "name"
          /\ answer' = [NoAnswer EXCEPT !.at = ledger]
      BY <1>4, <2>3 DEF Validate
    <3>2. status' \in Answer /\ answer' \in Answer
      <4>1. status' \in Answer
        BY <1>0, <3>1, MovedAnswer
      <4>2. NoAnswer \in Answer
        BY <1>0, FreshAnswers
      <4>. QED  BY <1>0, <3>1, <4>1, <4>2 DEF Answer
    <3>3. TypeOK'
      BY <1>0, <2>1, <3>1, <3>2, PlainTypes DEF TypeOK, roundVars, clientVars
    <3>. QED  BY <3>1, <3>3 DEF MarkedInv
  <2>. QED  BY <2>2, <2>3
<1>15. CASE Name
  <2>1. /\ UNCHANGED <<requestVars, phase, ledgerVars, status, context, roundVars, deepens,
                       clientVars>>
        /\ wpc' = "search" /\ answer.at = ledger
    BY <1>14, <1>15 DEF Name, Pinned
  <2>2. answer' = [answer EXCEPT !.names = NameOf(ledger)]
    BY <1>15, <2>1 DEF Name
  <2>3. answer' \in Answer /\ answer'.names = NameOf(answer'.at)
    BY <1>0, <2>1, <2>2, ViewNumbers DEF Answer
  <2>4. TypeOK'
    BY <1>0, <2>1, <2>3, PlainTypes DEF TypeOK, roundVars, clientVars
  <2>. QED  BY <2>1, <2>3, <2>4 DEF MarkedInv
<1>5. CASE Reprice \/ Search
  <2>1. /\ UNCHANGED <<requestVars, phase, ledgerVars, status, roundVars, deepens, clientVars>>
        /\ wpc = "search" /\ wpc' = "restore" /\ answer.at \in View
        /\ answer.names = NameOf(answer.at)
    BY <1>0, <1>5 DEF Reprice, Search, MarkedInv, Answer
  <2>2. context' \in [Assets -> BOOLEAN]
    <3>1. CASE Reprice
      BY <1>0, <3>1 DEF Reprice, TypeOK
    <3>2. CASE Search
      <4>1. PICK done, P : context' = [a \in DOMAIN context |->
                                         IF Contains(done, a) THEN a \in P ELSE context[a]]
        BY <3>2 DEF Search
      <4>2. context \in [Assets -> BOOLEAN]
        BY <1>0 DEF TypeOK
      <4>3. ASSUME NEW a \in Assets
            PROVE  (IF Contains(done, a) THEN a \in P ELSE context[a]) \in BOOLEAN
        <5>1. context[a] \in BOOLEAN /\ (a \in P) \in BOOLEAN
          BY <4>2
        <5>2. CASE Contains(done, a)
          BY <5>1, <5>2, Zenon
        <5>3. CASE ~Contains(done, a)
          BY <5>1, <5>3, Zenon
        <5>. QED  BY <5>2, <5>3
      <4>4. DOMAIN context = Assets
        BY <4>2
      <4>. QED  BY <4>1, <4>3, <4>4, Zenon
    <3>. QED  BY <1>5, <3>1, <3>2
  <2>3. PICK alts \in Seq(Now), full \in BOOLEAN : answer' = Result(alts, full)
    <3>1. CASE Reprice
      <4>1. PICK A : answer' = Result(Alternatives(Among(AssetOrder, A), "paths"), FALSE)
        BY <3>1 DEF Reprice
      <4>2. Among(AssetOrder, A) \in Seq(Assets)
        BY OrderIsOfAssets, AmongAssets
      <4>3. Alternatives(Among(AssetOrder, A), "paths") \in Seq(Now)
        BY <2>1, <4>2, PricedNow
      <4>. QED  BY <4>1, <4>3
    <3>2. CASE Search
      <4>1. PICK n \in 0 .. Len(Ordered) :
              \E P, D : answer' = Result(Alternatives(Among(SubSeq(Ordered, 1, n), P), "paths")
                           \o Alternatives(Among(SubSeq(Ordered, 1, n), D), "default"), TRUE)
        BY <3>2 DEF Search
      <4>2. Ordered \in Seq(Assets)
        BY OrderIsOfAssets, AmongAssets, ConcatProperties DEF Ordered
      <4>3. SubSeq(Ordered, 1, n) \in Seq(Assets)
        <5>. HIDE DEF Ordered
        <5>1. Len(Ordered) \in Nat /\ n \in Nat /\ n <= Len(Ordered)
          BY <4>1, <4>2, LenProperties
        <5>2. \A i \in 1 .. n : Ordered[i] \in Assets
          BY <4>2, <5>1, ElementOfSeq
        <5>. QED  BY <4>2, <5>1, <5>2
      <4>. DEFINE done == SubSeq(Ordered, 1, n)
      <4>4. PICK P, D : answer' = Result(Alternatives(Among(done, P), "paths")
                           \o Alternatives(Among(done, D), "default"), TRUE)
        BY <4>1
      <4>. HIDE DEF done
      <4>5. /\ Alternatives(Among(done, P), "paths") \in Seq(Now)
            /\ Alternatives(Among(done, D), "default") \in Seq(Now)
        BY <2>1, <4>3, AmongAssets, PricedNow DEF done
      <4>6. Alternatives(Among(done, P), "paths") \o Alternatives(Among(done, D), "default")
              \in Seq(Now)
        BY <4>5, ConcatProperties
      <4>. QED  BY <4>6, <4>4
    <3>. QED  BY <1>5, <3>1, <3>2
  <2>4. answer' \in Answer /\ OfItsLedger(answer') /\ ~Stale(answer')
    BY <1>0, <2>1, <2>3, FreshAnswers
  <2>6. TypeOK'
    BY <1>0, <2>1, <2>2, <2>4 DEF TypeOK, requestVars, ledgerVars, roundVars, clientVars
  <2>. QED  BY <2>1, <2>4, <2>6 DEF MarkedInv, OfItsLedger, Stale
<1>6. CASE Refused
  <2>1. /\ UNCHANGED <<requestVars, phase, ledgerVars, status, context, roundVars, deepens, clientVars>>
        /\ wpc' = "store" /\ answer' = ErrorAt("internal")
    BY <1>6 DEF Refused
  <2>2. TypeOK'
    <3>1. ErrorAt("internal") \in Answer
      BY <1>0, <1>13, FreshAnswers
    <3>. QED  BY <1>0, <2>1, <3>1, PlainTypes DEF TypeOK, roundVars, clientVars
  <2>3. Marked(answer')
    BY <1>0, <2>1, FreshAnswers DEF Marked
  <2>. QED  BY <2>1, <2>2, <2>3 DEF MarkedInv, Marked, OfItsLedger, Stale
<1>7. CASE Throws
  <2>1. /\ UNCHANGED <<requestVars, ledgerVars, status, context, roundVars, answer, afterClose>>
        /\ wpc' = "idle" /\ deepens' = FALSE
        /\ phase' \in {phase, "refused"} /\ received' \in {received, ErrorAt("internal")}
    BY <1>7 DEF Throws
  <2>2. TypeOK'
    <3>1. ErrorAt("internal") \in Answer
      BY <1>0, <1>13, FreshAnswers
    <3>2. received' \in Answer /\ phase' \in {"new", "creating", "open", "closed", "refused"}
      BY <1>0, <2>1, <3>1 DEF TypeOK
    <3>. QED  BY <1>0, <2>1, <3>2, PlainTypes DEF TypeOK, roundVars
  <2>. QED  BY <2>1, <2>2 DEF MarkedInv
<1>8. CASE Restore
  <2>1. /\ UNCHANGED <<requestVars, phase, ledgerVars, status, context, roundVars, deepens, clientVars>>
        /\ wpc = "restore" /\ wpc' = "store"
    BY <1>8 DEF Restore
  <2>2. OfItsLedger(answer) /\ ~Stale(answer)
    BY <2>1 DEF MarkedInv
  <2>3. CASE answer' = answer
    <3>1. TypeOK'
      BY <1>0, <2>1, <2>3, PlainTypes DEF TypeOK, roundVars, clientVars
    <3>. QED  BY <2>1, <2>2, <2>3, <3>1 DEF MarkedInv, Marked, OfItsLedger, Stale
  <2>4. CASE answer' # answer
    <3>1. /\ answer' = [answer EXCEPT !.alts = status.alts, !.warn = "revalidateFailed"]
          /\ ~answer.full /\ status.alts # << >>
      BY <1>8, <2>4 DEF Restore
    <3>2. /\ answer' \in Answer /\ Stale(answer') /\ ~answer'.full /\ answer'.alts # << >>
      BY <1>0, <3>1 DEF Answer, Stale
    <3>3. TypeOK'
      BY <1>0, <2>1, <3>2, PlainTypes DEF TypeOK, roundVars, clientVars
    <3>. QED  BY <2>1, <3>2, <3>3 DEF MarkedInv, Marked, OfItsLedger, Stale
  <2>. QED  BY <2>3, <2>4
<1>9. CASE Store
  <2>1. /\ UNCHANGED <<requestVars, phase, ledgerVars, context, roundVars, deepens, clientVars>>
        /\ wpc = "store" /\ wpc' = "push" /\ status' = answer'
    BY <1>9 DEF Store, Kept
  <2>2. PICK w \in {"none", "partial", "budget"} : answer' = Noticed(answer, w)
    BY <1>9 DEF Store
  <2>3. /\ answer' \in Answer /\ answer'.alts = answer.alts /\ answer'.at = answer.at
        /\ answer'.names = answer.names /\ answer'.full = answer.full /\ (Stale(answer') <=> Stale(answer))
    <3>1. CASE answer.error # "none" \/ answer.warn # "none"
      BY <1>0, <2>2, <3>1 DEF Noticed
    <3>2. CASE ~(answer.error # "none" \/ answer.warn # "none")
      <4>1. answer' = [answer EXCEPT !.warn = w]
        BY <2>2, <3>2 DEF Noticed
      <4>. QED  BY <1>0, <3>2, <4>1 DEF Answer, Stale
    <3>. QED  BY <3>1, <3>2
  <2>4. TypeOK'
    BY <1>0, <2>1, <2>3, PlainTypes DEF TypeOK, roundVars, clientVars
  <2>5. Marked(answer')
    BY <2>1, <2>3 DEF MarkedInv, Marked, OfItsLedger
  <2>. QED  BY <2>1, <2>4, <2>5 DEF MarkedInv, Marked, OfItsLedger, Stale
<1>10. CASE Push
  <2>1. /\ UNCHANGED <<requestVars, ledgerVars, status, context, roundVars>>
        /\ wpc' = "idle" /\ deepens' = FALSE /\ received' = answer /\ answer' = NoAnswer
        /\ phase' \in {phase, "open"} /\ afterClose' \in {afterClose, afterClose + 1}
    BY <1>10 DEF Push
  <2>2. TypeOK'
    <3>1. NoAnswer \in Answer /\ afterClose' \in Nat
          /\ phase' \in {"new", "creating", "open", "closed", "refused"}
      BY <1>0, <2>1, FreshAnswers DEF TypeOK
    <3>. QED  BY <1>0, <2>1, <3>1, PlainTypes DEF TypeOK, roundVars
  <2>. QED  BY <2>1, <2>2 DEF MarkedInv
<1>11. CASE Close \/ Status
  <2>1. /\ UNCHANGED <<requestVars, ledgerVars, context, roundVars, workVars, afterClose>>
        /\ phase' \in {phase, "closed"} /\ received' = status'
        /\ \/ status' = [status EXCEPT !.closed = TRUE]
           \/ status' = [status EXCEPT !.success = TRUE]
    BY <1>11 DEF Close, Status
  <2>2. status' \in Answer
    BY <1>0, <2>1 DEF Answer
  <2>3. TypeOK'
    BY <1>0, <2>1, <2>2, PlainTypes DEF TypeOK, roundVars, workVars
  <2>. QED  BY <2>1, <2>3 DEF MarkedInv, Marked, OfItsLedger, Stale, workVars
<1>12. CASE UNCHANGED vars
  <2>1. TypeOK'
    BY <1>0, <1>12, PlainTypes DEF vars, TypeOK, roundVars, workVars, clientVars
  <2>. QED  BY <1>12, <2>1 DEF vars, workVars, MarkedInv, Marked, OfItsLedger, Stale
<1>. QED  BY <1>1, <1>2, <1>3, <1>4, <1>5, <1>6, <1>7, <1>8, <1>9, <1>10, <1>11, <1>12,
          <1>15 DEF Next, Update

(* StaleIsMarked: the prices of a frame are of the view whose ledger it    *)
(* names, or they come with the notice of a failed reprice, however        *)
(* updates, close, status and the ledger interleave (doUpdate,             *)
(* setClosedLedgerIdentity and setPathFindNotice in session.cpp).          *)
THEOREM OldPricesAreMarked == Spec => []StaleIsMarked
<1>1. MarkedInv => StaleIsMarked
  BY DEF MarkedInv, Marked, StaleIsMarked
<1>. QED  BY MarkedInit, MarkedStep, SessionAlways, <1>1, PTL DEF Spec

-----------------------------------------------------------------------------
(* The depth of a session's searches: PathSearch.                          *)

Bounds(lo, hi) == lo \in 0 .. MaxDepth /\ hi \in 0 .. MaxDepth /\ lo <= hi

(* The climb goes on with the age, and no further than it may. *)
LEMMA Climbs ==
  ASSUME NEW span \in 1 .. MaxDepth, NEW a \in Int, NEW b \in Int, a <= b
  PROVE  /\ Climb(span, a) \in 0 .. MaxDepth
         /\ Climb(span, a) <= Climb(span, b)
<1>1. /\ Larger(1, (span * 3) \div 4) \in 1 .. MaxDepth
      /\ Larger(1, (span * 2) \div 4) \in 1 .. MaxDepth
      /\ Larger(1, span \div 4) \in 1 .. MaxDepth
      /\ Larger(1, span \div 4) <= Larger(1, (span * 2) \div 4)
      /\ Larger(1, (span * 2) \div 4) <= Larger(1, (span * 3) \div 4)
      /\ Larger(1, (span * 3) \div 4) <= span
  <2>1. span \in {1, 2, 3, 4}
    BY DEF MaxDepth
  <2>2. /\ (1 * 3) \div 4 = 0 /\ (1 * 2) \div 4 = 0 /\ 1 \div 4 = 0
        /\ (2 * 3) \div 4 = 1 /\ (2 * 2) \div 4 = 1 /\ 2 \div 4 = 0
        /\ (3 * 3) \div 4 = 2 /\ (3 * 2) \div 4 = 1 /\ 3 \div 4 = 0
        /\ (4 * 3) \div 4 = 3 /\ (4 * 2) \div 4 = 2 /\ 4 \div 4 = 1
    BY Z3
  <2>. QED  BY <2>1, <2>2 DEF Larger, MaxDepth
<1>. DEFINE l3 == Larger(1, (span * 3) \div 4)
            l2 == Larger(1, (span * 2) \div 4)
            l1 == Larger(1, span \div 4)
<1>2. /\ l1 \in 1 .. 4 /\ l2 \in 1 .. 4 /\ l3 \in 1 .. 4 /\ l1 <= l2 /\ l2 <= l3 /\ l3 <= span
      /\ span \in 1 .. 4
  BY <1>1 DEF MaxDepth
<1>3. \A x : Climb(span, x) = IF x >= 50000 THEN span ELSE IF x >= 25000 THEN l3
                              ELSE IF x >= 12000 THEN l2 ELSE IF x >= 4000 THEN l1 ELSE 0
  BY DEF Climb
<1>. HIDE DEF l1, l2, l3
<1>. QED  BY <1>2, <1>3 DEF MaxDepth

(* What counts in a depth: it is within the bounds, grows with the age and *)
(* with the searches done, and these add to it only once the age does.     *)
LEMMA Depths ==
  ASSUME NEW lo, NEW hi, Bounds(lo, hi), NEW done \in Nat, NEW a \in Int, NEW b \in Int, a <= b
  PROVE  /\ DepthFor(FALSE, done, a, lo, hi) \in lo .. hi
         /\ DepthFor(FALSE, done, a, lo, hi) <= DepthFor(FALSE, done, b, lo, hi)
         /\ DepthFor(FALSE, 0, a, lo, hi) <= DepthFor(FALSE, done, a, lo, hi)
         /\ lo + done <= hi => lo + done <= DepthFor(FALSE, done, a, lo, hi)
         /\ lo + done <= DepthFor(FALSE, 0, a, lo, hi) =>
              DepthFor(FALSE, done, a, lo, hi) <= DepthFor(FALSE, 0, a, lo, hi)
<1>1. (lo = hi \/ hi - lo \in 1 .. MaxDepth) /\ lo \in Nat /\ hi \in Nat /\ lo <= hi
  BY DEF Bounds, MaxDepth
<1>2. lo # hi =>
      /\ Climb(hi - lo, a) \in Nat /\ Climb(hi - lo, b) \in Nat
      /\ Climb(hi - lo, a) <= Climb(hi - lo, b)
  BY <1>1, Climbs, a <= b, b <= b DEF MaxDepth
<1>3. Clamp(hi, 0, MaxDepth) = hi /\ Clamp(lo, 0, hi) = lo
  BY DEF Bounds, Clamp, MaxDepth
<1>. DEFINE At(n, c) ==
              IF lo = hi THEN hi
              ELSE Clamp(Larger(Clamp(lo + n, lo, hi), lo + c), lo, hi)
<1>4. /\ DepthFor(FALSE, done, a, lo, hi) = At(done, Climb(hi - lo, a))
      /\ DepthFor(FALSE, done, b, lo, hi) = At(done, Climb(hi - lo, b))
      /\ DepthFor(FALSE, 0, a, lo, hi) = At(0, Climb(hi - lo, a))
  BY <1>3 DEF DepthFor
<1>5. ASSUME NEW c \in Nat, NEW d \in Nat, c <= d
      PROVE  /\ At(done, c) \in lo .. hi /\ At(done, c) <= At(done, d)
             /\ At(0, c) <= At(done, c)
             /\ lo + done <= hi => lo + done <= At(done, c)
             /\ lo + done <= At(0, c) => At(done, c) <= At(0, c)
  BY <1>1, <1>5 DEF Clamp, Larger
<1>6. CASE lo = hi
  <2>1. /\ DepthFor(FALSE, done, a, lo, hi) = hi
        /\ DepthFor(FALSE, done, b, lo, hi) = hi
        /\ DepthFor(FALSE, 0, a, lo, hi) = hi
    BY <1>6, <1>4
  <2>2. lo \in Nat /\ hi \in Nat /\ lo <= hi
    BY <1>1
  <2>3. \A x, y, z : x = hi /\ y = hi /\ z = hi =>
          /\ x \in lo .. hi /\ x <= y /\ z <= x
          /\ lo + done <= hi => lo + done <= x
          /\ lo + done <= z => x <= z
    BY <2>2
  <2>. QED  BY <2>1, <2>3
<1>7. CASE lo # hi
  <2>. HIDE DEF At
  <2>. QED  BY <1>7, <1>2, <1>4, <1>5
<1>. QED  BY <1>6, <1>7

-----------------------------------------------------------------------------
(* A session is created in the past, is on the list of a round only once   *)
(* it is open, and until then has no job but its create and is at the      *)
(* least depth.                                                            *)
TimeInv == \A s \in Session : createdAt[s] <= now

VisitInv == \A s \in visits : stage[s] \in {"open", "closed"}

FreshInv ==
  \A s \in Session :
    /\ stage[s] = "new" => job[s] = NoJob
    /\ stage[s] \in {"new", "creating"} => lastDepth[s] = cfg.searchFast /\ searchesDone[s] = 0

(* Each search that was counted went a step further at least, and an       *)
(* update that deepens is due now, whenever it was found to be.            *)
Deepening(s) == job[s].at # "none" /\ job[s].deepens /\ stage[s] # "creating"

DepthOf(s) ==
  /\ cfg.searchFast <= lastDepth[s] /\ lastDepth[s] <= DueDepth(Age(s))
  /\ searchesDone[s] # 0 => cfg.searchFast + searchesDone[s] - 1 <= lastDepth[s]
  /\ Deepening(s) => lastDepth[s] < DueDepth(Age(s))

DepthInv == \A s \in Session : DepthOf(s)

SearchInv == SearchTypeOK /\ TimeInv /\ VisitInv /\ FreshInv /\ DepthInv

(* The age a visit reckons with. *)
Behind(s) == Larger(0, Age(s) - Stagger(s))

(* Depths and counts are numbers, and the configured depths in order. *)
LEMMA DepthTypes ==
  ASSUME SearchTypeOK
  PROVE  /\ Bounds(cfg.searchFast, cfg.search) /\ cfg.searchFast \in Nat /\ cfg.search \in Nat
         /\ \A s \in Session : lastDepth[s] \in Nat /\ searchesDone[s] \in Nat
<1>1. Bounds(cfg.searchFast, cfg.search) /\ 0 .. MaxDepth \subseteq Nat
  BY DEF SearchTypeOK, Bounds
<1>2. \A s \in Session : lastDepth[s] \in 0 .. MaxDepth /\ searchesDone[s] \in Nat
  BY DEF SearchTypeOK
<1>. QED  BY <1>1, <1>2 DEF Bounds

(* A session is due by its age, and by the staggered one no deeper. *)
LEMMA Dues ==
  ASSUME SearchTypeOK, TimeInv, NEW s \in Session
  PROVE  /\ Age(s) \in Nat /\ Stagger(s) \in Nat
         /\ DueDepth(Age(s)) \in cfg.searchFast .. cfg.search
         /\ DueDepth(Behind(s)) <= DueDepth(Age(s))
<1>1. Age(s) \in Nat /\ s \in Nat
  <2>1. s \in Nat /\ now \in Nat /\ createdAt[s] \in Nat
    BY SearchAssumption DEF SearchAssumption, SearchTypeOK
  <2>2. createdAt[s] <= now
    BY DEF TimeInv
  <2>. QED  BY <2>1, <2>2 DEF Age
<1>2. Stagger(s) \in Nat
  BY <1>1 DEF Stagger
<1>3. Behind(s) \in Nat /\ Behind(s) <= Age(s)
  BY <1>1, <1>2 DEF Larger, Behind
<1>4. Bounds(cfg.searchFast, cfg.search)
  BY DEF SearchTypeOK, Bounds
<1>5. \A a, b \in Int : a <= b =>
        /\ DueDepth(a) <= DueDepth(b)
        /\ DueDepth(a) \in cfg.searchFast .. cfg.search
  BY <1>4, Depths, 0 \in Nat DEF DueDepth
<1>. QED  BY <1>1, <1>2, <1>3, <1>5

(* What is due only grows. *)
LEMMA Later ==
  ASSUME SearchTypeOK, NEW a \in Int, NEW b \in Int, a <= b
  PROVE  /\ DueDepth(a) <= DueDepth(b)
         /\ DueDepth(a) \in Nat /\ DueDepth(b) \in Nat
         /\ DueDepth(b) \in cfg.searchFast .. cfg.search
<1>1. Bounds(cfg.searchFast, cfg.search) /\ b <= b
  BY DEF SearchTypeOK, Bounds
<1>2. \A x, y \in Int : x <= y =>
        /\ DueDepth(x) <= DueDepth(y)
        /\ DueDepth(x) \in cfg.searchFast .. cfg.search
  BY <1>1, Depths, 0 \in Nat DEF DueDepth
<1>3. cfg.searchFast \in Nat
  BY DEF SearchTypeOK, MaxDepth
<1>. HIDE DEF DueDepth
<1>. QED  BY <1>1, <1>2, <1>3

(* What a search stores. *)
LEMMA Stores ==
  ASSUME SearchInv, NEW s \in Session,
         job[s].at = "searching", job[s].deepens
  PROVE  /\ SearchDepth(s) \in cfg.searchFast .. cfg.search
         /\ SearchDepth(s) <= DueDepth(Age(s))
         /\ cfg.searchFast + searchesDone[s] <= SearchDepth(s)
         /\ stage[s] # "creating" => lastDepth[s] < SearchDepth(s)
<1>1. Bounds(cfg.searchFast, cfg.search) /\ searchesDone[s] \in Nat /\ lastDepth[s] \in Nat
  BY DepthTypes DEF SearchInv
<1>2. Age(s) \in Nat /\ DueDepth(Age(s)) \in cfg.searchFast .. cfg.search
  BY Dues DEF SearchInv
<1>3. /\ SearchDepth(s) \in cfg.searchFast .. cfg.search
      /\ DueDepth(Age(s)) <= SearchDepth(s)
      /\ cfg.searchFast + searchesDone[s] <= cfg.search =>
           cfg.searchFast + searchesDone[s] <= SearchDepth(s)
      /\ cfg.searchFast + searchesDone[s] <= DueDepth(Age(s)) =>
           SearchDepth(s) <= DueDepth(Age(s))
  <2>1. Age(s) \in Int /\ Age(s) <= Age(s)
    BY <1>2
  <2>. QED  BY <1>1, <2>1, Depths DEF SearchDepth, DueDepth
<1>4. cfg.searchFast + searchesDone[s] <= DueDepth(Age(s))
  <2>1. CASE stage[s] = "creating"
    BY <2>1, <1>1, <1>2 DEF SearchInv, FreshInv, Bounds
  <2>2. CASE stage[s] # "creating"
    <3>1. lastDepth[s] < DueDepth(Age(s))
      BY <2>2 DEF SearchInv, DepthInv, DepthOf, Deepening
    <3>2. CASE searchesDone[s] = 0
      BY <3>2, <1>1, <1>2 DEF Bounds
    <3>3. CASE searchesDone[s] # 0
      BY <3>1, <3>3, <1>1, <1>2 DEF SearchInv, DepthInv, DepthOf, Deepening, Bounds
    <3>. QED  BY <3>2, <3>3
  <2>. QED  BY <2>1, <2>2
<1>5. stage[s] # "creating" => lastDepth[s] < DueDepth(Age(s))
  BY DEF SearchInv, DepthInv, DepthOf, Deepening
<1>. QED  BY <1>1, <1>2, <1>3, <1>4, <1>5 DEF Bounds, MaxDepth

-----------------------------------------------------------------------------
(* The steps. *)

LEMMA SearchStarts == SearchInit => SearchInv
<1>. SUFFICES ASSUME SearchInit PROVE SearchInv
  OBVIOUS
<1>1. PICK c \in Configs : cfg = Normalized(c)
  BY DEF SearchInit
<1>2. c.search \in Int /\ c.searchFast \in Int
  BY SearchAssumption DEF SearchAssumption
<1>3. /\ Clamp(c.search, 0, MaxDepth) \in 0 .. MaxDepth
      /\ \A x \in 0 .. MaxDepth : Clamp(c.searchFast, 0, x) \in 0 .. x
  BY <1>2 DEF Clamp, MaxDepth
<1>4. /\ Bounds(cfg.searchFast, cfg.search)
      /\ cfg \in [search : 0 .. MaxDepth, searchFast : 0 .. MaxDepth]
  BY <1>1, <1>3 DEF Normalized, Bounds, MaxDepth
<1>5. SearchTypeOK
  BY <1>4, SearchAssumption
     DEF SearchInit, SearchTypeOK, SearchAssumption, NoJob, Bounds, MaxDepth
<1>6. TimeInv /\ VisitInv /\ FreshInv
  BY DEF SearchInit, TimeInv, VisitInv, FreshInv, NoJob
<1>7. ASSUME NEW s \in Session PROVE DepthOf(s)
  <2>1. cfg.searchFast <= DueDepth(Age(s))
    BY <1>4, <1>5, <1>6, Dues DEF Bounds, MaxDepth
  <2>2. lastDepth[s] = cfg.searchFast /\ searchesDone[s] = 0 /\ job[s].at = "none"
    BY DEF SearchInit, NoJob
  <2>3. cfg.searchFast <= cfg.searchFast
    BY <1>4 DEF Bounds, MaxDepth
  <2>. QED  BY <2>1, <2>2, <2>3 DEF DepthOf, Deepening
<1>. QED  BY <1>5, <1>6, <1>7 DEF SearchInv, DepthInv

(* An update that stores no depth ends, or gets as far as its search. *)
Quiet(s) ==
  \/ UpdateSkipped(s) \/ UpdateInvalid(s) \/ UpdateRefused(s)
  \/ UpdateBegin(s) \/ RepriceKnown(s)

LEMMA Quietly ==
  ASSUME SearchTypeOK, NEW s \in Session, Quiet(s)
  PROVE  /\ UNCHANGED <<cfg, now, createdAt, lastDepth, searchesDone, exists>>
         /\ UNCHANGED <<visits, deepenLeft>>
         /\ job[s].at # "none"
         /\ job' = [job EXCEPT ![s] = NoJob] \/ job' = [job EXCEPT ![s].at = "searching"]
         /\ stage' = stage \/ \E p \in {"open", "closed"} : stage' = [stage EXCEPT ![s] = p]
         /\ stage[s] = "creating" /\ job' = [job EXCEPT ![s].at = "searching"] => stage' = stage
         /\ reply' \in [Session -> {"none", "answer", "invalid", "internal", "thrown"}]
<1>1. CASE UpdateSkipped(s)
  BY <1>1 DEF UpdateSkipped, SearchTypeOK, sessionVars, visitVars
<1>2. CASE UpdateBegin(s)
  BY <1>2 DEF UpdateBegin, SearchTypeOK, sessionVars, visitVars
<1>3. ASSUME NEW said \in {"answer", "invalid", "internal"}, NEW valid \in BOOLEAN,
             Concludes(s, said, valid)
      PROVE  /\ job' = [job EXCEPT ![s] = NoJob]
             /\ stage' = stage \/ \E p \in {"open", "closed"} : stage' = [stage EXCEPT ![s] = p]
             /\ reply' \in [Session -> {"none", "answer", "invalid", "internal", "thrown"}]
             /\ UNCHANGED <<cfg, now, createdAt, exists, visits, deepenLeft>>
  BY <1>3 DEF Concludes, SearchTypeOK, visitVars
<1>4. CASE UpdateInvalid(s) \/ UpdateRefused(s) \/ RepriceKnown(s)
  <2>1. /\ job[s].at # "none" /\ UNCHANGED <<lastDepth, searchesDone>>
        /\ \/ Concludes(s, "invalid", FALSE)
           \/ Concludes(s, "internal", TRUE)
           \/ Concludes(s, "answer", TRUE)
    BY <1>4 DEF UpdateInvalid, UpdateRefused, RepriceKnown
  <2>2. /\ job' = [job EXCEPT ![s] = NoJob]
        /\ stage' = stage \/ \E p \in {"open", "closed"} : stage' = [stage EXCEPT ![s] = p]
        /\ reply' \in [Session -> {"none", "answer", "invalid", "internal", "thrown"}]
        /\ UNCHANGED <<cfg, now, createdAt, exists, visits, deepenLeft>>
    BY <1>3, <2>1
  <2>3. job' # [job EXCEPT ![s].at = "searching"]
    BY <2>2 DEF NoJob, SearchTypeOK
  <2>. QED  BY <2>1, <2>2, <2>3
<1>. QED  BY <1>1, <1>2, <1>4 DEF Quiet

(* A search that is through, or has thrown, stored the depth it began at. *)
Searched(s) == RunSearch(s) \/ SearchThrows(s)

LEMMA Stored ==
  ASSUME SearchTypeOK, NEW s \in Session, Searched(s)
  PROVE  /\ UNCHANGED <<cfg, now, createdAt, exists, visits, deepenLeft>>
         /\ job[s].at = "searching" /\ job[s].deepens
         /\ job' = [job EXCEPT ![s] = NoJob]
         /\ \/ stage' = stage /\ stage[s] # "creating"
            \/ \E p \in {"open", "closed"} : stage' = [stage EXCEPT ![s] = p]
         /\ reply' \in [Session -> {"none", "answer", "invalid", "internal", "thrown"}]
         /\ lastDepth' = [lastDepth EXCEPT ![s] = SearchDepth(s)]
         /\ \/ searchesDone' = searchesDone
            \/ searchesDone' = [searchesDone EXCEPT ![s] = searchesDone[s] + 1]
<1>. HIDE DEF SearchDepth
<1>. QED  BY DEF Searched, RunSearch, SearchThrows, Searches, Concludes,
             SearchTypeOK, visitVars

(* What a job is. *)
JobType == [at : {"none", "queued", "searching"}, deepens : BOOLEAN]

LEMMA StepTypes ==
  ASSUME SearchInv, [SearchNext]_searchVars PROVE SearchTypeOK'
<1>. USE DEF SearchTypeOK, sessionVars, visitVars
<1>0. SearchTypeOK /\ job \in [Session -> JobType] /\ NoJob \in JobType
  BY DEF SearchInv, JobType, NoJob
<1>1. CASE Advance
  BY <1>0, <1>1 DEF Advance
<1>2. CASE BeginRound
  BY <1>0, <1>2, SearchAssumption DEF BeginRound, Open, SearchAssumption
<1>3. ASSUME NEW s \in Session, VisitSession(s) PROVE SearchTypeOK'
  <2>1. MayDeepen(s) \in BOOLEAN /\ (MayDeepen(s) => deepenLeft > 0)
    BY DEF MayDeepen, ShouldDeepen
  <2>. HIDE DEF MayDeepen
  <2>2. deepenLeft' \in 0 .. DeepenPerRound /\ job' \in [Session -> JobType]
    BY <1>0, <1>3, <2>1, SearchAssumption DEF VisitSession, JobType, SearchAssumption
  <2>. QED  BY <1>0, <1>3, <2>2 DEF VisitSession, JobType
<1>4. ASSUME NEW s \in Session, CreateSession(s) PROVE SearchTypeOK'
  <2>1. job' \in [Session -> JobType]
    BY <1>0, <1>4 DEF CreateSession, JobType
  <2>. QED  BY <1>0, <1>4, <2>1 DEF CreateSession, JobType
<1>5. ASSUME NEW s \in Session, CloseSession(s) \/ AccountDeleted(s) PROVE SearchTypeOK'
  BY <1>0, <1>5 DEF CloseSession, AccountDeleted
<1>6. ASSUME NEW s \in Session, Quiet(s) PROVE SearchTypeOK'
  <2>1. job' \in [Session -> JobType]
    <3>1. [job[s] EXCEPT !.at = "searching"] \in JobType
      BY <1>0 DEF JobType
    <3>2. job' = [job EXCEPT ![s] = NoJob] \/ job' = [job EXCEPT ![s].at = "searching"]
      BY <1>0, <1>6, Quietly
    <3>. HIDE DEF SearchTypeOK
    <3>. QED  BY <1>0, <3>1, <3>2
  <2>2. stage' \in [Session -> {"new", "creating", "open", "closed"}]
    BY <1>0, <1>6, Quietly
  <2>. QED  BY <1>0, <1>6, <2>1, <2>2, Quietly DEF JobType
<1>7. ASSUME NEW s \in Session, Searched(s) PROVE SearchTypeOK'
  <2>1. SearchDepth(s) \in 0 .. MaxDepth
    <3>1. SearchDepth(s) \in cfg.searchFast .. cfg.search
      BY <1>0, <1>7, Stored, Stores
    <3>2. Bounds(cfg.searchFast, cfg.search)
      BY <1>0, DepthTypes
    <3>. HIDE DEF SearchDepth, SearchTypeOK
    <3>. QED  BY <3>1, <3>2 DEF Bounds, MaxDepth
  <2>. HIDE DEF SearchDepth
  <2>2. lastDepth' \in [Session -> 0 .. MaxDepth] /\ searchesDone' \in [Session -> Nat]
    <3>1. lastDepth \in [Session -> 0 .. MaxDepth] /\ searchesDone \in [Session -> Nat]
      BY <1>0
    <3>2. lastDepth' = [lastDepth EXCEPT ![s] = SearchDepth(s)]
      BY <1>0, <1>7, Stored
    <3>3. \/ searchesDone' = searchesDone
          \/ searchesDone' = [searchesDone EXCEPT ![s] = searchesDone[s] + 1]
      BY <1>0, <1>7, Stored
    <3>. HIDE DEF SearchTypeOK
    <3>. QED  BY <2>1, <3>1, <3>2, <3>3
  <2>3. /\ job' \in [Session -> JobType]
        /\ stage' \in [Session -> {"new", "creating", "open", "closed"}]
    <3>1. /\ job' = [job EXCEPT ![s] = NoJob]
          /\ \/ stage' = stage
             \/ \E p \in {"open", "closed"} : stage' = [stage EXCEPT ![s] = p]
      BY <1>0, <1>7, Stored
    <3>2. stage \in [Session -> {"new", "creating", "open", "closed"}]
      BY <1>0
    <3>. HIDE DEF SearchTypeOK
    <3>. QED  BY <1>0, <3>1, <3>2
  <2>4. /\ UNCHANGED <<cfg, now, createdAt, exists, visits, deepenLeft>>
        /\ reply' \in [Session -> {"none", "answer", "invalid", "internal", "thrown"}]
    BY <1>0, <1>7, Stored
  <2>. QED  BY <1>0, <2>2, <2>3, <2>4 DEF JobType
<1>8. CASE UNCHANGED searchVars
  BY <1>0, <1>8 DEF searchVars
<1>. QED  BY <1>1, <1>2, <1>3, <1>4, <1>5, <1>6, <1>7, <1>8
             DEF SearchNext, Round, UpdateOf, Quiet, Searched

LEMMA StepPhases ==
  ASSUME SearchInv, [SearchNext]_searchVars
  PROVE  TimeInv' /\ VisitInv' /\ FreshInv'
<1>. USE DEF sessionVars, visitVars
<1>0. SearchTypeOK /\ TimeInv /\ VisitInv /\ FreshInv
  BY DEF SearchInv
<1>1. CASE Advance
  <2>1. now \in Nat /\ now' \in Nat /\ now < now' /\ \A s \in Session : createdAt[s] \in Nat
    BY <1>0, <1>1, SearchAssumption DEF Advance, SearchTypeOK, SearchAssumption
  <2>2. TimeInv'
    BY <1>0, <1>1, <2>1 DEF Advance, TimeInv
  <2>3. VisitInv' /\ FreshInv'
    BY <1>0, <1>1 DEF Advance, VisitInv, FreshInv
  <2>. QED  BY <2>2, <2>3
<1>2. CASE BeginRound
  BY <1>0, <1>2 DEF BeginRound, Open, TimeInv, VisitInv, FreshInv
<1>3. ASSUME NEW s \in Session, VisitSession(s) PROVE TimeInv' /\ VisitInv' /\ FreshInv'
  BY <1>0, <1>3 DEF VisitSession, TimeInv, VisitInv, FreshInv, SearchTypeOK
<1>4. ASSUME NEW s \in Session, CreateSession(s) PROVE TimeInv' /\ VisitInv' /\ FreshInv'
  <2>1. TimeInv'
    BY <1>0, <1>4, SearchAssumption DEF CreateSession, TimeInv, SearchTypeOK, SearchAssumption
  <2>. QED  BY <1>0, <1>4, <2>1 DEF CreateSession, VisitInv, FreshInv, SearchTypeOK
<1>5. ASSUME NEW s \in Session, CloseSession(s) \/ AccountDeleted(s)
      PROVE  TimeInv' /\ VisitInv' /\ FreshInv'
  <2>1. TimeInv'
    BY <1>0, <1>5 DEF CloseSession, AccountDeleted, TimeInv
  <2>2. /\ UNCHANGED <<cfg, lastDepth, searchesDone, job, visits>>
        /\ stage' \in {stage, [stage EXCEPT ![s] = "closed"]}
        /\ stage' = stage \/ stage[s] = "open"
    BY <1>5 DEF CloseSession, AccountDeleted
  <2>3. DOMAIN stage = Session /\ visits \subseteq Session
    BY <1>0 DEF SearchTypeOK
  <2>4. VisitInv'
    BY <1>0, <2>2, <2>3 DEF VisitInv
  <2>5. FreshInv'
    BY <1>0, <2>2, <2>3 DEF FreshInv
  <2>. QED  BY <2>1, <2>4, <2>5
<1>6. ASSUME NEW s \in Session, Quiet(s) \/ Searched(s)
      PROVE  TimeInv' /\ VisitInv' /\ FreshInv'
  <2>1. stage[s] # "new"
    <3>1. job[s].at # "none"
      BY <1>0, <1>6, Quietly, Stored
    <3>. QED  BY <1>0, <3>1 DEF FreshInv, NoJob
  <2>2. /\ UNCHANGED <<cfg, now, createdAt, visits>>
        /\ stage'[s] = stage[s] \/ stage'[s] \in {"open", "closed"}
        /\ stage'[s] = "creating" => lastDepth' = lastDepth /\ searchesDone' = searchesDone
        /\ \A r \in Session \ {s} :
             /\ job'[r] = job[r] /\ stage'[r] = stage[r]
             /\ lastDepth'[r] = lastDepth[r] /\ searchesDone'[r] = searchesDone[r]
    <3>. HIDE DEF SearchDepth
    <3>1. CASE Quiet(s)
      BY <1>0, <3>1, Quietly DEF SearchTypeOK
    <3>2. CASE Searched(s)
      BY <1>0, <3>2, Stored DEF SearchTypeOK
    <3>. QED  BY <1>6, <3>1, <3>2
  <2>3. TimeInv'
    BY <1>0, <2>2 DEF TimeInv
  <2>4. VisitInv'
    <3>1. visits \subseteq Session
      BY <1>0 DEF SearchTypeOK
    <3>. QED  BY <1>0, <2>2, <3>1 DEF VisitInv
  <2>5. FreshInv'
    <3>. SUFFICES ASSUME NEW r \in Session
                  PROVE  /\ stage'[r] = "new" => job'[r] = NoJob
                         /\ stage'[r] \in {"new", "creating"} =>
                              lastDepth'[r] = cfg'.searchFast /\ searchesDone'[r] = 0
      BY DEF FreshInv
    <3>1. CASE r = s
      BY <1>0, <2>1, <2>2, <3>1 DEF FreshInv
    <3>2. CASE r # s
      BY <1>0, <2>2, <3>2 DEF FreshInv
    <3>. QED  BY <3>1, <3>2
  <2>. QED  BY <2>3, <2>4, <2>5
<1>7. CASE UNCHANGED searchVars
  BY <1>0, <1>7 DEF searchVars, TimeInv, VisitInv, FreshInv
<1>. QED  BY <1>1, <1>2, <1>3, <1>4, <1>5, <1>6, <1>7
             DEF SearchNext, Round, UpdateOf, Quiet, Searched

(* A step that stores no depth: what is due only grows with the age. *)
LEMMA DepthKept ==
  ASSUME SearchInv, SearchTypeOK', NEW s \in Session,
         cfg' = cfg, now <= now',
         createdAt'[s] = createdAt[s], lastDepth'[s] = lastDepth[s],
         searchesDone'[s] = searchesDone[s],
         Deepening(s)' => Deepening(s) \/ lastDepth[s] < DueDepth(Age(s))
  PROVE  DepthOf(s)'
<1>0. SearchTypeOK
  BY DEF SearchInv
<1>1. /\ now \in Nat /\ now' \in Nat /\ createdAt[s] \in Nat /\ lastDepth[s] \in Nat
      /\ cfg.searchFast \in Nat /\ searchesDone[s] \in Nat
  <2>1. now \in Instants /\ now' \in Instants /\ createdAt[s] \in Instants
    BY <1>0 DEF SearchTypeOK
  <2>2. lastDepth[s] \in Nat /\ cfg.searchFast \in Nat /\ searchesDone[s] \in Nat
    BY <1>0, DepthTypes
  <2>. QED  BY <2>1, <2>2, SearchAssumption DEF SearchAssumption
<1>2. Age(s) \in Int /\ Age(s)' \in Int /\ Age(s) <= Age(s)'
  BY <1>1 DEF Age
<1>3. /\ DueDepth(Age(s)) <= DueDepth(Age(s)')
      /\ DueDepth(Age(s)') \in Nat /\ DueDepth(Age(s)) \in Nat
  <2>. DEFINE a == Age(s)
              b == Age(s)'
  <2>1. a \in Int /\ b \in Int /\ a <= b
    BY <1>2
  <2>. HIDE DEF a, b
  <2>2. /\ DueDepth(a) <= DueDepth(b)
        /\ DueDepth(b) \in Nat /\ DueDepth(a) \in Nat
    BY <1>0, <2>1, Later
  <2>. QED  BY <2>2 DEF a, b
<1>4. DueDepth(Age(s))' = DueDepth(Age(s)')
  BY DEF DueDepth
<1>5. DepthOf(s)
  BY DEF SearchInv, DepthInv
<1>6. cfg.searchFast <= lastDepth[s] /\ lastDepth[s] <= DueDepth(Age(s))'
  BY <1>1, <1>3, <1>4, <1>5 DEF DepthOf
<1>7. Deepening(s)' => lastDepth[s] < DueDepth(Age(s))'
  BY <1>1, <1>3, <1>4, <1>5 DEF DepthOf
<1>. QED  BY <1>5, <1>6, <1>7 DEF DepthOf

LEMMA StepDepths ==
  ASSUME SearchInv, [SearchNext]_searchVars, NEW r \in Session
  PROVE  DepthOf(r)'
<1>. USE DEF sessionVars, visitVars
<1>0. SearchTypeOK /\ SearchTypeOK' /\ now \in Int /\ now <= now
  BY StepTypes, SearchAssumption DEF SearchInv, SearchTypeOK, SearchAssumption
<1>1. CASE Advance
  <2>1. now <= now' /\ (Deepening(r)' => Deepening(r))
    BY <1>0, <1>1, SearchAssumption DEF Advance, Deepening, SearchTypeOK, SearchAssumption
  <2>. QED  BY <1>0, <1>1, <2>1, DepthKept DEF Advance
<1>2. CASE BeginRound
  BY <1>0, <1>2, DepthKept DEF BeginRound, Deepening
<1>3. ASSUME NEW s \in Session, VisitSession(s) PROVE DepthOf(r)'
  <2>1. Deepening(r)' => Deepening(r) \/ lastDepth[r] < DueDepth(Age(r))
    <3>1. CASE r # s \/ job[s].at # "none"
      BY <1>0, <1>3, <3>1 DEF VisitSession, Deepening, SearchTypeOK
    <3>2. CASE r = s /\ job[s].at = "none"
      <4>1. Deepening(r)' => ShouldDeepen(r)
        <5>1. job'[r] = [at |-> "queued", deepens |-> MayDeepen(r)]
          BY <1>0, <1>3, <3>2 DEF VisitSession, SearchTypeOK
        <5>2. job'[r].deepens = MayDeepen(r)
          BY <5>1
        <5>. QED  BY <5>2, Zenon DEF Deepening, MayDeepen
      <4>2. /\ lastDepth[r] \in Int /\ cfg.searchFast \in Int /\ cfg.search \in Int
            /\ DueDepth(Age(r)) \in Int
            /\ DueDepth(Behind(r)) \in Int
            /\ DueDepth(Behind(r)) <= DueDepth(Age(r))
        <5>1. lastDepth[r] \in Int /\ cfg.searchFast \in Int /\ cfg.search \in Int
          BY <1>0, DepthTypes
        <5>2. Age(r) \in Int /\ Behind(r) \in Int
          BY <1>0, Dues DEF SearchInv, Larger, Behind
        <5>3. /\ DueDepth(Age(r)) \in Nat /\ Age(r) <= Age(r)
              /\ Behind(r) <= Behind(r)
              /\ DueDepth(Behind(r)) \in Nat
          BY <1>0, <5>2, Later
        <5>. QED  BY <1>0, <5>1, <5>3, Dues DEF SearchInv
      <4>. QED  BY <4>1, <4>2 DEF ShouldDeepen, Behind
    <3>. QED  BY <3>1, <3>2
  <2>. QED  BY <1>0, <1>3, <2>1, DepthKept DEF VisitSession
<1>4. ASSUME NEW s \in Session, CreateSession(s) PROVE DepthOf(r)'
  <2>1. CASE r # s
    BY <1>0, <1>4, <2>1, DepthKept DEF CreateSession, Deepening, SearchTypeOK
  <2>2. CASE r = s
    <3>1. lastDepth[r] = cfg.searchFast /\ searchesDone[r] = 0
      BY <1>4, <2>2 DEF CreateSession, SearchInv, FreshInv
    <3>2. ~Deepening(r)'
      BY <1>0, <1>4, <2>2 DEF CreateSession, Deepening, SearchTypeOK
    <3>3. DueDepth(0) \in cfg.searchFast .. cfg.search
      BY <1>0, Later
    <3>4. cfg' = cfg /\ cfg.searchFast \in Nat /\ cfg.search \in Nat
      BY <1>0, <1>4 DEF CreateSession, SearchTypeOK, MaxDepth
    <3>5. Age(r)' = 0
      BY <1>0, <1>4, <2>2 DEF CreateSession, Age, SearchTypeOK
    <3>6. DueDepth(Age(r))' = DueDepth(0)
      BY <3>4, <3>5 DEF DueDepth
    <3>. QED  BY <1>4, <3>1, <3>2, <3>3, <3>4, <3>6 DEF CreateSession, DepthOf
  <2>. QED  BY <2>1, <2>2
<1>5. ASSUME NEW s \in Session, CloseSession(s) \/ AccountDeleted(s) PROVE DepthOf(r)'
  <2>1. Deepening(r)' => Deepening(r)
    BY <1>0, <1>5 DEF CloseSession, AccountDeleted, Deepening, SearchTypeOK
  <2>. QED  BY <1>0, <1>5, <2>1, DepthKept DEF CloseSession, AccountDeleted
<1>6. ASSUME NEW s \in Session, Quiet(s) PROVE DepthOf(r)'
  <2>1. Deepening(r)' => Deepening(r)
    <3>1. CASE r # s
      <4>1. job'[r] = job[r] /\ stage'[r] = stage[r]
        <5>1. DOMAIN job = Session /\ DOMAIN stage = Session
          BY <1>0 DEF SearchTypeOK
        <5>2. job'[r] = job[r]
          BY <1>0, <1>6, <3>1, <5>1, Quietly
        <5>3. stage'[r] = stage[r]
          BY <1>0, <1>6, <3>1, <5>1, Quietly
        <5>. QED  BY <5>2, <5>3
      <4>. QED  BY <4>1 DEF Deepening
    <3>2. CASE r = s /\ job' = [job EXCEPT ![s] = NoJob]
      BY <1>0, <3>2 DEF NoJob, Deepening, SearchTypeOK
    <3>3. CASE r = s /\ job' = [job EXCEPT ![s].at = "searching"]
      <4>1. job'[r].deepens = job[r].deepens /\ job[r].at # "none"
        <5>1. job[r].at # "none"
          BY <1>0, <1>6, <3>3, Quietly
        <5>2. job \in [Session -> JobType]
          BY <1>0 DEF SearchTypeOK, JobType
        <5>. QED  BY <3>3, <5>1, <5>2 DEF JobType
      <4>2. stage[r] = "creating" => stage'[r] = "creating"
        BY <1>0, <1>6, <3>3, Quietly
      <4>. QED  BY <4>1, <4>2 DEF Deepening
    <3>. QED  BY <1>0, <1>6, <3>1, <3>2, <3>3, Quietly
  <2>2. cfg' = cfg /\ now' = now /\ UNCHANGED <<createdAt, lastDepth, searchesDone>>
    BY <1>0, <1>6, Quietly
  <2>. QED  BY <1>0, <2>1, <2>2, DepthKept
<1>7. ASSUME NEW s \in Session, Searched(s) PROVE DepthOf(r)'
  <2>. HIDE DEF SearchDepth
  <2>1. CASE r # s
    <3>0. r \in DOMAIN job /\ r \in DOMAIN stage /\ r \in DOMAIN lastDepth
          /\ r \in DOMAIN searchesDone
      BY <1>0 DEF SearchTypeOK
    <3>1. Deepening(r)' => Deepening(r)
      BY <1>0, <1>7, <2>1, <3>0, Stored DEF Deepening
    <3>2. /\ cfg' = cfg /\ now' = now /\ createdAt'[r] = createdAt[r]
          /\ lastDepth'[r] = lastDepth[r] /\ searchesDone'[r] = searchesDone[r]
      BY <1>0, <1>7, <2>1, <3>0, Stored
    <3>. QED  BY <1>0, <3>1, <3>2, DepthKept
  <2>2. CASE r = s
    <3>1. /\ SearchDepth(r) \in cfg.searchFast .. cfg.search
          /\ SearchDepth(r) <= DueDepth(Age(r))
          /\ cfg.searchFast + searchesDone[r] <= SearchDepth(r)
      BY <1>0, <1>7, <2>2, Stored, Stores
    <3>2. /\ lastDepth'[r] = SearchDepth(r) /\ ~Deepening(r)'
          /\ searchesDone'[r] \in {searchesDone[r], searchesDone[r] + 1}
      BY <1>0, <1>7, <2>2, Stored DEF NoJob, Deepening, SearchTypeOK
    <3>3. /\ searchesDone[r] \in Nat /\ cfg.searchFast \in Nat /\ cfg.search \in Nat
          /\ cfg' = cfg /\ now' = now /\ createdAt' = createdAt
      BY <1>0, <1>7, Stored, DepthTypes
    <3>4. DueDepth(Age(r))' = DueDepth(Age(r))
      BY <3>3 DEF DueDepth, Age
    <3>5. /\ cfg'.searchFast <= lastDepth'[r] /\ lastDepth'[r] <= DueDepth(Age(r))'
          /\ cfg'.searchFast + searchesDone'[r] - 1 <= lastDepth'[r]
      BY <3>1, <3>2, <3>3, <3>4
    <3>. QED  BY <3>2, <3>5 DEF DepthOf
  <2>. QED  BY <2>1, <2>2
<1>8. CASE UNCHANGED searchVars
  <2>1. Deepening(r)' => Deepening(r)
    BY <1>8 DEF searchVars, Deepening
  <2>. QED  BY <1>0, <1>8, <2>1, DepthKept DEF searchVars
<1>. QED  BY <1>1, <1>2, <1>3, <1>4, <1>5, <1>6, <1>7, <1>8
          DEF SearchNext, Round, UpdateOf, Quiet, Searched

LEMMA SearchAlways == SearchSpec => []SearchInv
<1>1. SearchInv /\ [SearchNext]_searchVars => SearchInv'
  <2>. SUFFICES ASSUME SearchInv, [SearchNext]_searchVars PROVE SearchInv'
    OBVIOUS
  <2>. QED  BY StepTypes, StepPhases, StepDepths DEF SearchInv, DepthInv
<1>. QED  BY SearchStarts, <1>1, PTL DEF SearchSpec

(* No session searches deeper than its age allows, whatever the clock, the  *)
(* configuration, the ids and the order of rounds and updates: an update   *)
(* that deepens is one whose session was due by an even smaller age, so    *)
(* the searches it has had cannot carry it past what is due.               *)
THEOREM SearchesOnSchedule == SearchSpec => []OnSchedule
<1>1. SearchInv => OnSchedule
  BY DEF SearchInv, DepthInv, DepthOf, OnSchedule
<1>. QED  BY SearchAlways, <1>1, PTL

(* A search of an open session goes deeper than the one before. *)
THEOREM SearchesGoDeeper == SearchSpec => EachSearchDeeper
<1>1. SearchInv /\ [SearchNext]_searchVars =>
        [\A s \in Session : stage[s] = "open" /\ searchesDone'[s] # searchesDone[s]
           => lastDepth'[s] > lastDepth[s]]_searchVars
  <2>. SUFFICES ASSUME SearchInv, SearchNext, NEW s \in Session,
                       stage[s] = "open", searchesDone'[s] # searchesDone[s]
                PROVE  lastDepth'[s] > lastDepth[s]
    OBVIOUS
  <2>0. SearchTypeOK
    BY DEF SearchInv
  <2>1. PICK r \in Session : Searched(r)
    <3>1. ASSUME NEW r \in Session, Quiet(r) PROVE FALSE
      BY <2>0, <3>1, Quietly
    <3>. QED  BY <3>1
                 DEF SearchNext, Round, BeginRound, VisitSession, Advance,
                     CreateSession, CloseSession, AccountDeleted,
                     UpdateOf, Quiet, Searched, sessionVars
  <2>2. SearchTypeOK /\ lastDepth[s] \in Int /\ cfg.searchFast \in Int /\ cfg.search \in Int
    BY DEF SearchInv, SearchTypeOK, MaxDepth
  <2>3. r = s
    BY <2>1, <2>2, Stored DEF SearchTypeOK
  <2>. HIDE DEF SearchDepth
  <2>4. /\ SearchDepth(s) \in cfg.searchFast .. cfg.search
        /\ lastDepth[s] < SearchDepth(s)
    BY <2>1, <2>2, <2>3, Stored, Stores
  <2>5. lastDepth'[s] = SearchDepth(s)
    BY <2>1, <2>2, <2>3, Stored DEF SearchTypeOK
  <2>. QED  BY <2>2, <2>4, <2>5
<1>. QED  BY SearchAlways, <1>1, PTL
             DEF SearchSpec, EachSearchDeeper

-----------------------------------------------------------------------------
(* Candidates: FastPathFinder.  What it does at every stage is to hand      *)
(* paths to addPath; the invariant says of each part of its state that the *)
(* paths in it lead over books that were there.                            *)

(* A book that takes a, or what a is looked up by, and gives b. *)
Bought(a, b) == \E x \in Asset : Keyed(x, a) /\ <<x, b>> \in everBooks

Before(p, i) == IF i = 1 THEN src ELSE p[i - 1]

Way(p) == p \in Seq(Asset) /\ WalkOver(everBooks, p) /\ (Simple(p) \/ NativeLoop(p))

(* The beginning of a walk: it has not passed an asset twice or come back. *)
Begun(h) ==
  /\ h \in Seq(Asset) /\ IsInjective(h)
  /\ \A i \in DOMAIN h : ~Same(h[i], src) /\ Bought(Before(h, i), h[i])

Sought ==
  /\ src \in Asset /\ dst \in Asset /\ src # dst /\ domain \in BOOLEAN
  /\ budget \in Budgets /\ extra \in Extras

WorldOK ==
  /\ books \subseteq everBooks /\ everBooks \subseteq Asset \X Asset
  /\ churned \in 0 .. ChurnBound

PairsOK == IsFiniteSet(pairs) /\ \A p \in pairs : Way(p)

Found ==
  /\ candidates \in Seq(Seq(Asset)) /\ Len(candidates) <= MaxCandidates
  /\ \A p \in ToSet(candidates) \ ToSet(extra) : Way(p) /\ Len(p) <= MaxPathLength

WalkOK ==
  /\ frontier \in Seq(Seq(Asset)) /\ expanded \in 0 .. budget.expand
  /\ \A i \in DOMAIN frontier : Begun(frontier[i])

Gathering == pc \notin {"rank", "done"}

RankingOK ==
  /\ at \in 0 .. Len(candidates) /\ rankedKeys \subseteq Seq(Token)
  /\ ranks \in Seq([path : Seq(Asset), rate : Rates, index : DOMAIN candidates])
  /\ Gathering => at = 0 /\ ranks = << >>

ResultOK == paths \in Seq(Seq(Asset)) /\ discovered \in Seq(Seq(Asset))

(* What a stage has found of the book next to the native asset, before it  *)
(* lets go of the lock and asks for the others.                            *)
NextBook ==
  /\ pc = "native out" => src # Native /\ dst # Native /\ Bought(src, Native)
  /\ pc = "into native" => dst # Native /\ Bought(Native, dst)
  /\ pc = "out of native" => src # Native /\ Bought(src, Native)

FinderInv ==
  /\ Sought /\ WorldOK /\ late \in BOOLEAN /\ PairsOK /\ Found /\ WalkOK
  /\ RankingOK /\ ResultOK /\ NextBook

LEMMA FinderInvSafe == FinderInv => CandidatesAreWalks
BY DEF FinderInv, Sought, WorldOK, PairsOK, Found, WalkOK, RankingOK, ResultOK,
       CandidatesAreWalks, FinderTypeOK, Way

(* More books lose no way. *)
LEMMA WaysStay ==
  ASSUME UNCHANGED asked, everBooks \subseteq everBooks'
  PROVE  /\ Sought => Sought'
         /\ \A a, b : Bought(a, b) => Bought(a, b)'
         /\ \A p : Way(p) => Way(p)'
         /\ \A h : Begun(h) => Begun(h)'
<1>1. src' = src /\ dst' = dst /\ domain' = domain /\ budget' = budget /\ extra' = extra
  BY DEF asked
<1>2. \A x, y : Keyed(x, y)' <=> Keyed(x, y)
  BY <1>1 DEF Keyed, Same
<1>3. \A a, b : Bought(a, b) => Bought(a, b)'
  BY <1>2 DEF Bought
<1>4. ASSUME NEW p, WalkOver(everBooks, p) PROVE WalkOver(everBooks, p)'
  BY <1>1, <1>2, <1>4 DEF WalkOver
<1>5. \A p : (Simple(p) => Simple(p)') /\ (NativeLoop(p) => NativeLoop(p)')
  BY <1>1 DEF Simple, NativeLoop, Same
<1>6. \A p : Way(p) => Way(p)'
  BY <1>4, <1>5 DEF Way
<1>7. ASSUME NEW h, Begun(h) PROVE Begun(h)'
  BY <1>1, <1>3, <1>7 DEF Begun, Before, Same
<1>8. Sought => Sought'
  BY <1>1 DEF Sought
<1>. QED  BY <1>3, <1>6, <1>7, <1>8

LEMMA FinderInitInv == ASSUME FastAssumption PROVE FinderInit => FinderInv
<1>. SUFFICES ASSUME FinderInit PROVE FinderInv
  OBVIOUS
<1>1. Sought /\ WorldOK /\ late \in BOOLEAN
  <2>1. PICK e \in Ends : src = e[1] /\ dst = e[2]
    BY DEF FinderInit
  <2>2. src \in Asset /\ dst \in Asset /\ src # dst
    <3>1. Ends \subseteq {x \in Asset \X Asset : x[1] # x[2]}
      BY DEF FastAssumption
    <3>2. e \in Asset \X Asset /\ e[1] # e[2]
      BY <3>1
    <3>. QED  BY <2>1, <3>2
  <2>3. books \subseteq Asset \X Asset /\ everBooks = books /\ churned = 0 /\ ChurnBound \in Nat
    BY DEF FinderInit, FastAssumption
  <2>4. domain \in BOOLEAN /\ late = FALSE /\ budget \in Budgets /\ extra \in Extras
    BY DEF FinderInit
  <2>5. Sought
    BY <2>2, <2>4, Zenon DEF Sought
  <2>6. WorldOK
    BY <2>3 DEF WorldOK
  <2>. QED  BY <2>4, <2>5, <2>6
<1>2. PairsOK
  BY FS_EmptySet DEF FinderInit, PairsOK
<1>3. Found
  BY DEF FinderInit, FastAssumption, Found, ToSet
<1>4. WalkOK
  <2>1. frontier \in Seq(Seq(Asset)) /\ Len(frontier) = 1 /\ frontier[1] = << >>
    BY DEF FinderInit
  <2>2. budget.expand \in Nat
    BY DEF FinderInit, FastAssumption
  <2>3. Begun(<< >>)
    BY DEF Begun, IsInjective
  <2>4. \A i \in DOMAIN frontier : frontier[i] = << >>
    BY <2>1, LenProperties
  <2>. QED  BY <2>1, <2>2, <2>3, <2>4 DEF FinderInit, WalkOK
<1>5. RankingOK /\ ResultOK /\ NextBook
  BY DEF FinderInit, RankingOK, ResultOK, NextBook
<1>. QED  BY <1>1, <1>2, <1>3, <1>4, <1>5 DEF FinderInv

(* The books may change at any time of the search. *)
LEMMA WorldStep == ASSUME FastAssumption PROVE FinderInv /\ BookChange => FinderInv'
<1>. SUFFICES ASSUME FinderInv, BookChange PROVE FinderInv'
  OBVIOUS
<1>1. /\ UNCHANGED asked /\ everBooks' = everBooks \cup books'
      /\ UNCHANGED <<late, pc, pairs, candidates, frontier, expanded, at, rankedKeys, ranks,
                     paths, discovered>>
  BY DEF BookChange, walk, ranking, result
<1>2. WorldOK'
  BY DEF BookChange, FinderInv, WorldOK, FastAssumption
<1>3. /\ Sought' /\ \A a, b : Bought(a, b) => Bought(a, b)'
      /\ \A p : Way(p) => Way(p)'
      /\ \A h : Begun(h) => Begun(h)'
  <2>1. everBooks \subseteq everBooks'
    BY <1>1
  <2>. QED  BY <1>1, <2>1, WaysStay DEF FinderInv
<1>4. extra' = extra /\ src' = src /\ dst' = dst /\ budget' = budget
  BY <1>1 DEF asked
<1>5. PairsOK'
  BY <1>1, <1>3 DEF FinderInv, PairsOK
<1>6. Found'
  BY <1>1, <1>3, <1>4 DEF FinderInv, Found
<1>7. WalkOK'
  BY <1>1, <1>3, <1>4 DEF FinderInv, WalkOK
<1>8. RankingOK' /\ ResultOK' /\ (late \in BOOLEAN)'
  BY <1>1 DEF FinderInv, RankingOK, ResultOK, Gathering
<1>9. NextBook'
  BY <1>1, <1>3, <1>4 DEF FinderInv, NextBook
<1>. QED  BY <1>2, <1>3, <1>5, <1>6, <1>7, <1>8, <1>9 DEF FinderInv

(* addPath leaves what is there as it is, and adds the path unless it is   *)
(* empty, too long, there already or one too many.                         *)
Adds(r, q, p) ==
  /\ r \in Seq(Seq(Asset)) /\ Len(q) \in Nat /\ Len(r) \in Nat /\ Len(q) <= Len(r)
  /\ \A i \in 1 .. Len(q) : i \in 1 .. Len(r) /\ r[i] = q[i]
  /\ \A i \in 1 .. Len(r) :
       \/ i \in 1 .. Len(q)
       \/ i > Len(q) /\ r[i] = p /\ Len(p) <= MaxPathLength /\ Len(q) < MaxCandidates
  /\ Len(q) <= MaxCandidates => Len(r) <= MaxCandidates
  /\ p # << >> /\ Len(p) <= MaxPathLength /\ Len(r) < MaxCandidates => Contains(r, p)

LEMMA AddsOne ==
  ASSUME FastAssumption, NEW q \in Seq(Seq(Asset)), NEW p \in Seq(Asset)
  PROVE  Adds(AddPath(q, p), q, p)
<1>. DEFINE r == AddPath(q, p)
            out == \/ p = << >> \/ Len(p) > MaxPathLength
                   \/ Len(q) >= MaxCandidates \/ Contains(q, p)
<1>1. Len(q) \in Nat /\ Len(p) \in Nat /\ MaxCandidates \in Nat /\ MaxPathLength \in Nat
  BY LenProperties DEF FastAssumption
<1>2. CASE out
  <2>1. r = q
    BY <1>2 DEF AddPath
  <2>2. p # << >> /\ Len(p) <= MaxPathLength /\ Len(q) < MaxCandidates => Contains(q, p)
    BY <1>1, <1>2
  <2>. HIDE DEF r, out
  <2>3. Adds(r, q, p)
    BY <1>1, <2>1, <2>2 DEF Adds
  <2>. QED  BY <2>3 DEF r
<1>3. CASE ~out
  <2>1. r = Append(q, p) /\ Len(p) <= MaxPathLength /\ Len(q) < MaxCandidates
    BY <1>1, <1>3 DEF AddPath
  <2>. HIDE DEF r, out
  <2>2. /\ r \in Seq(Seq(Asset)) /\ Len(r) = Len(q) + 1
        /\ \A i \in 1 .. Len(q) : r[i] = q[i]
        /\ r[Len(q) + 1] = p
    BY <1>1, <2>1, AppendProperties
  <2>3. /\ \A i \in 1 .. Len(r) : i \in 1 .. Len(q) \/ (i > Len(q) /\ i = Len(q) + 1)
        /\ \A i \in 1 .. Len(q) : i \in 1 .. Len(r)
    BY <1>1, <2>2
  <2>4. Contains(r, p)
    <3>1. Len(q) + 1 \in 1 .. Len(r)
      BY <1>1, <2>2
    <3>. QED  BY <2>2, <3>1 DEF Contains
  <2>5. Adds(r, q, p)
    BY <1>1, <2>1, <2>2, <2>3, <2>4 DEF Adds
  <2>. QED  BY <2>5 DEF r
<1>. QED  BY <1>2, <1>3

(* The loop over the paths of s, step by step. *)
Adding(grown, c, s) ==
  /\ grown[0] = c
  /\ \A i \in 1 .. Len(s) : grown[i] = AddPath(grown[i - 1], s[i])
  /\ AddPaths(c, s) = grown[Len(s)]

LEMMA AddingSteps ==
  ASSUME FastAssumption, NEW c \in Seq(Seq(Asset)), NEW s \in Seq(Seq(Asset))
  PROVE  \E grown : Adding(grown, c, s)
                     /\ \A i \in 0 .. Len(s) : grown[i] \in Seq(Seq(Asset))
<1>. DEFINE n == Len(s)
            P(F) == F = [i \in 0 .. n |-> IF i = 0 THEN c ELSE AddPath(F[i - 1], s[i])]
            grown == CHOOSE F : P(F)
            S == Seq(Seq(Asset))
            G == [i \in 1 .. n |-> [q \in S |-> AddPath(q, s[i])]]
<1>1. n \in Nat /\ c \in S /\ \A i \in 1 .. n : s[i] \in Seq(Asset)
  BY LenProperties, ElementOfSeq
<1>2. ASSUME NEW i \in 1 .. n, NEW q \in S PROVE AddPath(q, s[i]) \in S
  BY <1>1, AddsOne DEF Adds
<1>. HIDE DEF S
<1>3. G \in [1 .. n -> [S -> S]]
  BY <1>2
<1>4. PICK f \in [0 .. n -> S] : Runs(f, c, G, n)
  <2>. HIDE DEF G, n
  <2>. QED  BY <1>1, <1>3, Iterates
<1>5. P(f)
  <2>1. f = [i \in 0 .. n |-> f[i]]
    OBVIOUS
  <2>2. ASSUME NEW i \in 0 .. n PROVE f[i] = IF i = 0 THEN c ELSE AddPath(f[i - 1], s[i])
    <3>1. CASE i = 0
      BY <1>4, <3>1 DEF Runs
    <3>2. CASE i # 0
      <4>1. i \in 1 .. n /\ i - 1 \in 0 .. n
        BY <1>1, <3>2
      <4>2. f[i] = G[i][f[i - 1]]
        BY <1>4, <4>1 DEF Runs
      <4>3. f[i - 1] \in S
        BY <4>1
      <4>. QED  BY <3>2, <4>1, <4>2, <4>3
    <3>. QED  BY <3>1, <3>2
  <2>. QED  BY <2>1, <2>2
<1>6. P(grown)
  <2>. HIDE DEF P
  <2>. QED  BY <1>5
<1>7. AddPaths(c, s) = grown[n]
  BY Zenon DEF AddPaths, grown
<1>. HIDE DEF grown
<1>8. grown[0] = c /\ \A i \in 1 .. n : grown[i] = AddPath(grown[i - 1], s[i])
  <2>1. grown[0] = c
    BY <1>1, <1>6
  <2>2. ASSUME NEW i \in 1 .. n PROVE grown[i] = AddPath(grown[i - 1], s[i])
    <3>1. i \in 0 .. n /\ i # 0
      BY <1>1
    <3>. QED  BY <1>6, <3>1
  <2>. QED  BY <2>1, <2>2
<1>9. \A i \in 0 .. n : grown[i] \in S
  <2>. DEFINE X == {i \in 0 .. n : grown[i] \in S}
  <2>. HIDE DEF n
  <2>1. 0 \in X
    <3>1. 0 \in 0 .. n
      BY <1>1
    <3>. QED  BY <1>1, <1>8, <3>1
  <2>2. ASSUME NEW i \in 1 .. n, i - 1 \in X PROVE i \in X
    <3>1. i \in 0 .. n /\ grown[i - 1] \in S
      BY <1>1, <2>2
    <3>. QED  BY <1>2, <1>8, <3>1
  <2>3. \A i \in 0 .. n : i \in X
    <3>. HIDE DEF X
    <3>. QED  BY <1>1, <2>1, <2>2, StepByStep
  <2>. QED  BY <2>3
<1>. QED  BY <1>7, <1>8, <1>9 DEF Adding, S

(* What comes out of such a loop: what was there, then some of the paths,  *)
(* none too long and no more than allowed; and unless that number is       *)
(* reached, every path that may be added is there.                         *)
Extends(d, c, m, s) ==
  /\ d \in Seq(Seq(Asset)) /\ Len(c) <= Len(d) /\ Len(d) <= MaxCandidates
  /\ \A i \in 1 .. Len(c) : d[i] = c[i]
  /\ \A i \in 1 .. Len(d) : i > Len(c) =>
       /\ Len(d[i]) <= MaxPathLength /\ Len(c) < MaxCandidates
       /\ \E k \in 1 .. m : d[i] = s[k]
  /\ Len(d) < MaxCandidates =>
       \A k \in 1 .. m : s[k] # << >> /\ Len(s[k]) <= MaxPathLength => Contains(d, s[k])

LEMMA AddsPaths ==
  ASSUME FastAssumption, NEW c \in Seq(Seq(Asset)), Len(c) <= MaxCandidates,
         NEW s \in Seq(Seq(Asset))
  PROVE  Extends(AddPaths(c, s), c, Len(s), s)
<1>. DEFINE n == Len(s)
            S == Seq(Seq(Asset))
<1>1. n \in Nat /\ \A i \in 1 .. n : s[i] \in Seq(Asset)
  BY LenProperties, ElementOfSeq
<1>2. PICK grown : Adding(grown, c, s) /\ \A i \in 0 .. n : grown[i] \in S
  BY AddingSteps
<1>. HIDE DEF n, S
<1>3. /\ grown[0] = c /\ AddPaths(c, s) = grown[n]
      /\ \A i \in 1 .. n : grown[i] = AddPath(grown[i - 1], s[i])
  BY <1>2 DEF Adding, n
<1>. DEFINE X == {m \in 0 .. n : Extends(grown[m], c, m, s)}
<1>4. 0 \in X
  <2>1. Len(c) \in Nat /\ 0 \in 0 .. n
    BY <1>1, LenProperties
  <2>2. Extends(c, c, 0, s)
    BY <2>1 DEF Extends
  <2>. QED  BY <1>3, <2>1, <2>2
<1>5. ASSUME NEW m \in 1 .. n, m - 1 \in X PROVE m \in X
  <2>. DEFINE q == grown[m - 1]
              p == s[m]
              r == grown[m]
  <2>1. /\ m \in 0 .. n /\ m - 1 \in 0 .. n /\ m \in Nat /\ m \in 1 .. m
        /\ \A k \in 1 .. m : k = m \/ k \in 1 .. m - 1
        /\ \A k \in 1 .. m - 1 : k \in 1 .. m
    BY <1>1
  <2>2. q \in Seq(Seq(Asset)) /\ p \in Seq(Asset) /\ r = AddPath(q, p)
    BY <1>1, <1>2, <1>3, <2>1 DEF S
  <2>3. Extends(q, c, m - 1, s)
    BY <1>5
  <2>. HIDE DEF q, r
  <2>4. Adds(r, q, p)
    BY <2>2, AddsOne
  <2>5. /\ Len(q) \in Nat /\ Len(r) \in Nat /\ Len(c) \in Nat /\ MaxCandidates \in Nat
        /\ Len(c) <= Len(q) /\ Len(q) <= Len(r) /\ Len(r) <= MaxCandidates
    BY <2>2, <2>3, <2>4, LenProperties DEF Extends, FastAssumption, Adds
  <2>6. ASSUME NEW i \in 1 .. Len(c) PROVE r[i] = c[i]
    <3>1. i \in 1 .. Len(q)
      BY <2>5
    <3>2. q[i] = c[i]
      BY <2>3 DEF Extends
    <3>. QED  BY <2>4, <3>1, <3>2 DEF Adds
  <2>7. ASSUME NEW i \in 1 .. Len(r), i > Len(c)
        PROVE  /\ Len(r[i]) <= MaxPathLength /\ Len(c) < MaxCandidates
               /\ \E k \in 1 .. m : r[i] = s[k]
    <3>1. CASE i \in 1 .. Len(q)
      <4>1. r[i] = q[i]
        BY <2>4, <3>1 DEF Adds
      <4>2. /\ Len(q[i]) <= MaxPathLength /\ Len(c) < MaxCandidates
            /\ \E k \in 1 .. m - 1 : q[i] = s[k]
        BY <2>3, <2>7, <3>1 DEF Extends
      <4>. QED  BY <2>1, <4>1, <4>2
    <3>2. CASE i \notin 1 .. Len(q)
      <4>1. r[i] = p /\ Len(p) <= MaxPathLength /\ Len(q) < MaxCandidates
        BY <2>4, <3>2 DEF Adds
      <4>. QED  BY <2>1, <2>5, <4>1
    <3>. QED  BY <3>1, <3>2
  <2>8. ASSUME Len(r) < MaxCandidates, NEW k \in 1 .. m,
               s[k] # << >>, Len(s[k]) <= MaxPathLength
        PROVE  Contains(r, s[k])
    <3>1. CASE k = m
      BY <2>4, <2>8, <3>1 DEF Adds
    <3>2. CASE k \in 1 .. m - 1
      <4>1. Contains(q, s[k])
        <5>1. Len(q) < MaxCandidates
          BY <2>5, <2>8
        <5>. QED  BY <2>3, <2>8, <3>2, <5>1 DEF Extends
      <4>2. PICK i \in 1 .. Len(q) : q[i] = s[k]
        BY <4>1 DEF Contains
      <4>3. i \in 1 .. Len(r) /\ r[i] = s[k]
        BY <2>4, <4>2 DEF Adds
      <4>. QED  BY <4>3 DEF Contains
    <3>. QED  BY <2>1, <3>1, <3>2
  <2>9. Extends(r, c, m, s)
    <3>1. r \in Seq(Seq(Asset)) /\ Len(c) <= Len(r)
      BY <2>4, <2>5 DEF Adds
    <3>. QED  BY <2>5, <2>6, <2>7, <2>8, <3>1 DEF Extends
  <2>. QED  BY <2>1, <2>9 DEF r
<1>6. \A i \in 0 .. n : i \in X
  <2>. HIDE DEF X
  <2>. QED  BY <1>1, <1>4, <1>5, StepByStep
<1>. QED  BY <1>1, <1>3, <1>6 DEF n

(* The candidates stay in their places, and others come behind them.       *)
Grows ==
  /\ Len(candidates) \in Nat /\ Len(candidates') \in Nat /\ Len(candidates) <= Len(candidates')
  /\ \A i \in 1 .. Len(candidates) : i \in 1 .. Len(candidates') /\ candidates'[i] = candidates[i]
  /\ \A i \in 1 .. Len(candidates') :
       \/ i \in 1 .. Len(candidates)
       \/ i > Len(candidates) /\ Len(candidates) < MaxCandidates
          /\ Len(candidates'[i]) <= MaxPathLength

LEMMA ExtendsGrows ==
  ASSUME FinderInv, NEW s, Extends(candidates', candidates, Len(s), s)
  PROVE  Grows
<1>1. Len(candidates) \in Nat /\ Len(candidates') \in Nat
  BY LenProperties DEF FinderInv, Found, Extends
<1>2. /\ \A i \in 1 .. Len(candidates) : i \in 1 .. Len(candidates')
      /\ \A i \in 1 .. Len(candidates') : i \in 1 .. Len(candidates) \/ i > Len(candidates)
  BY <1>1 DEF Extends
<1>. QED  BY <1>1, <1>2 DEF Extends, Grows

LEMMA SameGrows == ASSUME FinderInv, UNCHANGED candidates PROVE Grows
BY LenProperties DEF FinderInv, Found, Grows

(* What a stage hands to addPath, ways or paths found earlier, becomes part *)
(* of what is found.                                                       *)
LEMMA JoinsFound ==
  ASSUME FastAssumption, FinderInv, UNCHANGED <<asked, everBooks>>,
         NEW s \in Seq(Seq(Asset)),
         \A i \in 1 .. Len(s) : Way(s[i]) \/ s[i] \in ToSet(extra),
         candidates' = AddPaths(candidates, s)
  PROVE  Found' /\ Grows
<1>1. Extends(candidates', candidates, Len(s), s)
  BY AddsPaths DEF FinderInv, Found
<1>2. extra' = extra /\ \A p : Way(p) => Way(p)'
  BY WaysStay DEF asked
<1>3. /\ Len(candidates) \in Nat /\ DOMAIN candidates = 1 .. Len(candidates)
      /\ candidates' \in Seq(Seq(Asset)) /\ Len(candidates') <= MaxCandidates
      /\ DOMAIN candidates' = 1 .. Len(candidates')
  BY <1>1, LenProperties DEF FinderInv, Found, Extends
<1>4. ASSUME NEW i \in 1 .. Len(candidates'), NEW p, p = candidates'[i], p \notin ToSet(extra)
      PROVE  Way(p)' /\ Len(p) <= MaxPathLength
  <2>1. CASE i > Len(candidates)
    <3>1. Len(p) <= MaxPathLength /\ \E k \in 1 .. Len(s) : p = s[k]
      BY <1>1, <1>4, <2>1 DEF Extends
    <3>2. Way(p)
      BY <1>4, <3>1
    <3>. QED  BY <1>2, <3>1, <3>2
  <2>2. CASE ~(i > Len(candidates))
    <3>1. i \in 1 .. Len(candidates) /\ p = candidates[i]
      BY <1>1, <1>3, <1>4, <2>2 DEF Extends
    <3>2. p \in ToSet(candidates) \ ToSet(extra)
      BY <1>3, <1>4, <3>1 DEF ToSet
    <3>3. Way(p) /\ Len(p) <= MaxPathLength
      BY <3>2 DEF FinderInv, Found
    <3>. QED  BY <1>2, <3>3
  <2>. QED  BY <2>1, <2>2
<1>5. ASSUME NEW p \in ToSet(candidates') \ ToSet(extra')
      PROVE  Way(p)' /\ Len(p) <= MaxPathLength
  <2>1. PICK i \in 1 .. Len(candidates') : p = candidates'[i]
    BY <1>3 DEF ToSet
  <2>. QED  BY <1>2, <1>4, <2>1
<1>6. Grows
  BY <1>1, ExtendsGrows
<1>. QED  BY <1>3, <1>5, <1>6 DEF Found

(* Any order of a finite set is a sequence of its elements. *)
LEMMA Orders ==
  ASSUME NEW P, IsFiniteSet(P)
  PROVE  /\ \A s \in SetToSeqs(P) : s \in Seq(P)
         /\ \A s \in SetToAllKPermutations(P) : s \in Seq(P)
<1>1. ASSUME NEW Q \in SUBSET P, NEW s \in SetToSeqs(Q) PROVE s \in Seq(Q)
  <2>1. Cardinality(Q) \in Nat
    BY FS_Subset, FS_CardinalityType
  <2>2. s \in [1 .. Cardinality(Q) -> Q]
    BY DEF SetToSeqs
  <2>. QED  BY <2>1, <2>2
<1>2. ASSUME NEW s \in SetToAllKPermutations(P) PROVE s \in Seq(P)
  <2>1. PICK Q \in SUBSET P : s \in SetToSeqs(Q)
    BY DEF SetToAllKPermutations
  <2>. QED  BY <1>1, <2>1
<1>. QED  BY <1>1, <1>2

(* It has them all, each once. *)
LEMMA AllOrdered ==
  ASSUME NEW P, IsFiniteSet(P), NEW s \in SetToSeqs(P)
  PROVE  /\ Len(s) = Cardinality(P) /\ Cardinality(P) \in Nat
         /\ \A x \in P : \E i \in 1 .. Len(s) : s[i] = x
         /\ \A i, j \in 1 .. Len(s) : s[i] = s[j] => i = j
<1>. DEFINE n == Cardinality(P)
<1>1. n \in Nat
  BY FS_CardinalityType
<1>2. s \in [1 .. n -> P] /\ \A i, j \in 1 .. n : i # j => s[i] # s[j]
  BY DEF SetToSeqs
<1>3. Len(s) = n
  <2>. HIDE DEF n
  <2>1. s \in Seq(P) /\ DOMAIN s = 1 .. n
    BY <1>1, <1>2
  <2>. QED  BY <1>1, <2>1, LenProperties
<1>4. s \in Injection(1 .. n, P)
  BY <1>2 DEF Injection, IsInjective
<1>5. s \in Surjection(1 .. n, P)
  <2>1. IsFiniteSet(1 .. n) /\ Cardinality(1 .. n) = n
    BY <1>1, FS_Interval
  <2>. QED  BY <1>4, <2>1, FS_Injection
<1>6. \A x \in P : \E i \in 1 .. n : s[i] = x
  BY <1>5 DEF Surjection
<1>. QED  BY <1>1, <1>2, <1>3, <1>6

LEMMA FiniteImage ==
  ASSUME NEW M, IsFiniteSet(M), NEW f, f = [m \in M |-> f[m]]
  PROVE  IsFiniteSet({f[m] : m \in M})
<1>. DEFINE T == {f[m] : m \in M}
<1>1. f \in Surjection(M, T)
  BY DEF Surjection
<1>. HIDE DEF T
<1>2. IsFiniteSet(T)
  BY <1>1, FS_Surjection
<1>. QED  BY <1>2 DEF T

(* The last book before dst may be looked up by dst as well.               *)
Leads(a) ==
  \E x, y \in Asset : Keyed(x, a) /\ (y = dst \/ Keyed(y, dst)) /\ <<x, y>> \in everBooks

LEMMA LookedUp ==
  ASSUME WorldOK
  PROVE  /\ \A a, b : HasBook(a, b) => Bought(a, b)
         /\ \A a : HasBook(a, dst) /\ dst \in Asset => Leads(a)
         /\ \A a : Bought(a, dst) /\ dst \in Asset => Leads(a)
BY DEF WorldOK, HasBook, Bought, Leads

LEMMA MiddleAssets ==
  ASSUME FastAssumption, WorldOK, NEW a, NEW b
  PROVE  /\ \A m \in Mids(a, b) :
              /\ m \in Asset /\ Bought(a, m) /\ ~Same(m, src) /\ ~Same(m, dst)
              /\ \E y \in Asset : Keyed(y, b) /\ <<m, y>> \in everBooks
         /\ IsFiniteSet(Mids(a, b))
<1>1. ASSUME NEW m \in Mids(a, b)
      PROVE  /\ m \in Asset /\ Bought(a, m) /\ ~Same(m, src) /\ ~Same(m, dst)
             /\ \E y \in Asset : Keyed(y, b) /\ <<m, y>> \in everBooks
  <2>1. m \in Asset /\ HasBook(a, m) /\ ~Same(m, src) /\ ~Same(m, dst)
        /\ \E y \in Asset : Keyed(y, b) /\ <<m, y>> \in books
    BY DEF Mids, Intermediates, Neighbors
  <2>. QED  BY <2>1, LookedUp DEF WorldOK
<1>2. Mids(a, b) \in SUBSET Asset /\ IsFiniteSet(Asset)
  BY <1>1 DEF FastAssumption
<1>. QED  BY <1>1, <1>2, FS_Subset

(* A path is over books that were there when each of its hops is: a book   *)
(* that was asked for, or for the last hop one that leads to dst.          *)
LEMMA Hops ==
  ASSUME NEW p \in Seq(Asset), p # << >>, p[Len(p)] = dst,
         \A i \in 1 .. Len(p) :
           \/ Bought(Before(p, i), p[i])
           \/ i = Len(p) /\ i > 1 /\ Leads(p[i - 1])
  PROVE  WalkOver(everBooks, p)
<1>1. Len(p) \in Nat /\ DOMAIN p = 1 .. Len(p) /\ \A i \in DOMAIN p : p[i] \in Asset
  BY LenProperties, ElementOfSeq
<1>2. Last(p) = dst
  BY DEF Last
<1>3. ASSUME NEW i \in DOMAIN p
      PROVE  \E x, y \in Asset :
               /\ Keyed(x, IF i = 1 THEN src ELSE p[i - 1])
               /\ y = p[i] \/ (i = Len(p) /\ i > 1 /\ Keyed(y, dst))
               /\ <<x, y>> \in everBooks
  <2>1. CASE Bought(Before(p, i), p[i])
    <3>1. PICK x \in Asset : Keyed(x, Before(p, i)) /\ <<x, p[i]>> \in everBooks
      BY <2>1 DEF Bought
    <3>. QED  BY <1>1, <3>1 DEF Before
  <2>2. CASE i = Len(p) /\ i > 1 /\ Leads(p[i - 1])
    <3>1. PICK x \in Asset, y \in Asset :
            Keyed(x, p[i - 1]) /\ (y = dst \/ Keyed(y, dst)) /\ <<x, y>> \in everBooks
      BY <2>2 DEF Leads
    <3>2. i # 1
      BY <2>2
    <3>3. p[i] = dst
      BY <2>2, Zenon
    <3>. QED  BY <2>2, <3>1, <3>2, <3>3
  <2>. QED  BY <1>1, <2>1, <2>2
<1>. QED  BY <1>2, <1>3 DEF WalkOver

(* The paths of one, two and three hops. *)
LEMMA OneHop == ASSUME Sought, Bought(src, dst) PROVE Way(<<dst>>)
<1>. DEFINE p == <<dst>>
<1>1. /\ p \in Seq(Asset) /\ Len(p) = 1 /\ DOMAIN p = {1} /\ p[1] = dst
      /\ p # << >>
  BY DEF Sought
<1>. HIDE DEF p
<1>2. Simple(p)
  BY <1>1 DEF Simple, IsInjective
<1>3. WalkOver(everBooks, p)
  <2>1. Bought(Before(p, 1), p[1]) /\ \A i \in 1 .. 1 : i = 1
    BY <1>1 DEF Before
  <2>. QED  BY <1>1, <2>1, Hops
<1>4. Way(p)
  BY <1>1, <1>2, <1>3 DEF Way
<1>. QED  BY <1>4 DEF p

LEMMA TwoHops ==
  ASSUME Sought, NEW m \in Asset, m # dst, ~Same(m, src), Bought(src, m), Leads(m)
  PROVE  Way(<<m, dst>>)
<1>. DEFINE p == <<m, dst>>
<1>1. /\ p \in Seq(Asset) /\ Len(p) = 2 /\ DOMAIN p = {1, 2}
      /\ p[1] = m /\ p[2] = dst /\ p # << >>
  BY DEF Sought
<1>. HIDE DEF p
<1>2. Simple(p)
  BY <1>1 DEF Simple, IsInjective
<1>3. WalkOver(everBooks, p)
  <2>1. /\ Bought(Before(p, 1), p[1]) /\ Leads(p[2 - 1])
        /\ \A i \in 1 .. 2 : i = 1 \/ i = 2
    BY <1>1 DEF Before
  <2>. QED  BY <1>1, <2>1, Hops
<1>4. Way(p)
  BY <1>1, <1>2, <1>3 DEF Way
<1>. QED  BY <1>4 DEF p

LEMMA ThreeHops ==
  ASSUME Sought, NEW a \in Asset, NEW b \in Asset, a # b, b # dst,
         Bought(src, a), Bought(a, b), Leads(b),
         \/ Native \in {src, dst}
         \/ a # dst /\ ~Same(a, src) /\ ~Same(b, src)
  PROVE  Way(<<a, b, dst>>)
<1>. DEFINE p == <<a, b, dst>>
<1>1. /\ p \in Seq(Asset) /\ Len(p) = 3 /\ DOMAIN p = {1, 2, 3}
      /\ p[1] = a /\ p[2] = b /\ p[3] = dst /\ p # << >>
  BY DEF Sought
<1>. HIDE DEF p
<1>2. Simple(p) \/ NativeLoop(p)
  <2>1. CASE Native \in {src, dst}
    BY <1>1, <2>1 DEF NativeLoop
  <2>2. CASE a # dst /\ ~Same(a, src) /\ ~Same(b, src)
    BY <1>1, <2>2 DEF Simple, IsInjective
  <2>. QED  BY <2>1, <2>2
<1>3. WalkOver(everBooks, p)
  <2>1. Before(p, 1) = src /\ Before(p, 2) = a /\ p[3 - 1] = b
    BY <1>1 DEF Before
  <2>2. Bought(Before(p, 1), p[1]) /\ Bought(Before(p, 2), p[2]) /\ Leads(p[3 - 1])
    BY <1>1, <2>1
  <2>3. p[Len(p)] = dst
    BY <1>1
  <2>4. ASSUME NEW i \in 1 .. Len(p)
        PROVE  \/ Bought(Before(p, i), p[i])
               \/ i = Len(p) /\ i > 1 /\ Leads(p[i - 1])
    <3>1. i = 1 \/ i = 2 \/ i = 3
      BY <1>1
    <3>. QED  BY <1>1, <2>2, <3>1
  <2>. QED  BY <1>1, <2>3, <2>4, Hops
<1>4. Way(p)
  BY <1>1, <1>2, <1>3 DEF Way
<1>. QED  BY <1>4 DEF p

-----------------------------------------------------------------------------
(* One step of each stage. *)

(* A stage that only looks up a book, or hands paths to addPath, leaves    *)
(* the rest as it is.                                                      *)
LEMMA Elsewhere ==
  ASSUME FinderInv, UNCHANGED <<asked, world>>
  PROVE  /\ Sought' /\ WorldOK'
         /\ UNCHANGED pairs => PairsOK'
         /\ UNCHANGED candidates => Found'
         /\ UNCHANGED walk => WalkOK'
         /\ UNCHANGED ranking /\ Gathering /\ candidates' \in Seq(Seq(Asset)) => RankingOK'
         /\ UNCHANGED result => ResultOK'
<1>1. /\ Sought' /\ \A p : Way(p) => Way(p)'
      /\ \A h : Begun(h) => Begun(h)'
  BY WaysStay DEF FinderInv, world
<1>2. extra' = extra /\ budget' = budget
  BY DEF asked
<1>3. WorldOK'
  BY DEF FinderInv, WorldOK, world
<1>4. UNCHANGED pairs => PairsOK'
  BY <1>1 DEF FinderInv, PairsOK
<1>5. UNCHANGED candidates => Found'
  BY <1>1, <1>2 DEF FinderInv, Found
<1>6. UNCHANGED walk => WalkOK'
  BY <1>1, <1>2 DEF FinderInv, WalkOK, walk
<1>7. ASSUME UNCHANGED ranking, Gathering, candidates' \in Seq(Seq(Asset)) PROVE RankingOK'
  <2>1. at' = 0 /\ ranks' = << >> /\ rankedKeys' = rankedKeys
    BY <1>7 DEF FinderInv, RankingOK, ranking
  <2>2. Len(candidates') \in Nat
    BY <1>7, LenProperties
  <2>3. << >> \in Seq([path : Seq(Asset), rate : Rates, index : DOMAIN candidates'])
    OBVIOUS
  <2>. QED  BY <2>1, <2>2, <2>3 DEF FinderInv, RankingOK
<1>8. UNCHANGED result => ResultOK'
  BY DEF FinderInv, ResultOK, result
<1>. QED  BY <1>1, <1>3, <1>4, <1>5, <1>6, <1>7, <1>8

LEMMA DirectStep == FinderInv /\ Direct => FinderInv'
<1>. SUFFICES ASSUME FinderInv, Direct PROVE FinderInv'
  OBVIOUS
<1>1. /\ UNCHANGED <<asked, world, late, candidates, walk, ranking, result>>
      /\ pc = "pairs" /\ pc' = "native"
      /\ pairs' = IF HasBook(src, dst) THEN {<<dst>>} ELSE {}
  BY DEF Direct
<1>2. PairsOK'
  <2>1. HasBook(src, dst) => Way(<<dst>>)
    BY LookedUp, OneHop DEF FinderInv
  <2>2. \A p \in pairs' : Way(p)'
    BY <1>1, <2>1, WaysStay DEF world
  <2>3. IsFiniteSet(pairs')
    BY <1>1, FS_EmptySet, FS_Singleton
  <2>. QED  BY <2>2, <2>3 DEF PairsOK
<1>3. /\ Sought' /\ WorldOK' /\ Found' /\ WalkOK' /\ RankingOK' /\ ResultOK'
      /\ (late \in BOOLEAN)'
  BY <1>1, Elsewhere DEF Gathering, FinderInv, Found
<1>4. NextBook'
  BY <1>1 DEF NextBook
<1>. QED  BY <1>2, <1>3, <1>4 DEF FinderInv

LEMMA NativeStep ==
  ASSUME FastAssumption PROVE FinderInv /\ (ViaNativeIn \/ ViaNativeOut) => FinderInv'
<1>. SUFFICES ASSUME FinderInv, ViaNativeIn \/ ViaNativeOut PROVE FinderInv'
  OBVIOUS
<1>1. /\ UNCHANGED <<asked, world, late, candidates, walk, ranking, result>>
      /\ Gathering /\ src' = src /\ dst' = dst
  BY DEF ViaNativeIn, ViaNativeOut, Gathering, asked
<1>2. /\ Sought' /\ WorldOK' /\ Found' /\ WalkOK' /\ RankingOK' /\ ResultOK'
      /\ (late \in BOOLEAN)' /\ (UNCHANGED pairs => PairsOK')
  BY <1>1, Elsewhere DEF FinderInv, Found
<1>3. CASE ViaNativeIn
  <2>1. /\ UNCHANGED pairs
        /\ pc' = IF NeitherNative /\ HasBook(src, Native) THEN "native out" ELSE "pivots"
    BY <1>3 DEF ViaNativeIn
  <2>2. NeitherNative /\ HasBook(src, Native) => Bought(src, Native)'
    BY <1>1, LookedUp, WaysStay DEF FinderInv, world
  <2>3. NextBook'
    BY <1>1, <2>1, <2>2 DEF NextBook, NeitherNative
  <2>. QED  BY <1>2, <2>1, <2>3 DEF FinderInv
<1>4. CASE ViaNativeOut
  <2>1. /\ pc = "native out" /\ pc' = "pivots"
        /\ pairs' = IF HasBook(Native, dst) THEN pairs \cup {<<Native, dst>>} ELSE pairs
    BY <1>4 DEF ViaNativeOut
  <2>2. ASSUME HasBook(Native, dst) PROVE Way(<<Native, dst>>)
    <3>1. src # Native /\ dst # Native /\ Bought(src, Native)
      BY <2>1 DEF FinderInv, NextBook
    <3>2. Leads(Native)
      BY <2>2, LookedUp DEF FinderInv, Sought
    <3>3. Native \in Asset /\ ~Same(Native, src)
      BY <3>1 DEF FastAssumption, FinderInv, Sought, Same
    <3>. QED  BY <3>1, <3>2, <3>3, TwoHops DEF FinderInv
  <2>3. \A p \in pairs' : Way(p)'
    BY <1>1, <2>1, <2>2, WaysStay DEF world, FinderInv, PairsOK
  <2>4. IsFiniteSet(pairs')
    BY <2>1, FS_Singleton, FS_Union DEF FinderInv, PairsOK
  <2>5. PairsOK' /\ NextBook'
    BY <2>1, <2>3, <2>4 DEF PairsOK, NextBook
  <2>. QED  BY <1>2, <2>5 DEF FinderInv
<1>. QED  BY <1>3, <1>4

LEMMA Handed ==
  ASSUME FastAssumption, FinderInv, UNCHANGED <<asked, world>>,
         NEW P, \A p \in P : Way(p), NEW s \in Seq(P), candidates' = AddPaths(candidates, s)
  PROVE  Found' /\ Grows
<1>1. P \subseteq Seq(Asset) /\ s \in Seq(Seq(Asset))
  BY DEF Way
<1>2. \A i \in 1 .. Len(s) : Way(s[i])
  BY ElementOfSeq
<1>. QED  BY <1>1, <1>2, JoinsFound DEF world

LEMMA LoopsAreTimed == \A M, limit, n : Loop(M, limit, n) => late' \in BOOLEAN
BY Zenon DEF Loop

LEMMA PivotsStep == ASSUME FastAssumption PROVE FinderInv /\ Pivots => FinderInv' /\ Grows
<1>. SUFFICES ASSUME FinderInv, Pivots PROVE FinderInv' /\ Grows
  OBVIOUS
<1>1. /\ UNCHANGED <<asked, world, walk, ranking, result>> /\ pairs' = {}
      /\ pc = "pivots" /\ pc' = "hubs in"
  BY DEF Pivots
<1>2. PICK seen \in SUBSET Mids(src, dst) :
        /\ Loop(IF NeitherNative THEN Mids(src, dst) \ {Native} ELSE Mids(src, dst),
                budget.twoHop, Cardinality(seen))
        /\ \E s \in Sorted(pairs \cup {<<m, dst>> : m \in seen}) :
             candidates' = AddPaths(candidates, s)
  BY DEF Pivots
<1>. DEFINE Q == {<<m, dst>> : m \in seen}
            P == pairs \cup Q
<1>3. \A p \in P : Way(p)
  <2>1. ASSUME NEW m \in seen PROVE Way(<<m, dst>>)
    <3>1. /\ m \in Asset /\ Bought(src, m) /\ ~Same(m, src) /\ ~Same(m, dst)
          /\ \E y \in Asset : Keyed(y, dst) /\ <<m, y>> \in everBooks
      BY MiddleAssets DEF FinderInv
    <3>2. m # dst /\ Leads(m)
      BY <3>1 DEF Same, Keyed, Leads
    <3>. QED  BY <3>1, <3>2, TwoHops DEF FinderInv
  <2>. QED  BY <2>1 DEF FinderInv, PairsOK
<1>4. IsFiniteSet(P)
  <2>1. IsFiniteSet(seen)
    BY MiddleAssets, FS_Subset DEF FinderInv
  <2>. DEFINE f == [m \in seen |-> <<m, dst>>]
  <2>2. IsFiniteSet({f[m] : m \in seen})
    <3>1. f = [m \in seen |-> f[m]]
      OBVIOUS
    <3>. HIDE DEF f
    <3>. QED  BY <2>1, <3>1, FiniteImage
  <2>3. Q = {f[m] : m \in seen}
    OBVIOUS
  <2>4. IsFiniteSet(Q) /\ IsFiniteSet(pairs)
    BY <2>2, <2>3 DEF FinderInv, PairsOK
  <2>. HIDE DEF Q
  <2>. QED  BY <2>4, FS_Union
<1>. HIDE DEF Q
<1>5. PICK s \in Sorted(P) : candidates' = AddPaths(candidates, s)
  BY <1>2 DEF Q
<1>. HIDE DEF P
<1>6. s \in Seq(P)
  BY <1>4, Orders DEF Sorted
<1>7. Found' /\ Grows
  BY <1>1, <1>3, <1>5, <1>6, Handed
<1>8. PairsOK' /\ NextBook'
  BY <1>1, FS_EmptySet DEF PairsOK, NextBook
<1>9. (late \in BOOLEAN)'
  BY <1>2, LoopsAreTimed
<1>10. Sought' /\ WorldOK' /\ WalkOK' /\ RankingOK' /\ ResultOK'
  BY <1>1, <1>7, Elsewhere DEF Gathering, Found
<1>. QED  BY <1>7, <1>8, <1>9, <1>10 DEF FinderInv

(* The hubs: every order a loop may take them in, and every place it may   *)
(* stop.                                                                   *)
LEMMA HubPaths ==
  ASSUME FastAssumption, FinderInv, UNCHANGED <<asked, world>>,
         NEW M, IsFiniteSet(M), NEW f, f = [m \in M |-> f[m]], \A m \in M : Way(f[m]),
         HubLoop({f[m] : m \in M})
  PROVE  Found' /\ Grows /\ late' \in BOOLEAN
<1>. DEFINE P == {f[m] : m \in M}
<1>1. \A p \in P : Way(p)
  OBVIOUS
<1>2. IsFiniteSet(P)
  BY FiniteImage
<1>3. PICK s \in SetToAllKPermutations(P) :
        /\ Loop(P, budget.twoHop \div 2, Len(s))
        /\ candidates' = AddPaths(candidates, s)
  BY DEF HubLoop
<1>. HIDE DEF P
<1>4. s \in Seq(P)
  BY <1>2, Orders
<1>. QED  BY <1>1, <1>3, <1>4, Handed, LoopsAreTimed

LEMMA HubsInStep ==
  ASSUME FastAssumption PROVE FinderInv /\ (HubsInFirst \/ HubsIn) => FinderInv' /\ Grows
<1>. SUFFICES ASSUME FinderInv, HubsInFirst \/ HubsIn PROVE FinderInv' /\ Grows
  OBVIOUS
<1>1. /\ UNCHANGED <<asked, world, pairs, walk, ranking, result>>
      /\ Gathering /\ src' = src /\ dst' = dst
  BY DEF HubsInFirst, HubsIn, Gathering, asked
<1>2. /\ Sought' /\ WorldOK' /\ PairsOK' /\ WalkOK' /\ ResultOK'
      /\ (UNCHANGED candidates => Found' /\ Grows) /\ (Found' => RankingOK')
  BY <1>1, Elsewhere, SameGrows DEF Found
<1>3. CASE HubsInFirst
  <2>1. /\ UNCHANGED <<late, candidates>>
        /\ pc' \in {"into native", "hubs out"}
        /\ pc' = "into native" => dst # Native /\ HasBook(Native, dst)
    BY <1>3 DEF HubsInFirst
  <2>2. HasBook(Native, dst) => Bought(Native, dst)'
    BY <1>1, LookedUp, WaysStay DEF FinderInv, world
  <2>3. NextBook'
    BY <1>1, <2>1, <2>2 DEF NextBook
  <2>. QED  BY <1>2, <2>1, <2>3 DEF FinderInv
<1>4. CASE HubsIn
  <2>1. /\ pc = "into native" /\ pc' = "hubs out"
        /\ HubLoop({<<m, Native, dst>> : m \in Mids(src, Native) \ {Native}})
    BY <1>4 DEF HubsIn
  <2>. DEFINE M == Mids(src, Native) \ {Native}
              f == [m \in M |-> <<m, Native, dst>>]
  <2>2. Native \in Asset /\ dst # Native /\ Leads(Native)
    BY <2>1, LookedUp DEF FastAssumption, FinderInv, Sought, NextBook
  <2>3. ASSUME NEW m \in M PROVE Way(<<m, Native, dst>>)
    <3>1. /\ m \in Asset /\ Bought(src, m) /\ ~Same(m, src) /\ ~Same(m, dst) /\ m # Native
          /\ \E y \in Asset : Keyed(y, Native) /\ <<m, y>> \in everBooks
      BY MiddleAssets DEF FinderInv
    <3>2. Bought(m, Native)
      <4>1. \A y \in Asset : Keyed(y, Native) => y = Native
        BY DEF Keyed, Same, FastAssumption
      <4>. QED  BY <3>1, <4>1 DEF Bought, Keyed, Same
    <3>3. Native \in {src, dst} \/ (m # dst /\ ~Same(m, src) /\ ~Same(Native, src))
      BY <3>1 DEF Same, FastAssumption, FinderInv, Sought
    <3>. QED  BY <2>2, <3>1, <3>2, <3>3, ThreeHops DEF FinderInv
  <2>4. IsFiniteSet(M)
    BY MiddleAssets, FS_Subset DEF FinderInv
  <2>5. f = [m \in M |-> f[m]] /\ \A m \in M : Way(f[m])
    BY <2>3
  <2>6. HubLoop({f[m] : m \in M})
    <3>1. {f[m] : m \in M} = {<<m, Native, dst>> : m \in M}
      OBVIOUS
    <3>. QED  BY <2>1, <3>1
  <2>7. Found' /\ Grows /\ late' \in BOOLEAN
    <3>. HIDE DEF M, f
    <3>. QED  BY <1>1, <2>4, <2>5, <2>6, HubPaths
  <2>8. NextBook'
    BY <2>1 DEF NextBook
  <2>. QED  BY <1>2, <2>7, <2>8 DEF FinderInv
<1>. QED  BY <1>3, <1>4

LEMMA HubsOutStep ==
  ASSUME FastAssumption PROVE FinderInv /\ (HubsOutFirst \/ HubsOut) => FinderInv' /\ Grows
<1>. SUFFICES ASSUME FinderInv, HubsOutFirst \/ HubsOut PROVE FinderInv' /\ Grows
  OBVIOUS
<1>1. /\ UNCHANGED <<asked, world, pairs, walk, ranking, result>>
      /\ Gathering /\ src' = src /\ dst' = dst
  BY DEF HubsOutFirst, HubsOut, Gathering, asked
<1>2. /\ Sought' /\ WorldOK' /\ PairsOK' /\ WalkOK' /\ ResultOK'
      /\ (UNCHANGED candidates => Found' /\ Grows) /\ (Found' => RankingOK')
  BY <1>1, Elsewhere, SameGrows DEF Found
<1>3. CASE HubsOutFirst
  <2>1. /\ UNCHANGED <<late, candidates>>
        /\ pc' \in {"out of native", "walk"}
        /\ pc' = "out of native" => src # Native /\ HasBook(src, Native)
    BY <1>3 DEF HubsOutFirst
  <2>2. HasBook(src, Native) => Bought(src, Native)'
    BY <1>1, LookedUp, WaysStay DEF FinderInv, world
  <2>3. NextBook'
    BY <1>1, <2>1, <2>2 DEF NextBook
  <2>. QED  BY <1>2, <2>1, <2>3 DEF FinderInv
<1>4. CASE HubsOut
  <2>1. /\ pc = "out of native" /\ pc' = "walk"
        /\ HubLoop({<<Native, m, dst>> : m \in Mids(Native, dst) \ {Native}})
    BY <1>4 DEF HubsOut
  <2>. DEFINE M == Mids(Native, dst) \ {Native}
              f == [m \in M |-> <<Native, m, dst>>]
  <2>2. Native \in Asset /\ src # Native /\ Bought(src, Native)
    BY <2>1 DEF FastAssumption, FinderInv, NextBook
  <2>3. ASSUME NEW m \in M PROVE Way(<<Native, m, dst>>)
    <3>1. /\ m \in Asset /\ Bought(Native, m) /\ ~Same(m, src) /\ ~Same(m, dst) /\ m # Native
          /\ \E y \in Asset : Keyed(y, dst) /\ <<m, y>> \in everBooks
      BY MiddleAssets DEF FinderInv
    <3>2. m # dst /\ Leads(m)
      BY <3>1 DEF Same, Keyed, Leads
    <3>3. Native \in {src, dst} \/ (Native # dst /\ ~Same(Native, src) /\ ~Same(m, src))
      BY <3>1 DEF Same, FastAssumption, FinderInv, Sought
    <3>. QED  BY <2>2, <3>1, <3>2, <3>3, ThreeHops DEF FinderInv
  <2>4. IsFiniteSet(M)
    BY MiddleAssets, FS_Subset DEF FinderInv
  <2>5. f = [m \in M |-> f[m]] /\ \A m \in M : Way(f[m])
    BY <2>3
  <2>6. HubLoop({f[m] : m \in M})
    <3>1. {f[m] : m \in M} = {<<Native, m, dst>> : m \in M}
      OBVIOUS
    <3>. QED  BY <2>1, <3>1
  <2>7. Found' /\ Grows /\ late' \in BOOLEAN
    <3>. HIDE DEF M, f
    <3>. QED  BY <1>1, <2>4, <2>5, <2>6, HubPaths
  <2>8. NextBook'
    BY <2>1 DEF NextBook
  <2>. QED  BY <1>2, <2>7, <2>8 DEF FinderInv
<1>. QED  BY <1>3, <1>4

(* What has begun and goes on over one more book has begun; if that is to  *)
(* the destination, it is a way.                                           *)
LEMMA GoesOn ==
  ASSUME WorldOK, NEW h, Begun(h), NEW b \in Asset, MayStep(h, b),
         HasBook(IF h = << >> THEN src ELSE Last(h), b)
  PROVE  /\ Begun(Append(h, b)) /\ Last(Append(h, b)) = b
         /\ b = dst => Way(Append(h, b))
<1>. DEFINE p == Append(h, b)
            n == Len(h)
<1>1. /\ h \in Seq(Asset) /\ n \in Nat /\ DOMAIN h = 1 .. n
      /\ \A i, j \in 1 .. n : h[i] = h[j] => i = j
      /\ \A i \in 1 .. n : ~Same(h[i], src) /\ Bought(Before(h, i), h[i])
  <2>1. h \in Seq(Asset) /\ n \in Nat /\ DOMAIN h = 1 .. n
    BY LenProperties DEF Begun
  <2>. QED  BY <2>1 DEF Begun, IsInjective
<1>2. /\ p \in Seq(Asset) /\ Len(p) = n + 1 /\ DOMAIN p = 1 .. n + 1 /\ p # << >>
      /\ p[n + 1] = b /\ \A i \in 1 .. n : p[i] = h[i]
  BY <1>1, AppendProperties, LenProperties
<1>3. ~Same(b, src) /\ \A i \in 1 .. n : h[i] # b
  BY DEF MayStep, Contains
<1>. HIDE DEF p, n
<1>4. IsInjective(p)
  <2>. SUFFICES ASSUME NEW i \in 1 .. n + 1, NEW j \in 1 .. n + 1, p[i] = p[j] PROVE i = j
    BY <1>2 DEF IsInjective
  <2>1. (i = n + 1 \/ i \in 1 .. n) /\ (j = n + 1 \/ j \in 1 .. n)
    BY <1>1
  <2>. QED  BY <1>1, <1>2, <1>3, <2>1
<1>5. ASSUME NEW i \in 1 .. n + 1 PROVE ~Same(p[i], src) /\ Bought(Before(p, i), p[i])
  <2>1. CASE i \in 1 .. n
    <3>1. i # 1 => i - 1 \in 1 .. n
      BY <1>1, <2>1
    <3>2. Before(p, i) = Before(h, i)
      BY <1>2, <3>1 DEF Before
    <3>. QED  BY <1>1, <1>2, <2>1, <3>2
  <2>2. CASE i = n + 1
    <3>1. Before(p, i) = IF h = << >> THEN src ELSE Last(h)
      <4>1. CASE h = << >>
        <5>1. n = 0
          BY <4>1, EmptySeq DEF n
        <5>. QED  BY <2>2, <4>1, <5>1 DEF Before
      <4>2. CASE h # << >>
        <5>1. n # 0
          BY <1>1, <4>2, EmptySeq DEF n
        <5>2. n \in 1 .. n /\ i # 1 /\ i - 1 = n
          BY <1>1, <2>2, <5>1
        <5>3. Last(h) = h[n]
          BY DEF Last, n
        <5>. QED  BY <1>2, <4>2, <5>2, <5>3 DEF Before
      <4>. QED  BY <4>1, <4>2
    <3>2. Bought(IF h = << >> THEN src ELSE Last(h), b)
      BY LookedUp, Zenon
    <3>. QED  BY <1>2, <1>3, <2>2, <3>1, <3>2
  <2>. QED  BY <1>1, <2>1, <2>2
<1>6. Begun(p)
  BY <1>2, <1>4, <1>5 DEF Begun
<1>7. Last(p) = b
  BY <1>2 DEF Last
<1>8. ASSUME b = dst PROVE Way(p)
  <2>1. p[Len(p)] = dst
    BY <1>2, <1>8
  <2>2. \A i \in 1 .. Len(p) : Bought(Before(p, i), p[i])
    BY <1>2, <1>5
  <2>3. WalkOver(everBooks, p)
    BY <1>2, <2>1, <2>2, Hops
  <2>4. Simple(p)
    BY <1>2, <1>4, <1>5 DEF Simple
  <2>. QED  BY <1>2, <2>3, <2>4 DEF Way
<1>. QED  BY <1>6, <1>7, <1>8 DEF p

(* What is taken of a sequence is its beginning. *)
LEMMA TakenIsBeginning ==
  ASSUME NEW U, NEW s \in Seq(U), NEW n \in Nat
  PROVE  /\ Taken(s, n) \in Seq(U) /\ DOMAIN Taken(s, n) \subseteq DOMAIN s
         /\ Len(Taken(s, n)) = IF Len(s) < n THEN Len(s) ELSE n
         /\ \A i \in DOMAIN Taken(s, n) : Taken(s, n)[i] = s[i]
<1>. DEFINE k == IF Len(s) < n THEN Len(s) ELSE n
<1>1. /\ Len(s) \in Nat /\ DOMAIN s = 1 .. Len(s) /\ \A i \in 1 .. Len(s) : s[i] \in U
      /\ k \in 0 .. Len(s)
  BY LenProperties, ElementOfSeq
<1>. HIDE DEF k
<1>2. \A i \in 1 .. k : s[i] \in U
  BY <1>1
<1>3. /\ SubSeq(s, 1, k) \in Seq(U)
      /\ Len(SubSeq(s, 1, k)) = IF 1 <= k THEN k - 1 + 1 ELSE 0
      /\ \A i \in 1 .. k - 1 + 1 : SubSeq(s, 1, k)[i] = s[1 + i - 1]
  <2>1. k \in Int /\ 1 \in Int
    BY <1>1
  <2>. QED  BY <1>2, <2>1, SubSeqProperties
<1>4. Taken(s, n) = SubSeq(s, 1, k)
  BY DEF Taken, k
<1>5. Len(Taken(s, n)) = k /\ DOMAIN Taken(s, n) = 1 .. k
  BY <1>1, <1>3, <1>4, LenProperties
<1>6. ASSUME NEW i \in 1 .. k PROVE Taken(s, n)[i] = s[i]
  <2>1. i \in 1 .. k - 1 + 1 /\ 1 + i - 1 = i
    BY <1>1
  <2>. QED  BY <1>3, <1>4, <2>1
<1>7. 1 .. k \subseteq 1 .. Len(s)
  BY <1>1
<1>. QED  BY <1>1, <1>3, <1>4, <1>5, <1>6, <1>7 DEF k

(* The frame the walk takes: where it stands, the neighbours it may go to, *)
(* and the paths that go there.                                            *)
Here == IF Head(frontier) = << >> THEN src ELSE Last(Head(frontier))
OpenSteps(near) == Among(near, {b \in Asset : MayStep(Head(frontier), b)})
Paths(near) ==
  [i \in DOMAIN Taken(OpenSteps(near), budget.branch) |-> Append(Head(frontier), OpenSteps(near)[i])]
Arrived(next) == {p \in ToSet(next) : Last(p) = dst}
GoOn(next) == {p \in ToSet(next) : Onward(p)}

Beginnings == {h \in Seq(Asset) : Begun(h)}

LEMMA WalkTakes ==
  ASSUME FastAssumption, FinderInv, Walk
  PROVE  /\ frontier \in Seq(Beginnings) /\ frontier # << >>
         /\ Head(frontier) \in Beginnings /\ Tail(frontier) \in Seq(Beginnings)
         /\ \E near \in OrderedNeighbors(Here) :
              /\ near \in Seq(Neighbors(Here)) /\ OpenSteps(near) \in Seq(Asset)
              /\ Len(Paths(near)) =
                   IF Len(OpenSteps(near)) < budget.branch THEN Len(OpenSteps(near)) ELSE budget.branch
              /\ \A i \in 1 .. Len(Paths(near)) :
                   Paths(near)[i] = Append(Head(frontier), OpenSteps(near)[i])
              /\ Paths(near) \in Seq(Beginnings) /\ \A p \in Arrived(Paths(near)) : Way(p)
              /\ candidates' = AddPaths(candidates, Among(Paths(near), Arrived(Paths(near))))
              /\ frontier' = Tail(frontier) \o Among(Paths(near), GoOn(Paths(near)))
<1>. DEFINE hops == Head(frontier)
            B == Beginnings
            may == {b \in Asset : MayStep(hops, b)}
<1>1. frontier # << >>
  BY DEF Walk
<1>2. PICK near \in OrderedNeighbors(Here) :
        /\ candidates' = AddPaths(candidates, Among(Paths(near), Arrived(Paths(near))))
        /\ frontier' = Tail(frontier) \o Among(Paths(near), GoOn(Paths(near)))
  BY Zenon DEF Walk, Here, OpenSteps, Paths, Arrived, GoOn
<1>3. frontier \in Seq(B)
  <2>1. frontier \in Seq(Seq(Asset)) /\ \A i \in 1 .. Len(frontier) : Begun(frontier[i])
    BY LenProperties DEF FinderInv, WalkOK
  <2>2. \A i \in 1 .. Len(frontier) : frontier[i] \in B
    BY <2>1 DEF Begun, Beginnings
  <2>. HIDE DEF B
  <2>. QED  BY <2>1, <2>2, SeqWithin
<1>4. hops \in B /\ Tail(frontier) \in Seq(B)
  <2>. HIDE DEF B
  <2>. QED  BY <1>1, <1>3, HeadTailProperties
<1>5. near \in Seq(Neighbors(Here))
  <2>1. IsFiniteSet(Neighbors(Here))
    BY FS_Subset DEF FastAssumption, Neighbors
  <2>2. near \in SetToSeqs(Neighbors(Here))
    BY <1>2 DEF OrderedNeighbors
  <2>. QED  BY <2>1, <2>2, Orders
<1>. DEFINE N == Neighbors(Here) \cap may
            open == OpenSteps(near)
            t == Taken(open, budget.branch)
            next == Paths(near)
<1>6. open \in Seq(N)
  BY <1>5, AmongMembers DEF OpenSteps
<1>7. budget.branch \in Nat
  BY DEF FastAssumption, FinderInv, Sought
<1>8. /\ t \in Seq(N) /\ (\A i \in DOMAIN t : t[i] = open[i])
      /\ Len(t) = IF Len(open) < budget.branch THEN Len(open) ELSE budget.branch
  <2>. HIDE DEF N, open
  <2>. QED  BY <1>6, <1>7, TakenIsBeginning
<1>9. Len(t) \in Nat /\ DOMAIN t = 1 .. Len(t) /\ \A i \in DOMAIN t : open[i] \in N
  <2>. HIDE DEF N, open, t
  <2>. QED  BY <1>8, LenProperties, ElementOfSeq
<1>10. next = [i \in 1 .. Len(t) |-> Append(hops, open[i])]
  BY <1>9 DEF Paths
<1>11. open \in Seq(Asset)
  <2>1. N \subseteq Asset
    OBVIOUS
  <2>. HIDE DEF N, open
  <2>. QED  BY <1>6, <2>1
<1>12. ASSUME NEW i \in DOMAIN t
       PROVE  /\ Append(hops, open[i]) \in B /\ Last(Append(hops, open[i])) = open[i]
              /\ open[i] = dst => Way(Append(hops, open[i]))
  <2>1. open[i] \in N
    BY <1>9, <1>12
  <2>. HIDE DEF open, t
  <2>2. /\ open[i] \in Asset /\ MayStep(hops, open[i])
        /\ HasBook(IF hops = << >> THEN src ELSE Last(hops), open[i])
    BY <2>1 DEF Neighbors, Here
  <2>3. Begun(hops)
    BY <1>4 DEF Beginnings
  <2>. QED  BY <2>2, <2>3, GoesOn DEF FinderInv, Beginnings, Begun
<1>. HIDE DEF t, B, open, hops
<1>13. next \in Seq(B) /\ Len(next) = Len(t)
       /\ \A i \in 1 .. Len(next) : next[i] = Append(hops, open[i])
  <2>. DEFINE k == Len(t)
  <2>1. k \in Nat /\ next \in [1 .. k -> B] /\ next = [i \in 1 .. k |-> Append(hops, open[i])]
    BY <1>9, <1>10, <1>12
  <2>. HIDE DEF next, k
  <2>2. next \in Seq(B) /\ Len(next) = k
    BY <2>1
  <2>. QED  BY <2>1, <2>2 DEF k
<1>14. ASSUME NEW p \in Arrived(next) PROVE Way(p)
  <2>. HIDE DEF next
  <2>1. PICK i \in DOMAIN next : p = next[i] /\ Last(p) = dst
    BY DEF ToSet, Arrived
  <2>2. i \in DOMAIN t /\ p = Append(hops, open[i])
    BY <1>9, <1>10, <2>1
  <2>. QED  BY <1>12, <2>1, <2>2
<1>. QED  BY <1>1, <1>2, <1>3, <1>4, <1>5, <1>8, <1>11, <1>13, <1>14 DEF B, hops, open

LEMMA NeighborsFit ==
  ASSUME FastAssumption, NEW a, NEW near \in OrderedNeighbors(a), NEW T
  PROVE  Len(Among(near, T)) <= Cardinality(Asset) /\ Cardinality(Asset) \in Nat
<1>1. /\ IsFiniteSet(Asset) /\ Neighbors(a) \in SUBSET Asset /\ near \in SetToSeqs(Neighbors(a))
  BY DEF FastAssumption, Neighbors, OrderedNeighbors
<1>2. /\ IsFiniteSet(Neighbors(a)) /\ Cardinality(Neighbors(a)) <= Cardinality(Asset)
      /\ Cardinality(Asset) \in Nat
  BY <1>1, FS_Subset, FS_CardinalityType
<1>3. near \in Seq(Neighbors(a)) /\ Len(near) = Cardinality(Neighbors(a)) /\ Len(near) \in Nat
  BY <1>1, <1>2, Orders, AllOrdered, LenProperties
<1>4. Len(Among(near, T)) <= Len(near) /\ Len(Among(near, T)) \in Nat
  BY <1>3, AmongPicks, AmongMembers, LenProperties
<1>. QED  BY <1>2, <1>3, <1>4

LEMMA WalkStep == ASSUME FastAssumption PROVE FinderInv /\ Walk => FinderInv' /\ Grows
<1>. SUFFICES ASSUME FinderInv, Walk PROVE FinderInv' /\ Grows
  OBVIOUS
<1>. DEFINE B == Beginnings
<1>1. /\ UNCHANGED <<asked, world, late, pc, pairs, ranking, result>>
      /\ pc = "walk" /\ expanded < budget.expand /\ expanded' = expanded + 1
  BY DEF Walk
<1>2. PICK next \in Seq(B) :
        /\ \A p \in Arrived(next) : Way(p)
        /\ candidates' = AddPaths(candidates, Among(next, Arrived(next)))
        /\ frontier' = Tail(frontier) \o Among(next, GoOn(next))
  BY WalkTakes
<1>3. Tail(frontier) \in Seq(B)
  BY WalkTakes
<1>. HIDE DEF B
<1>4. Found' /\ Grows
  <2>. DEFINE there == Arrived(next)
  <2>1. Among(next, there) \in Seq(B \cap there)
    BY AmongMembers
  <2>2. Among(next, there) \in Seq(there)
    BY <2>1
  <2>. HIDE DEF there
  <2>3. candidates' = AddPaths(candidates, Among(next, there)) /\ \A p \in there : Way(p)
    BY <1>2 DEF there
  <2>. QED  BY <1>1, <2>2, <2>3, Handed
<1>5. frontier' \in Seq(B)
  <2>. DEFINE onward == GoOn(next)
  <2>1. Among(next, onward) \in Seq(B \cap onward)
    BY AmongMembers
  <2>2. Among(next, onward) \in Seq(B)
    BY <2>1
  <2>. HIDE DEF onward
  <2>3. frontier' = Tail(frontier) \o Among(next, onward)
    BY <1>2 DEF onward
  <2>. QED  BY <1>3, <2>2, <2>3, ConcatProperties
<1>6. WalkOK'
  <2>1. frontier' \in Seq(Seq(Asset))
    BY <1>5 DEF B, Beginnings
  <2>2. \A i \in DOMAIN frontier' : frontier'[i] \in B
    BY <1>5, ElementOfSeq, LenProperties
  <2>3. \A h \in B : Begun(h)'
    BY <1>1, WaysStay DEF world, B, Beginnings
  <2>4. budget.expand \in Nat
    BY DEF FastAssumption, FinderInv, Sought
  <2>5. expanded' \in 0 .. budget'.expand
    BY <1>1, <2>4 DEF FinderInv, WalkOK, asked
  <2>. QED  BY <2>1, <2>2, <2>3, <2>5 DEF WalkOK
<1>7. /\ Sought' /\ WorldOK' /\ PairsOK' /\ RankingOK' /\ ResultOK' /\ NextBook'
      /\ (late \in BOOLEAN)'
  <2>1. Gathering /\ candidates' \in Seq(Seq(Asset))
    BY <1>1, <1>4 DEF Gathering, Found
  <2>. QED  BY <1>1, <2>1, Elsewhere DEF FinderInv, NextBook
<1>. QED  BY <1>4, <1>6, <1>7 DEF FinderInv

LEMMA WalkEndsStep == ASSUME FastAssumption PROVE FinderInv /\ WalkEnds => FinderInv' /\ Grows
<1>. SUFFICES ASSUME FinderInv, WalkEnds PROVE FinderInv' /\ Grows
  OBVIOUS
<1>1. /\ UNCHANGED <<asked, world, pairs, walk, ranking, result>>
      /\ pc = "walk" /\ pc' = "rank" /\ candidates' = AddPaths(candidates, extra)
  BY DEF WalkEnds
<1>2. late' \in BOOLEAN
  BY DEF WalkEnds, FinderInv
<1>3. Found' /\ Grows
  <2>1. extra \in Seq(Seq(Asset)) /\ extra \in Extras
    BY DEF FastAssumption, FinderInv, Sought
  <2>2. \A i \in 1 .. Len(extra) : extra[i] \in ToSet(extra)
    BY <2>1, LenProperties DEF ToSet
  <2>. QED  BY <1>1, <2>1, <2>2, JoinsFound DEF world
<1>4. Sought' /\ WorldOK' /\ PairsOK' /\ WalkOK' /\ RankingOK' /\ ResultOK' /\ NextBook'
  <2>1. Gathering /\ candidates' \in Seq(Seq(Asset))
    BY <1>1, <1>3 DEF Gathering, Found
  <2>. QED  BY <1>1, <2>1, Elsewhere DEF NextBook
<1>. QED  BY <1>2, <1>3, <1>4 DEF FinderInv

LEMMA RankStep == FinderInv /\ Rank => FinderInv'
<1>. SUFFICES ASSUME FinderInv, Rank PROVE FinderInv'
  OBVIOUS
<1>. DEFINE i == Min(Unranked)
            R == [path : Seq(Asset), rate : Rates, index : DOMAIN candidates]
<1>1. /\ UNCHANGED <<asked, world, late, pc, pairs, candidates, walk, result>>
      /\ pc = "rank" /\ Unranked # {}
      /\ at' = i /\ rankedKeys' = rankedKeys \cup {HopCurrencyKey(candidates[i])}
      /\ \/ UNCHANGED ranks
         \/ \E r \in Rates :
              ranks' = Append(ranks, [path |-> candidates[i], rate |-> r, index |-> i])
  BY DEF Rank, MoreToRank
<1>2. /\ candidates \in Seq(Seq(Asset)) /\ Len(candidates) \in Nat
      /\ DOMAIN candidates = 1 .. Len(candidates)
  BY LenProperties DEF FinderInv, Found
<1>3. i \in DOMAIN candidates
  <2>1. Unranked \in SUBSET Nat /\ Unranked \subseteq DOMAIN candidates
    BY <1>2 DEF Unranked
  <2>2. PICK x \in Unranked : \A y \in Unranked : x <= y
    BY <1>1, <2>1, LeastNumber
  <2>3. i \in Unranked
    BY <2>2 DEF Min
  <2>. QED  BY <2>1, <2>3
<1>. HIDE DEF i
<1>4. candidates[i] \in Seq(Asset)
  BY <1>2, <1>3, ElementOfSeq
<1>5. HopCurrencyKey(candidates[i]) \in Seq(Token)
  <2>. DEFINE p == candidates[i]
              k == Len(p)
  <2>1. k \in Nat /\ DOMAIN p = 1 .. k /\ \A j \in 1 .. k : p[j] \in Asset
    BY <1>4, LenProperties, ElementOfSeq
  <2>. HIDE DEF p, k
  <2>2. HopCurrencyKey(p) \in [1 .. k -> Token]
    BY <2>1 DEF HopCurrencyKey, Token
  <2>3. HopCurrencyKey(p) \in Seq(Token)
    BY <2>1, <2>2
  <2>. QED  BY <2>3 DEF p
<1>6. ranks' \in Seq(R)
  <2>1. ranks \in Seq(R)
    BY DEF FinderInv, RankingOK
  <2>2. ASSUME NEW r \in Rates PROVE [path |-> candidates[i], rate |-> r, index |-> i] \in R
    BY <1>3, <1>4
  <2>. HIDE DEF R
  <2>3. ASSUME NEW r \in Rates,
               ranks' = Append(ranks, [path |-> candidates[i], rate |-> r, index |-> i])
        PROVE  ranks' \in Seq(R)
    BY <2>1, <2>2, <2>3, AppendProperties
  <2>. QED  BY <1>1, <2>1, <2>3
<1>7. RankingOK'
  BY <1>1, <1>2, <1>3, <1>5, <1>6 DEF FinderInv, RankingOK, Gathering
<1>8. /\ Sought' /\ WorldOK' /\ PairsOK' /\ Found' /\ WalkOK' /\ ResultOK' /\ NextBook'
      /\ (late \in BOOLEAN)'
  BY <1>1, Elsewhere DEF FinderInv, NextBook
<1>. QED  BY <1>7, <1>8 DEF FinderInv

LEMMA FinishStep == ASSUME FastAssumption PROVE FinderInv /\ Finish => FinderInv'
<1>. SUFFICES ASSUME FinderInv, Finish PROVE FinderInv'
  OBVIOUS
<1>. DEFINE R == [path : Seq(Asset), rate : Rates, index : DOMAIN candidates]
<1>1. /\ UNCHANGED <<asked, world, pairs, candidates, walk, ranking>>
      /\ pc = "rank" /\ pc' = "done"
  BY DEF Finish
<1>2. late' \in BOOLEAN
  BY DEF Finish, FinderInv
<1>3. PICK sorted \in Ranked :
        LET first == Taken(Chosen(sorted), MaxPathCount)
            rest == Among(sorted, ToSet(sorted) \ ToSet(first))
            all == [i \in DOMAIN (first \o rest) |-> (first \o rest)[i].path]
        IN  /\ paths' = Taken(all, MaxPathCount)
            /\ discovered' = all
  BY DEF Finish
<1>. DEFINE first == Taken(Chosen(sorted), MaxPathCount)
            rest == Among(sorted, ToSet(sorted) \ ToSet(first))
            both == first \o rest
            all == [i \in DOMAIN both |-> both[i].path]
<1>4. sorted \in Seq(R)
  <2>. DEFINE n == Len(ranks)
              T == ToSet(ranks)
              f == [i \in 1 .. n |-> ranks[i]]
  <2>1. ranks \in Seq(R)
    BY DEF FinderInv, RankingOK
  <2>. HIDE DEF R
  <2>2. /\ n \in Nat /\ DOMAIN ranks = 1 .. n /\ \A i \in 1 .. n : ranks[i] \in R
    BY <2>1, LenProperties, ElementOfSeq
  <2>. HIDE DEF n
  <2>3. T = {f[i] : i \in 1 .. n} /\ f = [i \in 1 .. n |-> f[i]]
    BY <2>2 DEF ToSet
  <2>4. IsFiniteSet(1 .. n)
    BY <2>2, FS_Interval
  <2>5. IsFiniteSet(T)
    <3>. DEFINE D == 1 .. n
    <3>1. T = {f[i] : i \in D} /\ f = [i \in D |-> f[i]] /\ IsFiniteSet(D)
      BY <2>3, <2>4
    <3>. HIDE DEF f, T, D
    <3>2. IsFiniteSet({f[i] : i \in D})
      BY <3>1, FiniteImage
    <3>. QED  BY <3>1, <3>2
  <2>6. T \subseteq R
    BY <2>2 DEF ToSet
  <2>7. sorted \in SetToSeqs(T)
    BY DEF Ranked
  <2>. HIDE DEF T
  <2>8. sorted \in Seq(T)
    BY <2>5, <2>7, Orders
  <2>. QED  BY <2>6, <2>8
<1>5. MaxPathCount \in Nat
  BY DEF FastAssumption
<1>6. Chosen(sorted) \in Seq(R)
  <2>. DEFINE short == {r \in ToSet(sorted) : Short(r)}
              long == ToSet(sorted) \ short
  <2>1. Chosen(sorted) = Among(sorted, short) \o Among(sorted, long)
    BY DEF Chosen
  <2>. HIDE DEF R, short, long
  <2>2. Among(sorted, short) \in Seq(R \cap short) /\ Among(sorted, long) \in Seq(R \cap long)
    BY <1>4, AmongMembers
  <2>3. Among(sorted, short) \in Seq(R) /\ Among(sorted, long) \in Seq(R)
    BY <2>2
  <2>. QED  BY <2>1, <2>3, ConcatProperties
<1>7. first \in Seq(R) /\ rest \in Seq(R)
  <2>. HIDE DEF R
  <2>1. first \in Seq(R)
    BY <1>5, <1>6, TakenIsBeginning
  <2>. DEFINE others == ToSet(sorted) \ ToSet(first)
  <2>. HIDE DEF others
  <2>2. Among(sorted, others) \in Seq(R \cap others)
    BY <1>4, AmongMembers
  <2>3. Among(sorted, others) \in Seq(R)
    BY <2>2
  <2>. QED  BY <2>1, <2>3 DEF others
<1>8. both \in Seq(R)
  <2>. HIDE DEF R, first, rest
  <2>. QED  BY <1>7, ConcatProperties
<1>9. all \in Seq(Seq(Asset))
  <2>. DEFINE k == Len(both)
  <2>1. k \in Nat /\ DOMAIN both = 1 .. k /\ \A i \in 1 .. k : both[i] \in R
    <3>. HIDE DEF R, both
    <3>. QED  BY <1>8, LenProperties, ElementOfSeq
  <2>. HIDE DEF both, k
  <2>2. all \in [1 .. k -> Seq(Asset)]
    BY <2>1
  <2>. HIDE DEF all
  <2>. QED  BY <2>1, <2>2
<1>10. ResultOK'
  <2>1. paths' = Taken(all, MaxPathCount) /\ discovered' = all
    BY <1>3
  <2>. HIDE DEF all
  <2>2. Taken(all, MaxPathCount) \in Seq(Seq(Asset))
    BY <1>5, <1>9, TakenIsBeginning
  <2>. QED  BY <1>9, <2>1, <2>2 DEF ResultOK
<1>11. /\ Sought' /\ WorldOK' /\ PairsOK' /\ Found' /\ WalkOK' /\ NextBook'
  BY <1>1, Elsewhere DEF NextBook
<1>12. RankingOK'
  BY <1>1 DEF FinderInv, RankingOK, ranking, Gathering
<1>. QED  BY <1>2, <1>10, <1>11, <1>12 DEF FinderInv

LEMMA FinderStep ==
  ASSUME FastAssumption
  PROVE  FinderInv /\ [FinderNext]_finderVars => FinderInv' /\ Grows
<1>. SUFFICES ASSUME FinderInv, [FinderNext]_finderVars PROVE FinderInv' /\ Grows
  OBVIOUS
<1>1. CASE UNCHANGED finderVars
  <2>1. UNCHANGED <<asked, world, late, pc, pairs, candidates, walk, ranking, result>>
    BY <1>1 DEF finderVars
  <2>2. RankingOK' /\ NextBook'
    BY <2>1, WaysStay DEF FinderInv, RankingOK, Gathering, ranking, NextBook, world, asked
  <2>. QED  BY <2>1, <2>2, Elsewhere, SameGrows DEF FinderInv
<1>2. CASE BookChange \/ Direct \/ ViaNativeIn \/ ViaNativeOut \/ Rank \/ Finish
  <2>1. UNCHANGED candidates
    BY <1>2 DEF BookChange, Direct, ViaNativeIn, ViaNativeOut, Rank, Finish
  <2>. QED  BY <1>2, <2>1, SameGrows, WorldStep, DirectStep, NativeStep, RankStep, FinishStep
<1>3. CASE Pivots \/ HubsInFirst \/ HubsIn \/ HubsOutFirst \/ HubsOut \/ Walk \/ WalkEnds
  BY <1>3, PivotsStep, HubsInStep, HubsOutStep, WalkStep, WalkEndsStep
<1>. QED  BY <1>1, <1>2, <1>3 DEF FinderNext, Gather

LEMMA FinderAlways == FinderSpec => []FinderInv
<1>1. FinderInit => FinderInv
  BY FastAssumption, FinderInitInv
<1>2. FinderInv /\ [FinderNext]_finderVars => FinderInv'
  BY FastAssumption, FinderStep
<1>. QED  BY <1>1, <1>2, PTL DEF FinderSpec

(* Whatever the apply thread does to the books while a search runs, and    *)
(* wherever its deadline falls, each path the search finds leads over      *)
(* books that were there, is no longer than the payment engine takes, and  *)
(* comes through no asset twice but for the hubs of a native end; and      *)
(* there are no more of them than allowed.                                 *)
THEOREM FoundPathsAreWalks == FinderSpec => []CandidatesAreWalks
BY FinderAlways, FinderInvSafe, PTL

-----------------------------------------------------------------------------
(* A wide enough budget: every simple walk is found or is being walked.    *)

(* h is the beginning of p. *)
Leading(h, p) == Len(h) < Len(p) /\ \A k \in 1 .. Len(h) : h[k] = p[k]

Wide ==
  /\ churned = 0 /\ budget.maxHops >= 4 /\ budget.branch >= Cardinality(Asset)
  /\ ~Same(src, dst)

Complete ==
  Wide /\ Len(candidates) < MaxCandidates =>
    \A p \in SimpleWalks(books, budget.maxHops) :
      Contains(candidates, p) \/ \E i \in 1 .. Len(frontier) : Leading(frontier[i], p)

(* Such a walk hop by hop. *)
LEMMA WalkFacts ==
  ASSUME FastAssumption, NEW p \in SimpleWalks(books, budget.maxHops), dst \in Asset
  PROVE  /\ p \in Seq(Asset) /\ Len(p) \in Nat \ {0} /\ Len(p) <= budget.maxHops
         /\ p[Len(p)] = dst
         /\ \A i, j \in 1 .. Len(p) : p[i] = p[j] => i = j
         /\ \A i \in 1 .. Len(p) :
              /\ p[i] \in Asset /\ HasBook(Before(p, i), p[i])
              /\ p[i] = dst \/ ~Same(p[i], src)
<1>1. /\ p \in SetToAllKPermutations(Asset) /\ Len(p) \in 1 .. budget.maxHops
      /\ Simple(p) /\ WalkOver(books, p)
      /\ \E x \in Asset : Keyed(x, IF Len(p) = 1 THEN src ELSE p[Len(p) - 1]) /\ <<x, dst>> \in books
  BY DEF SimpleWalks
<1>2. p \in Seq(Asset)
  BY <1>1, Orders DEF FastAssumption
<1>3. Len(p) \in Nat /\ DOMAIN p = 1 .. Len(p) /\ \A i \in 1 .. Len(p) : p[i] \in Asset
  BY <1>2, LenProperties, ElementOfSeq
<1>4. p[Len(p)] = dst
  BY <1>1 DEF WalkOver, Last
<1>5. ASSUME NEW i \in 1 .. Len(p) PROVE HasBook(Before(p, i), p[i])
  <2>1. CASE i = Len(p)
    BY <1>1, <1>4, <2>1 DEF HasBook, Before
  <2>2. CASE i # Len(p)
    <3>1. PICK x \in Asset, y \in Asset :
            /\ Keyed(x, IF i = 1 THEN src ELSE p[i - 1])
            /\ y = p[i] \/ (i = Len(p) /\ i > 1 /\ Keyed(y, dst))
            /\ <<x, y>> \in books
      BY <1>1, <1>3 DEF WalkOver
    <3>2. y = p[i]
      BY <2>2, <3>1
    <3>. QED  BY <3>1, <3>2 DEF HasBook, Before
  <2>. QED  BY <2>1, <2>2
<1>6. /\ \A i, j \in 1 .. Len(p) : p[i] = p[j] => i = j
      /\ \A i \in 1 .. Len(p) : p[i] = dst \/ ~Same(p[i], src)
  BY <1>1, <1>3 DEF Simple, IsInjective
<1>. QED  BY <1>1, <1>2, <1>3, <1>4, <1>5, <1>6

LEMMA SameWalks ==
  ASSUME UNCHANGED <<asked, books>>
  PROVE  /\ \A p : p \in SimpleWalks(books, budget.maxHops)'
                     => p \in SimpleWalks(books, budget.maxHops)
         /\ UNCHANGED churned => (Wide' => Wide)
<1>1. src' = src /\ dst' = dst /\ domain' = domain /\ budget' = budget /\ books' = books
  BY DEF asked
<1>2. \A x, y : (Keyed(x, y)' <=> Keyed(x, y)) /\ (Same(x, y)' <=> Same(x, y))
  BY <1>1 DEF Keyed, Same
<1>3. ASSUME NEW p, p \in SimpleWalks(books, budget.maxHops)'
      PROVE  p \in SimpleWalks(books, budget.maxHops)
  <2>1. /\ p \in SetToAllKPermutations(Asset) /\ Len(p) \in 1 .. budget'.maxHops
        /\ Simple(p)' /\ WalkOver(books, p)'
        /\ \E x \in Asset : /\ Keyed(x, IF Len(p) = 1 THEN src ELSE p[Len(p) - 1])'
                            /\ <<x, dst'>> \in books'
    BY <1>3 DEF SimpleWalks
  <2>2. Simple(p)
    BY <1>1, <1>2, <2>1 DEF Simple
  <2>3. WalkOver(books, p)
    BY <1>1, <1>2, <2>1 DEF WalkOver
  <2>4. \E x \in Asset : Keyed(x, IF Len(p) = 1 THEN src ELSE p[Len(p) - 1]) /\ <<x, dst>> \in books
    BY <1>1, <2>1 DEF Keyed, Same
  <2>. QED  BY <1>1, <2>1, <2>2, <2>3, <2>4 DEF SimpleWalks
<1>4. UNCHANGED churned => (Wide' => Wide)
  BY <1>1, <1>2 DEF Wide
<1>. QED  BY <1>3, <1>4

LEMMA GrowsKeeps ==
  ASSUME Grows
  PROVE  \A p : Contains(candidates, p) => Contains(candidates', p)
BY DEF Grows, Contains

LEMMA CompleteKept ==
  ASSUME Complete, Grows, UNCHANGED <<asked, books, churned, frontier>>, MaxCandidates \in Nat
  PROVE  Complete'
<1>. SUFFICES ASSUME Wide', Len(candidates') < MaxCandidates,
                     NEW p \in SimpleWalks(books, budget.maxHops)'
              PROVE  \/ Contains(candidates', p)
                     \/ \E i \in 1 .. Len(frontier') : Leading(frontier'[i], p)
  BY DEF Complete
<1>1. p \in SimpleWalks(books, budget.maxHops) /\ Wide
  BY SameWalks
<1>2. Len(candidates) < MaxCandidates
  BY DEF Grows
<1>3. Contains(candidates, p) \/ \E i \in 1 .. Len(frontier) : Leading(frontier[i], p)
  BY <1>1, <1>2 DEF Complete
<1>. QED  BY <1>3, GrowsKeeps

LEMMA WalkCompletes ==
  ASSUME FastAssumption, FinderInv, Complete, Walk, Grows
  PROVE  Complete'
<1>. SUFFICES ASSUME Wide', Len(candidates') < MaxCandidates,
                     NEW p \in SimpleWalks(books, budget.maxHops)'
              PROVE  \/ Contains(candidates', p)
                     \/ \E i \in 1 .. Len(frontier') : Leading(frontier'[i], p)
  BY DEF Complete
<1>1. UNCHANGED <<asked, books, churned>>
  BY DEF Walk, world
<1>2. p \in SimpleWalks(books, budget.maxHops) /\ Wide
  BY <1>1, SameWalks
<1>3. Len(candidates) < MaxCandidates
  BY DEF Grows, FastAssumption
<1>4. /\ p \in Seq(Asset) /\ Len(p) \in Nat \ {0} /\ Len(p) <= budget.maxHops
      /\ p[Len(p)] = dst
      /\ \A i, j \in 1 .. Len(p) : p[i] = p[j] => i = j
      /\ \A i \in 1 .. Len(p) :
           /\ p[i] \in Asset /\ HasBook(Before(p, i), p[i])
           /\ p[i] = dst \/ ~Same(p[i], src)
  BY <1>2, WalkFacts DEF FinderInv, Sought
<1>5. CASE Contains(candidates, p)
  BY <1>5, GrowsKeeps
<1>6. /\ frontier \in Seq(Beginnings) /\ frontier # << >>
      /\ Head(frontier) \in Beginnings /\ Tail(frontier) \in Seq(Beginnings)
  BY WalkTakes
<1>7. PICK near \in OrderedNeighbors(Here) :
        /\ near \in Seq(Neighbors(Here)) /\ OpenSteps(near) \in Seq(Asset)
        /\ Len(Paths(near)) =
             IF Len(OpenSteps(near)) < budget.branch THEN Len(OpenSteps(near)) ELSE budget.branch
        /\ \A i \in 1 .. Len(Paths(near)) :
             Paths(near)[i] = Append(Head(frontier), OpenSteps(near)[i])
        /\ Paths(near) \in Seq(Beginnings)
        /\ candidates' = AddPaths(candidates, Among(Paths(near), Arrived(Paths(near))))
        /\ frontier' = Tail(frontier) \o Among(Paths(near), GoOn(Paths(near)))
  BY WalkTakes
<1>. DEFINE next == Paths(near)
            open == OpenSteps(near)
            rest == Tail(frontier)
            onward == Among(next, GoOn(next))
            h == Head(frontier)
            n == Len(h)
<1>. HIDE DEF next, open, h, rest
<1>8. /\ rest \in Seq(Beginnings) /\ onward \in Seq(Beginnings)
      /\ Len(rest) \in Nat /\ Len(onward) \in Nat /\ Len(next) \in Nat
      /\ Len(frontier) = Len(rest) + 1 /\ frontier[1] = h
      /\ \A i \in 1 .. Len(rest) : rest[i] = frontier[i + 1]
  <2>1. onward \in Seq(Beginnings \cap GoOn(next))
    BY <1>7, AmongMembers DEF next
  <2>2. onward \in Seq(Beginnings)
    BY <2>1
  <2>3. /\ Len(frontier) \in Nat \ {0} /\ Len(rest) = Len(frontier) - 1
        /\ \A i \in 1 .. Len(rest) : rest[i] = frontier[i + 1]
        /\ frontier[1] = h
    BY <1>6, HeadTailProperties, EmptySeq, LenProperties DEF rest, h
  <2>. QED  BY <1>6, <1>7, <2>2, <2>3, LenProperties DEF rest, next
<1>9. /\ Len(frontier') = Len(rest) + Len(onward)
      /\ \A i \in 1 .. Len(rest) : frontier'[i] = rest[i]
      /\ \A i \in 1 .. Len(onward) : frontier'[Len(rest) + i] = onward[i]
  <2>. HIDE DEF onward
  <2>1. frontier' = rest \o onward
    BY <1>7 DEF onward, rest, next
  <2>2. /\ Len(frontier') = Len(rest) + Len(onward)
        /\ \A i \in 1 .. Len(rest) + Len(onward) :
             frontier'[i] = IF i <= Len(rest) THEN rest[i] ELSE onward[i - Len(rest)]
    BY <1>8, <2>1, ConcatProperties
  <2>3. ASSUME NEW i \in 1 .. Len(rest) PROVE frontier'[i] = rest[i]
    <3>1. i \in 1 .. Len(rest) + Len(onward) /\ i <= Len(rest)
      BY <1>8
    <3>. QED  BY <2>2, <3>1
  <2>4. ASSUME NEW i \in 1 .. Len(onward) PROVE frontier'[Len(rest) + i] = onward[i]
    <3>1. /\ Len(rest) + i \in 1 .. Len(rest) + Len(onward) /\ ~(Len(rest) + i <= Len(rest))
          /\ Len(rest) + i - Len(rest) = i
      BY <1>8
    <3>. QED  BY <2>2, <3>1
  <2>. QED  BY <2>2, <2>3, <2>4
<1>10. CASE \E i \in 1 .. Len(frontier) : i # 1 /\ Leading(frontier[i], p)
  <2>1. PICK i \in 1 .. Len(frontier) : i # 1 /\ Leading(frontier[i], p)
    BY <1>10
  <2>2. i - 1 \in 1 .. Len(rest) /\ i - 1 + 1 = i
    BY <1>8, <2>1
  <2>3. i - 1 \in 1 .. Len(frontier')
    BY <1>8, <1>9, <2>2
  <2>4. frontier'[i - 1] = frontier[i]
    <3>1. frontier'[i - 1] = rest[i - 1] /\ rest[i - 1] = frontier[i - 1 + 1]
      BY <1>8, <1>9, <2>2
    <3>. QED  BY <2>2, <3>1
  <2>. QED  BY <2>1, <2>3, <2>4
<1>11. CASE Leading(h, p)
  <2>. DEFINE b == p[n + 1]
              q == Append(h, b)
  <2>1. /\ h \in Seq(Asset) /\ n \in Nat /\ n < Len(p) /\ n + 1 \in 1 .. Len(p)
        /\ \A k \in 1 .. n : k \in 1 .. Len(p) /\ h[k] = p[k]
    <3>1. h \in Seq(Asset) /\ n \in Nat /\ n < Len(p)
      BY <1>6, <1>11, LenProperties DEF Leading, Beginnings, h
    <3>. QED  BY <1>4, <1>11, <3>1 DEF Leading
  <2>2. /\ b \in Asset /\ HasBook(Before(p, n + 1), b) /\ (b = dst \/ ~Same(b, src))
    BY <1>4, <2>1
  <2>3. Before(p, n + 1) = Here
    <3>1. CASE n = 0
      <4>1. h = << >>
        BY <2>1, <3>1, EmptySeq
      <4>. QED  BY <3>1, <4>1 DEF Here, h, Before
    <3>2. CASE n # 0
      <4>1. h # << >> /\ n \in 1 .. n /\ n + 1 # 1 /\ n + 1 - 1 = n
        BY <2>1, <3>2, EmptySeq
      <4>2. Last(h) = p[n]
        BY <2>1, <4>1 DEF Last
      <4>. QED  BY <4>1, <4>2 DEF Here, h, Before
    <3>. QED  BY <3>1, <3>2
  <2>4. MayStep(h, b)
    <3>1. ~Same(b, src)
      BY <1>2, <2>2 DEF Wide, Same
    <3>2. \A k \in 1 .. n : h[k] # b
      <4>1. \A k \in 1 .. n : k # n + 1
        BY <2>1
      <4>. QED  BY <1>4, <2>1, <4>1
    <3>. QED  BY <3>1, <3>2 DEF MayStep, Contains
  <2>5. PICK j \in 1 .. Len(open) : open[j] = b
    <3>. DEFINE N == Neighbors(Here)
                may == {x \in Asset : MayStep(Head(frontier), x)}
    <3>1. b \in N /\ b \in may /\ open = Among(near, may)
      BY <2>2, <2>3, <2>4 DEF Neighbors, h, OpenSteps, open
    <3>3. IsFiniteSet(N) /\ near \in SetToSeqs(N) /\ near \in Seq(N)
      BY <1>7, FS_Subset DEF FastAssumption, Neighbors, OrderedNeighbors
    <3>. HIDE DEF N, may
    <3>5. \A x \in N : \E m \in 1 .. Len(near) : near[m] = x
      BY <3>3, AllOrdered
    <3>2. PICK m \in 1 .. Len(near) : near[m] = b
      BY <3>1, <3>5
    <3>4. \E j \in 1 .. Len(Among(near, may)) : Among(near, may)[j] = b
      BY <3>1, <3>2, <3>3, AmongAll
    <3>. QED  BY <3>1, <3>4
  <2>6. j \in 1 .. Len(next) /\ next[j] = q
    <3>1. Len(open) <= Cardinality(Asset) /\ Cardinality(Asset) \in Nat
      BY <1>7, NeighborsFit DEF open, OpenSteps
    <3>2. Len(open) \in Nat /\ budget.branch \in Nat
      BY <1>7, LenProperties DEF open, FastAssumption, FinderInv, Sought
    <3>3. Len(next) = Len(open)
      BY <1>2, <1>7, <3>1, <3>2 DEF next, open, Wide
    <3>. QED  BY <1>7, <2>5, <3>3 DEF next, open, h
  <2>7. /\ q \in Seq(Asset) /\ Len(q) = n + 1 /\ q[n + 1] = b /\ Last(q) = b
        /\ \A k \in 1 .. n : q[k] = p[k]
    BY <2>1, <2>2, AppendProperties DEF Last
  <2>8. q \in ToSet(next)
    <3>1. DOMAIN next = 1 .. Len(next)
      BY <1>7, LenProperties DEF next
    <3>. QED  BY <2>6, <3>1 DEF ToSet
  <2>. HIDE DEF q
  <2>9. CASE b = dst
    <3>1. n + 1 = Len(p)
      BY <1>4, <2>1, <2>9
    <3>2. q = p
      <4>1. \A k \in 1 .. Len(p) : q[k] = p[k]
        BY <1>4, <2>1, <2>7, <3>1
      <4>. QED  BY <1>4, <2>7, <3>1, <4>1, SeqEqual
    <3>. DEFINE s == Among(next, Arrived(next))
    <3>3. next \in Seq(Seq(Asset))
      <4>1. Beginnings \subseteq Seq(Asset)
        BY DEF Beginnings
      <4>. QED  BY <1>7, <4>1 DEF next
    <3>4. s \in Seq(Seq(Asset))
      <4>1. s \in Seq(Seq(Asset) \cap Arrived(next))
        BY <3>3, AmongMembers
      <4>. QED  BY <4>1
    <3>5. PICK k \in 1 .. Len(s) : s[k] = p
      <4>. DEFINE T == Arrived(next)
      <4>1. q \in T
        BY <2>7, <2>8, <2>9 DEF Arrived
      <4>. HIDE DEF T
      <4>2. \E k \in 1 .. Len(Among(next, T)) : Among(next, T)[k] = q
        BY <2>6, <3>3, <4>1, AmongAll
      <4>. QED  BY <3>2, <4>2 DEF T
    <3>. HIDE DEF s
    <3>6. Extends(candidates', candidates, Len(s), s)
      BY <1>7, <3>4, AddsPaths DEF FinderInv, Found, next, s
    <3>7. p # << >> /\ Len(p) <= MaxPathLength
      <4>1. budget.maxHops \in 0 .. MaxPathLength
        BY DEF FastAssumption, FinderInv, Sought
      <4>. QED  BY <1>4, <4>1, EmptySeq DEF FastAssumption
    <3>. QED  BY <3>5, <3>6, <3>7 DEF Extends
  <2>10. CASE b # dst
    <3>1. n + 1 < Len(p)
      BY <1>4, <2>1, <2>10
    <3>2. q \in GoOn(next)
      <4>1. budget.maxHops \in Nat
        BY DEF FastAssumption, FinderInv, Sought
      <4>2. Onward(q)
        BY <1>4, <2>1, <2>7, <2>10, <3>1, <4>1 DEF Onward
      <4>. QED  BY <2>8, <4>2 DEF GoOn
    <3>3. PICK k \in 1 .. Len(onward) : onward[k] = q
      <4>. DEFINE T == GoOn(next)
      <4>1. q \in T /\ next \in Seq(Beginnings)
        BY <1>7, <3>2 DEF next
      <4>. HIDE DEF T
      <4>2. \E k \in 1 .. Len(Among(next, T)) : Among(next, T)[k] = q
        BY <2>6, <4>1, AmongAll
      <4>. QED  BY <4>2 DEF T
    <3>. HIDE DEF onward
    <3>4. Len(rest) + k \in 1 .. Len(frontier') /\ frontier'[Len(rest) + k] = q
      BY <1>8, <1>9, <3>3
    <3>5. Leading(q, p)
      <4>1. \A i \in 1 .. n + 1 : i = n + 1 \/ i \in 1 .. n
        BY <2>1
      <4>. QED  BY <2>7, <3>1, <4>1 DEF Leading
    <3>. QED  BY <3>4, <3>5
  <2>. QED  BY <2>9, <2>10
<1>12. Contains(candidates, p) \/ \E i \in 1 .. Len(frontier) : Leading(frontier[i], p)
  BY <1>2, <1>3 DEF Complete
<1>. QED  BY <1>5, <1>8, <1>10, <1>11, <1>12

LEMMA CompleteStep ==
  ASSUME FastAssumption, FinderInv, Complete, [FinderNext]_finderVars
  PROVE  Complete'
<1>1. Grows /\ MaxCandidates \in Nat
  BY FinderStep DEF FastAssumption
<1>2. CASE Walk
  BY <1>1, <1>2, WalkCompletes
<1>3. CASE BookChange
  <2>1. churned' # 0
    BY <1>3 DEF BookChange, FinderInv, WorldOK, FastAssumption
  <2>. QED  BY <2>1 DEF Complete, Wide
<1>4. CASE ~Walk /\ ~BookChange
  <2>1. UNCHANGED <<asked, world, walk>>
    BY <1>4 DEF FinderNext, Gather, Direct, ViaNativeIn, ViaNativeOut, Pivots, HubsInFirst, HubsIn,
           HubsOutFirst, HubsOut, WalkEnds, Rank, Finish, finderVars
  <2>2. UNCHANGED <<asked, books, churned, frontier>>
    BY <2>1 DEF world, walk
  <2>. QED  BY <1>1, <2>2, CompleteKept
<1>. QED  BY <1>2, <1>3, <1>4

LEMMA CompleteStart == ASSUME FastAssumption, FinderInit PROVE Complete
<1>1. dst \in Asset /\ frontier = << << >> >>
  BY FinderInitInv DEF FinderInv, Sought, FinderInit
<1>2. ASSUME NEW p \in SimpleWalks(books, budget.maxHops)
      PROVE  \E i \in 1 .. Len(frontier) : Leading(frontier[i], p)
  <2>1. Len(p) \in Nat \ {0}
    BY <1>1, WalkFacts
  <2>2. Len(frontier) = 1 /\ frontier[1] = << >> /\ 1 \in 1 .. 1
    BY <1>1
  <2>3. Leading(<< >>, p)
    BY <2>1 DEF Leading
  <2>. QED  BY <2>2, <2>3
<1>. QED  BY <1>2 DEF Complete

(* A search with a budget wide enough for the graph, which is not cut      *)
(* short and whose books stay as they are, finds every simple way within   *)
(* its number of hops, in whatever order it takes the neighbours.          *)
THEOREM WideSearchIsComplete == FinderSpec => []WideEnoughIsComplete
<1>1. FinderInit => Complete
  BY FastAssumption, CompleteStart
<1>2. FinderInv /\ Complete /\ [FinderNext]_finderVars => Complete'
  BY FastAssumption, CompleteStep
<1>3. FinderInv /\ Complete => WideEnoughIsComplete
  <2>. SUFFICES ASSUME FinderInv, Complete, WalkedWide, ~Same(src, dst),
                       NEW p \in SimpleWalks(books, budget.maxHops)
                PROVE  p \in ToSet(candidates)
    BY DEF WideEnoughIsComplete
  <2>1. Wide /\ Len(candidates) < MaxCandidates /\ frontier = << >>
    BY DEF WalkedWide, Undisturbed, Wide
  <2>2. Contains(candidates, p)
    <3>1. \A i \in 1 .. Len(frontier) : FALSE
      BY <2>1
    <3>. QED  BY <2>1, <3>1 DEF Complete
  <2>. QED  BY <2>2, LenProperties DEF FinderInv, Found, Contains, ToSet
<1>. QED  BY FinderAlways, <1>1, <1>2, <1>3, PTL DEF FinderSpec

-----------------------------------------------------------------------------
(* No long path hides a short one: the pairs are handed to addPath before   *)
(* anything else is, and the ranking takes the candidates as they come.     *)

Straight == {p \in {<<dst>>} : HasBook(src, dst)}
ByNative ==
  {p \in {<<Native, dst>>} : NeitherNative /\ HasBook(src, Native) /\ HasBook(Native, dst)}

Asking == pc \in {"pairs", "native", "native out", "pivots"}

(* The books stay as they are, no deadline falls, and no pivot is left out. *)
Calm == Undisturbed /\ Cardinality(Mids(src, dst)) <= budget.twoHop

(* What is longer than a pair comes after every pair, and every pair is    *)
(* there unless there is no room for it, and so for nothing longer.        *)
ShortsLead ==
  /\ \A i \in 1 .. Len(candidates) :
       Len(candidates[i]) > 2 => \A p \in ShortWalks : \E j \in 1 .. i - 1 : candidates[j] = p
  /\ Len(candidates) < MaxCandidates /\ MaxPathLength > 1 =>
       \A p \in ShortWalks : Contains(candidates, p)

ShortsFirst ==
  Calm =>
    /\ Asking => candidates = << >>
    /\ pc = "native" => pairs = Straight
    /\ pc = "native out" => pairs = Straight /\ NeitherNative /\ HasBook(src, Native)
    /\ pc = "pivots" => pairs = Straight \cup ByNative
    /\ ~Asking => ShortsLead

(* The sequences of currencies that have been priced are those of the      *)
(* candidates up to here, and no two results have the same one.            *)
RankedSoFar ==
  /\ rankedKeys = {HopCurrencyKey(candidates[j]) : j \in 1 .. at}
  /\ \A i \in 1 .. Len(ranks) : HopCurrencyKey(ranks[i].path) \in rankedKeys
  /\ \A i, j \in 1 .. Len(ranks) :
       HopCurrencyKey(ranks[i].path) = HopCurrencyKey(ranks[j].path) => i = j

(* The queries for pairs answer as before. *)
LEMMA SameShorts ==
  ASSUME UNCHANGED <<asked, books>>
  PROVE  /\ ShortWalks' = ShortWalks /\ Straight' = Straight /\ ByNative' = ByNative
         /\ Mids(src, dst)' = Mids(src, dst) /\ budget' = budget
         /\ NeitherNative' <=> NeitherNative
         /\ HasBook(src, Native)' <=> HasBook(src, Native)
<1>1. src' = src /\ dst' = dst /\ domain' = domain /\ budget' = budget /\ books' = books
  BY DEF asked
<1>2. \A x, y : (Keyed(x, y)' <=> Keyed(x, y)) /\ (Same(x, y)' <=> Same(x, y))
  BY <1>1 DEF Keyed, Same
<1>3. \A a, b : HasBook(a, b)' <=> HasBook(a, b)
  BY <1>1, <1>2 DEF HasBook
<1>4. Mids(src, dst)' = Mids(src, dst)
  BY <1>1, <1>2, <1>3 DEF Mids, Intermediates, Neighbors
<1>5. (NeitherNative' <=> NeitherNative) /\ (HasBook(src, dst)' <=> HasBook(src, dst))
      /\ (HasBook(src, Native)' <=> HasBook(src, Native))
      /\ (HasBook(Native, dst)' <=> HasBook(Native, dst))
  BY <1>1, <1>3 DEF NeitherNative
<1>6. Straight' = Straight /\ ByNative' = ByNative
  BY <1>1, <1>5 DEF Straight, ByNative
<1>7. ShortWalks' = ShortWalks
  BY <1>1, <1>4, <1>5 DEF ShortWalks
<1>. QED  BY <1>1, <1>4, <1>5, <1>6, <1>7

(* A search that is calm has been so. *)
LEMMA CalmBefore ==
  ASSUME FastAssumption, FinderInv, [FinderNext]_finderVars, Calm'
  PROVE  Calm /\ UNCHANGED <<asked, books>>
<1>1. ~late' /\ churned' = 0 /\ (Cardinality(Mids(src, dst)) <= budget.twoHop)'
  BY DEF Calm, Undisturbed
<1>2. ~BookChange
  BY <1>1 DEF BookChange, FinderInv, WorldOK, FastAssumption
<1>3. UNCHANGED <<asked, world>>
  BY <1>2 DEF FinderNext, Gather, Direct, ViaNativeIn, ViaNativeOut, Pivots, HubsInFirst, HubsIn,
         HubsOutFirst, HubsOut, Walk, WalkEnds, Rank, Finish, finderVars
<1>4. \A M, limit, n : Loop(M, limit, n) /\ late => late'
  BY Zenon DEF Loop
<1>5. ~late
  BY <1>1, <1>2, <1>4, Zenon
     DEF FinderNext, Gather, Direct, ViaNativeIn, ViaNativeOut, Pivots, HubsInFirst, HubsIn,
         HubLoop, HubsOutFirst, HubsOut, Walk, WalkEnds, Rank, Finish, finderVars
<1>6. books' = books /\ churned' = churned
  BY <1>3 DEF world
<1>7. Mids(src, dst)' = Mids(src, dst) /\ budget' = budget
  BY <1>3, <1>6, SameShorts
<1>. QED  BY <1>1, <1>3, <1>5, <1>6, <1>7 DEF Calm, Undisturbed

(* A loop that no deadline ends and whose limit is wide enough takes all.  *)
LEMMA LoopTakesAll ==
  ASSUME NEW M, IsFiniteSet(M), NEW seen \in SUBSET M, NEW limit \in Nat,
         Cardinality(M) <= limit, Loop(M, limit, Cardinality(seen)), ~late'
  PROVE  seen = M
<1>1. Cardinality(M) \in Nat /\ Cardinality(seen) \in Nat /\ Cardinality(seen) <= Cardinality(M)
  BY FS_Subset, FS_CardinalityType
<1>2. (IF Cardinality(M) < limit THEN Cardinality(M) ELSE limit) = Cardinality(M)
  BY <1>1
<1>3. late' = (late \/ Cardinality(seen) < Cardinality(M))
  BY <1>2 DEF Loop
<1>4. ~(Cardinality(seen) < Cardinality(M))
  BY <1>3, Zenon
<1>5. Cardinality(seen) = Cardinality(M)
  BY <1>1, <1>4
<1>. QED  BY <1>5, FS_Subset

(* What grows behind the pairs leaves them in front. *)
LEMMA ShortsStayFirst ==
  ASSUME FastAssumption, ShortsLead, Grows, UNCHANGED <<asked, books>>,
         candidates' \in Seq(Seq(Asset))
  PROVE  ShortsLead'
<1>1. ShortWalks' = ShortWalks /\ MaxCandidates \in Nat /\ MaxPathLength \in Nat
  BY SameShorts DEF FastAssumption
<1>2. ASSUME NEW i \in 1 .. Len(candidates'), Len(candidates'[i]) > 2, NEW p \in ShortWalks
      PROVE  \E j \in 1 .. i - 1 : candidates'[j] = p
  <2>1. CASE i \in 1 .. Len(candidates)
    <3>1. Len(candidates[i]) > 2
      BY <1>2, <2>1 DEF Grows
    <3>2. PICK j \in 1 .. i - 1 : candidates[j] = p
      BY <2>1, <3>1 DEF ShortsLead
    <3>3. j \in 1 .. Len(candidates)
      BY <2>1 DEF Grows
    <3>. QED  BY <3>2, <3>3 DEF Grows
  <2>2. CASE i \notin 1 .. Len(candidates)
    <3>1. /\ i > Len(candidates) /\ Len(candidates) < MaxCandidates
          /\ Len(candidates'[i]) <= MaxPathLength
      BY <2>2 DEF Grows
    <3>2. Len(candidates'[i]) \in Nat
      BY ElementOfSeq, LenProperties
    <3>3. Contains(candidates, p)
      BY <1>1, <1>2, <3>1, <3>2 DEF ShortsLead
    <3>4. PICK j \in 1 .. Len(candidates) : candidates[j] = p
      BY <3>3 DEF Contains
    <3>5. j \in 1 .. i - 1 /\ candidates'[j] = p
      BY <3>1, <3>4 DEF Grows
    <3>. QED  BY <3>5
  <2>. QED  BY <2>1, <2>2
<1>3. ASSUME Len(candidates') < MaxCandidates, MaxPathLength > 1, NEW p \in ShortWalks
      PROVE  Contains(candidates', p)
  <2>1. Len(candidates) < MaxCandidates
    BY <1>1, <1>3 DEF Grows
  <2>. QED  BY <1>3, <2>1, GrowsKeeps DEF ShortsLead
<1>. QED  BY <1>1, <1>2, <1>3 DEF ShortsLead

(* The pivots hand over every pair there is. *)
LEMMA PivotsLead ==
  ASSUME FastAssumption, FinderInv, FinderInv', ShortsFirst, Pivots, Calm, ~late'
  PROVE  ShortsLead'
<1>1. PICK seen \in SUBSET Mids(src, dst) :
        /\ Loop(IF NeitherNative THEN Mids(src, dst) \ {Native} ELSE Mids(src, dst),
                budget.twoHop, Cardinality(seen))
        /\ seen \subseteq IF NeitherNative THEN Mids(src, dst) \ {Native} ELSE Mids(src, dst)
        /\ \E s \in Sorted(pairs \cup {<<m, dst>> : m \in seen}) :
             candidates' = AddPaths(candidates, s)
  BY DEF Pivots
<1>2. Mids(src, dst) \ {Native} =
        IF NeitherNative THEN Mids(src, dst) \ {Native} ELSE Mids(src, dst)
  BY DEF NeitherNative, Mids, Same
<1>3. IsFiniteSet(Mids(src, dst))
  BY MiddleAssets DEF FinderInv
<1>4. seen = Mids(src, dst) \ {Native}
  <2>. DEFINE M == Mids(src, dst) \ {Native}
  <2>1. IsFiniteSet(M) /\ Cardinality(M) <= Cardinality(Mids(src, dst))
        /\ Cardinality(M) \in Nat /\ Cardinality(Mids(src, dst)) \in Nat
    BY <1>3, FS_Subset, FS_CardinalityType
  <2>2. Loop(M, budget.twoHop, Cardinality(seen)) /\ seen \in SUBSET M
    BY <1>1, <1>2
  <2>3. budget.twoHop \in Nat
    BY DEF FastAssumption, FinderInv, Sought
  <2>4. Cardinality(M) <= budget.twoHop
    BY <2>1, <2>3 DEF Calm
  <2>. HIDE DEF M
  <2>5. seen = M
    BY <2>1, <2>2, <2>3, <2>4, LoopTakesAll
  <2>. QED  BY <2>5 DEF M
<1>. DEFINE P == pairs \cup {<<m, dst>> : m \in seen}
<1>5. P = ShortWalks /\ candidates = << >>
  <2>1. pc = "pivots" /\ Asking
    BY DEF Pivots, Asking
  <2>2. pairs = Straight \cup ByNative /\ candidates = << >>
    BY <2>1 DEF ShortsFirst
  <2>. QED  BY <1>4, <2>2 DEF ShortWalks, Straight, ByNative
<1>6. PICK s \in Sorted(P) : candidates' = AddPaths(candidates, s)
  BY <1>1
<1>. HIDE DEF P
<1>7. /\ src' = src /\ dst' = dst /\ ShortWalks' = ShortWalks
      /\ dst \in Asset /\ Native \in Asset /\ Mids(src, dst) \subseteq Asset
  BY SameShorts DEF Pivots, asked, world, FinderInv, Sought, FastAssumption, Mids,
                    Intermediates, Neighbors
<1>8. \A p \in ShortWalks : p \in Seq(Asset) /\ p # << >> /\ Len(p) <= 2 /\ Len(p) \in Nat
  <2>. SUFFICES ASSUME NEW p \in ShortWalks
                PROVE  p \in Seq(Asset) /\ p # << >> /\ Len(p) <= 2 /\ Len(p) \in Nat
    OBVIOUS
  <2>1. p = <<dst>> \/ \E m \in Asset : p = <<m, dst>>
    BY <1>7 DEF ShortWalks
  <2>2. CASE p = <<dst>>
    BY <1>7, <2>2
  <2>3. ASSUME NEW m \in Asset, p = <<m, dst>>
        PROVE  p \in Seq(Asset) /\ p # << >> /\ Len(p) <= 2 /\ Len(p) \in Nat
    BY <1>7, <2>3
  <2>. QED  BY <2>1, <2>2, <2>3
<1>9. IsFiniteSet(P) /\ s \in SetToSeqs(P)
  <2>1. IsFiniteSet(seen)
    BY <1>3, FS_Subset
  <2>. DEFINE f == [m \in seen |-> <<m, dst>>]
  <2>2. IsFiniteSet({f[m] : m \in seen})
    <3>1. f = [m \in seen |-> f[m]]
      OBVIOUS
    <3>. HIDE DEF f
    <3>. QED  BY <2>1, <3>1, FiniteImage
  <2>. DEFINE Q == {<<m, dst>> : m \in seen}
  <2>3. Q = {f[m] : m \in seen}
    OBVIOUS
  <2>4. IsFiniteSet(Q) /\ IsFiniteSet(pairs)
    BY <2>2, <2>3 DEF FinderInv, PairsOK
  <2>5. P = pairs \cup Q
    BY DEF P
  <2>. HIDE DEF Q
  <2>. QED  BY <2>4, <2>5, FS_Union DEF Sorted
<1>10. s \in Seq(P) /\ \A x \in P : \E k \in 1 .. Len(s) : s[k] = x
  BY <1>9, Orders, AllOrdered
<1>11. s \in Seq(Seq(Asset)) /\ \A k \in 1 .. Len(s) : Len(s[k]) <= 2 /\ s[k] # << >>
  <2>1. ShortWalks \subseteq Seq(Asset)
    BY <1>8
  <2>2. \A k \in 1 .. Len(s) : s[k] \in ShortWalks
    BY <1>5, <1>10, ElementOfSeq
  <2>. QED  BY <1>5, <1>8, <1>10, <2>1, <2>2
<1>12. Extends(candidates', candidates, Len(s), s)
  BY <1>6, <1>11, AddsPaths DEF FinderInv, Found
<1>13. Len(candidates) = 0 /\ Len(candidates') \in Nat
  BY <1>5, <1>12, LenProperties DEF Extends
<1>14. ASSUME NEW i \in 1 .. Len(candidates') PROVE ~(Len(candidates'[i]) > 2)
  <2>1. i > Len(candidates)
    BY <1>13
  <2>2. PICK k \in 1 .. Len(s) : candidates'[i] = s[k]
    BY <1>12, <2>1 DEF Extends
  <2>3. s[k] \in ShortWalks
    BY <1>5, <1>10, ElementOfSeq
  <2>. QED  BY <1>8, <2>2, <2>3
<1>15. ASSUME Len(candidates') < MaxCandidates, MaxPathLength > 1, NEW p \in ShortWalks
       PROVE  Contains(candidates', p)
  <2>1. PICK k \in 1 .. Len(s) : s[k] = p
    BY <1>5, <1>10
  <2>2. p # << >> /\ Len(p) <= MaxPathLength
    BY <1>8, <1>15 DEF FastAssumption
  <2>. QED  BY <1>12, <1>15, <2>1, <2>2 DEF Extends
<1>. QED  BY <1>7, <1>14, <1>15 DEF ShortsLead

LEMMA ShortsStep ==
  ASSUME FastAssumption, FinderInv, ShortsFirst, [FinderNext]_finderVars
  PROVE  ShortsFirst'
<1>. SUFFICES ASSUME Calm' PROVE ShortsFirst'
  BY DEF ShortsFirst
<1>1. Calm /\ UNCHANGED <<asked, books>> /\ FinderInv' /\ Grows /\ ~late'
  BY CalmBefore, FinderStep DEF Calm, Undisturbed
<1>2. /\ Straight' = Straight /\ ByNative' = ByNative /\ (NeitherNative' <=> NeitherNative)
      /\ (HasBook(src, Native)' <=> HasBook(src, Native))
  BY <1>1, SameShorts
<1>3. /\ Asking => candidates = << >>
      /\ pc = "native" => pairs = Straight
      /\ pc = "native out" => pairs = Straight /\ NeitherNative /\ HasBook(src, Native)
      /\ pc = "pivots" => pairs = Straight \cup ByNative
      /\ ~Asking => ShortsLead
  BY <1>1 DEF ShortsFirst
<1>4. CASE UNCHANGED finderVars
  <2>1. UNCHANGED <<pc, pairs, candidates>> /\ (Asking' <=> Asking)
    BY <1>4 DEF finderVars, Asking
  <2>2. Asking \/ ShortsLead'
    BY <1>1, <1>3, ShortsStayFirst DEF FinderInv, Found
  <2>. QED  BY <1>2, <1>3, <2>1, <2>2 DEF ShortsFirst
<1>5. CASE Direct
  <2>1. /\ pc = "pairs" /\ pc' = "native" /\ UNCHANGED candidates
        /\ pairs' = IF HasBook(src, dst) THEN {<<dst>>} ELSE {}
    BY <1>5 DEF Direct
  <2>2. pairs' = Straight
    BY <2>1 DEF Straight
  <2>. QED  BY <1>2, <1>3, <2>1, <2>2 DEF ShortsFirst, Asking
<1>6. CASE ViaNativeIn
  <2>1. /\ pc = "native" /\ UNCHANGED <<pairs, candidates>>
        /\ pc' = IF NeitherNative /\ HasBook(src, Native) THEN "native out" ELSE "pivots"
    BY <1>6 DEF ViaNativeIn
  <2>2. ~(NeitherNative /\ HasBook(src, Native)) => ByNative = {}
    BY DEF ByNative
  <2>. QED  BY <1>2, <1>3, <2>1, <2>2 DEF ShortsFirst, Asking
<1>7. CASE ViaNativeOut
  <2>1. /\ pc = "native out" /\ pc' = "pivots" /\ UNCHANGED candidates
        /\ pairs' = IF HasBook(Native, dst) THEN pairs \cup {<<Native, dst>>} ELSE pairs
    BY <1>7 DEF ViaNativeOut
  <2>2. ByNative = IF HasBook(Native, dst) THEN {<<Native, dst>>} ELSE {}
    BY <1>3, <2>1 DEF ByNative
  <2>3. pairs' = Straight \cup ByNative
    BY <1>3, <2>1, <2>2
  <2>. QED  BY <1>2, <1>3, <2>1, <2>3 DEF ShortsFirst, Asking
<1>8. CASE Pivots
  <2>1. pc' = "hubs in"
    BY <1>8 DEF Pivots
  <2>. QED  BY <1>1, <1>8, <2>1, PivotsLead DEF ShortsFirst, Asking
<1>9. CASE ~Asking /\ ~Asking'
  <2>1. ShortsLead'
    BY <1>1, <1>3, <1>9, ShortsStayFirst DEF FinderInv, Found
  <2>. QED  BY <1>9, <2>1 DEF ShortsFirst, Asking
<1>10. CASE BookChange
  BY <1>10 DEF Calm, Undisturbed, BookChange, FinderInv, WorldOK, FastAssumption
<1>11. HubsInFirst \/ HubsIn \/ HubsOutFirst \/ HubsOut \/ Walk \/ WalkEnds \/ Rank \/ Finish
         => ~Asking /\ ~Asking'
  BY DEF HubsInFirst, HubsIn, HubsOutFirst, HubsOut, Walk, WalkEnds, Rank, Finish, Asking
<1>. QED  BY <1>4, <1>5, <1>6, <1>7, <1>8, <1>9, <1>10, <1>11 DEF FinderNext, Gather

(* The ranking takes the first candidate whose currencies have not been    *)
(* priced.                                                                 *)
LEMMA RankedStep ==
  ASSUME FastAssumption, FinderInv, RankedSoFar, [FinderNext]_finderVars
  PROVE  RankedSoFar'
<1>1. /\ candidates \in Seq(Seq(Asset)) /\ Len(candidates) \in Nat
      /\ DOMAIN candidates = 1 .. Len(candidates) /\ at \in 0 .. Len(candidates)
  BY LenProperties DEF FinderInv, Found, RankingOK
<1>2. CASE UNCHANGED <<at, rankedKeys, ranks>> /\ \A j \in 1 .. at : candidates'[j] = candidates[j]
  <2>1. {HopCurrencyKey(candidates[j]) : j \in 1 .. at}
          = {HopCurrencyKey(candidates'[j]) : j \in 1 .. at}
    BY <1>2
  <2>2. RankedSoFar' <=>
          /\ rankedKeys' = {HopCurrencyKey(candidates'[j]) : j \in 1 .. at'}
          /\ \A i \in 1 .. Len(ranks') : HopCurrencyKey(ranks'[i].path) \in rankedKeys'
          /\ \A i, j \in 1 .. Len(ranks') :
               HopCurrencyKey(ranks'[i].path) = HopCurrencyKey(ranks'[j].path) => i = j
    BY DEF RankedSoFar, HopCurrencyKey
  <2>. QED  BY <1>2, <2>1, <2>2 DEF RankedSoFar
<1>3. CASE ~Rank
  <2>1. UNCHANGED ranking
    BY <1>3 DEF FinderNext, Gather, BookChange, Direct, ViaNativeIn, ViaNativeOut, Pivots,
           HubsInFirst, HubsIn, HubsOutFirst, HubsOut, Walk, WalkEnds, Finish, finderVars
  <2>2. \A j \in 1 .. at : candidates'[j] = candidates[j]
    <3>1. \A j \in 1 .. at : j \in 1 .. Len(candidates)
      BY <1>1
    <3>. QED  BY <3>1, FinderStep DEF Grows
  <2>. QED  BY <1>2, <2>1, <2>2 DEF ranking
<1>4. CASE Rank
  <2>. DEFINE i == Min(Unranked)
              k == HopCurrencyKey(candidates[i])
  <2>1. /\ UNCHANGED candidates /\ Unranked # {} /\ at' = i /\ rankedKeys' = rankedKeys \cup {k}
        /\ \/ UNCHANGED ranks
           \/ \E r \in Rates :
                ranks' = Append(ranks, [path |-> candidates[i], rate |-> r, index |-> i])
    BY <1>4 DEF Rank, MoreToRank
  <2>2. i \in Unranked /\ \A j \in Unranked : i <= j
    <3>1. Unranked \in SUBSET Nat
      BY <1>1 DEF Unranked
    <3>2. PICK x \in Unranked : \A y \in Unranked : x <= y
      BY <2>1, <3>1, LeastNumber
    <3>3. \A z \in Unranked : (\A y \in Unranked : z <= y) => z = x
      BY <3>1, <3>2
    <3>. QED  BY <3>2, <3>3 DEF Min
  <2>. HIDE DEF i
  <2>3. i \in 1 .. Len(candidates) /\ i > at /\ k \notin rankedKeys
    BY <1>1, <2>2 DEF Unranked
  <2>4. rankedKeys' = {HopCurrencyKey(candidates[j]) : j \in 1 .. i}
    <3>1. ASSUME NEW j \in 1 .. i
          PROVE  HopCurrencyKey(candidates[j]) \in rankedKeys \/ HopCurrencyKey(candidates[j]) = k
      <4>1. CASE j \in 1 .. at
        BY <4>1 DEF RankedSoFar
      <4>2. CASE j \notin 1 .. at /\ j # i
        <5>1. j \in DOMAIN candidates /\ j > at /\ ~(i <= j)
          BY <1>1, <2>3, <4>2
        <5>. QED  BY <2>2, <5>1 DEF Unranked
      <4>. QED  BY <4>1, <4>2
    <3>2. ASSUME NEW q \in rankedKeys
          PROVE  \E j \in 1 .. i : q = HopCurrencyKey(candidates[j])
      <4>1. PICK j \in 1 .. at : q = HopCurrencyKey(candidates[j])
        BY DEF RankedSoFar
      <4>2. j \in 1 .. i
        BY <1>1, <2>3
      <4>. QED  BY <4>1, <4>2
    <3>3. i \in 1 .. i
      BY <2>3
    <3>. HIDE DEF k
    <3>4. \A q \in rankedKeys' : \E j \in 1 .. i : q = HopCurrencyKey(candidates[j])
      BY <2>1, <3>2, <3>3 DEF k
    <3>5. \A j \in 1 .. i : HopCurrencyKey(candidates[j]) \in rankedKeys'
      BY <2>1, <3>1
    <3>. QED  BY <3>4, <3>5
  <2>. HIDE DEF k
  <2>5. CASE UNCHANGED ranks
    <3>1. RankedSoFar' <=>
            /\ rankedKeys' = {HopCurrencyKey(candidates[j]) : j \in 1 .. i}
            /\ \A a \in 1 .. Len(ranks) : HopCurrencyKey(ranks[a].path) \in rankedKeys'
            /\ \A a, b \in 1 .. Len(ranks) :
                 HopCurrencyKey(ranks[a].path) = HopCurrencyKey(ranks[b].path) => a = b
      BY <2>1, <2>5 DEF RankedSoFar, HopCurrencyKey
    <3>. QED  BY <2>1, <2>4, <3>1 DEF RankedSoFar
  <2>6. ASSUME NEW r \in Rates,
               ranks' = Append(ranks, [path |-> candidates[i], rate |-> r, index |-> i])
        PROVE  RankedSoFar'
    <3>. DEFINE R == [path : Seq(Asset), rate : Rates, index : DOMAIN candidates]
                x == [path |-> candidates[i], rate |-> r, index |-> i]
                n == Len(ranks)
                key(a) == HopCurrencyKey(ranks'[a].path)
    <3>1. x \in R /\ ranks \in Seq(R) /\ HopCurrencyKey(x.path) = k
      BY <1>1, <2>3, ElementOfSeq DEF k, FinderInv, RankingOK
    <3>. HIDE DEF R, x
    <3>2. /\ n \in Nat /\ Len(ranks') = n + 1 /\ ranks'[n + 1] = x
          /\ \A a \in 1 .. n : ranks'[a] = ranks[a]
      BY <2>6, <3>1, AppendProperties, LenProperties DEF x
    <3>. HIDE DEF n
    <3>3. \A a \in 1 .. n + 1 : a \in 1 .. n \/ a = n + 1
      BY <3>2
    <3>4. /\ \A a \in 1 .. n : key(a) \in rankedKeys
          /\ \A a, b \in 1 .. n : key(a) = key(b) => a = b
      BY <3>2 DEF RankedSoFar, n
    <3>5. key(n + 1) = k
      BY <3>1, <3>2
    <3>. HIDE DEF key
    <3>6. \A a \in 1 .. n + 1 : key(a) \in rankedKeys'
      BY <2>1, <3>3, <3>4, <3>5
    <3>7. \A a, b \in 1 .. n + 1 : key(a) = key(b) => a = b
      BY <2>3, <3>3, <3>4, <3>5
    <3>8. RankedSoFar' <=>
            /\ rankedKeys' = {HopCurrencyKey(candidates[j]) : j \in 1 .. i}
            /\ \A a \in 1 .. n + 1 : key(a) \in rankedKeys'
            /\ \A a, b \in 1 .. n + 1 : key(a) = key(b) => a = b
      BY <2>1, <3>2 DEF RankedSoFar, HopCurrencyKey, key
    <3>. QED  BY <2>4, <3>6, <3>7, <3>8
  <2>. QED  BY <2>1, <2>5, <2>6
<1>. QED  BY <1>3, <1>4

(* What is picked of a sequence is in it, in its order. *)
LEMMA AmongOrder ==
  ASSUME NEW U, NEW s \in Seq(U), NEW T
  PROVE  \E w : /\ w \in [1 .. Len(Among(s, T)) -> 1 .. Len(s)]
                /\ \A k \in 1 .. Len(Among(s, T)) : Among(s, T)[k] = s[w[k]] /\ s[w[k]] \in T
                /\ \A j, k \in 1 .. Len(Among(s, T)) : j < k => w[j] < w[k]
<1>1. PICK w : Picks(Among(s, T), w, Len(s), s, T)
  BY AmongPicks
<1>. DEFINE q == Among(s, T)
<1>2. q \in Seq(U \cap T)
  BY AmongMembers
<1>. HIDE DEF q
<1>3. \A k \in 1 .. Len(q) : q[k] \in T
  BY <1>2, ElementOfSeq
<1>4. /\ w \in [1 .. Len(q) -> 1 .. Len(s)]
      /\ \A k \in 1 .. Len(q) : q[k] = s[w[k]]
      /\ \A j, k \in 1 .. Len(q) : j < k => w[j] < w[k]
  BY <1>1 DEF Picks, q
<1>. QED  BY <1>3, <1>4 DEF q

(* Two results in the order they are returned in. *)
InOrder(a, b) ==
  /\ Short(b) => Short(a)
  /\ (Short(a) <=> Short(b)) => Ahead(a, b)

LEMMA ChosenOrder ==
  ASSUME NEW R, NEW sorted \in Seq(R),
         \A i, j \in 1 .. Len(sorted) : i < j => Ahead(sorted[i], sorted[j])
  PROVE  /\ Chosen(sorted) \in Seq(R)
         /\ \A i \in 1 .. Len(sorted) :
              \E k \in 1 .. Len(Chosen(sorted)) : Chosen(sorted)[k] = sorted[i]
         /\ \A k \in 1 .. Len(Chosen(sorted)) :
              \E i \in 1 .. Len(sorted) : Chosen(sorted)[k] = sorted[i]
         /\ \A i, k \in 1 .. Len(Chosen(sorted)) :
              i < k => InOrder(Chosen(sorted)[i], Chosen(sorted)[k])
<1>. DEFINE short == {r \in ToSet(sorted) : Short(r)}
            long == ToSet(sorted) \ short
            S == Among(sorted, short)
            L == Among(sorted, long)
            Q == Chosen(sorted)
<1>1. Q = S \o L
  BY DEF Chosen
<1>2. \A r \in short : Short(r)
  OBVIOUS
<1>3. \A r \in long : ~Short(r)
  OBVIOUS
<1>4. \A i \in 1 .. Len(sorted) : sorted[i] \in short \/ sorted[i] \in long
  BY LenProperties DEF ToSet
<1>. HIDE DEF short, long
<1>5. S \in Seq(R \cap short) /\ L \in Seq(R \cap long)
  BY AmongMembers
<1>6. S \in Seq(R) /\ L \in Seq(R)
  BY <1>5
<1>7. PICK u : /\ u \in [1 .. Len(S) -> 1 .. Len(sorted)]
               /\ \A k \in 1 .. Len(S) : S[k] = sorted[u[k]] /\ sorted[u[k]] \in short
               /\ \A j, k \in 1 .. Len(S) : j < k => u[j] < u[k]
  BY AmongOrder
<1>8. PICK v : /\ v \in [1 .. Len(L) -> 1 .. Len(sorted)]
               /\ \A k \in 1 .. Len(L) : L[k] = sorted[v[k]] /\ sorted[v[k]] \in long
               /\ \A j, k \in 1 .. Len(L) : j < k => v[j] < v[k]
  BY AmongOrder
<1>9. ASSUME NEW i \in 1 .. Len(sorted)
      PROVE  \/ \E k \in 1 .. Len(S) : S[k] = sorted[i]
             \/ \E k \in 1 .. Len(L) : L[k] = sorted[i]
  <2>1. CASE sorted[i] \in short
    <3>1. \E k \in 1 .. Len(Among(sorted, short)) : Among(sorted, short)[k] = sorted[i]
      BY <2>1, AmongAll
    <3>. QED  BY <3>1
  <2>2. CASE sorted[i] \in long
    <3>1. \E k \in 1 .. Len(Among(sorted, long)) : Among(sorted, long)[k] = sorted[i]
      BY <2>2, AmongAll
    <3>. QED  BY <3>1
  <2>. QED  BY <1>4, <2>1, <2>2
<1>. HIDE DEF S, L, Q
<1>10. Len(S) \in Nat /\ Len(L) \in Nat
  BY <1>6, LenProperties
<1>11. /\ Q \in Seq(R) /\ Len(Q) = Len(S) + Len(L)
       /\ \A i \in 1 .. Len(S) + Len(L) : Q[i] = IF i <= Len(S) THEN S[i] ELSE L[i - Len(S)]
  BY <1>1, <1>6, ConcatProperties
<1>12. \A i \in 1 .. Len(Q) :
         \/ i \in 1 .. Len(S) /\ Q[i] = S[i]
         \/ i > Len(S) /\ i - Len(S) \in 1 .. Len(L) /\ Q[i] = L[i - Len(S)]
  BY <1>10, <1>11
<1>13. /\ \A i \in 1 .. Len(S) : i \in 1 .. Len(Q) /\ Q[i] = S[i]
       /\ \A i \in 1 .. Len(L) : Len(S) + i \in 1 .. Len(Q) /\ Q[Len(S) + i] = L[i]
  <2>1. ASSUME NEW i \in 1 .. Len(S) PROVE i \in 1 .. Len(Q) /\ Q[i] = S[i]
    <3>1. i \in 1 .. Len(S) + Len(L) /\ i <= Len(S)
      BY <1>10
    <3>. QED  BY <1>11, <3>1
  <2>2. ASSUME NEW i \in 1 .. Len(L)
        PROVE  Len(S) + i \in 1 .. Len(Q) /\ Q[Len(S) + i] = L[i]
    <3>1. /\ Len(S) + i \in 1 .. Len(S) + Len(L) /\ ~(Len(S) + i <= Len(S))
          /\ Len(S) + i - Len(S) = i
      BY <1>10
    <3>. QED  BY <1>11, <3>1
  <2>. QED  BY <2>1, <2>2
<1>14. ASSUME NEW i \in 1 .. Len(sorted) PROVE \E k \in 1 .. Len(Q) : Q[k] = sorted[i]
  BY <1>9, <1>13
<1>15. ASSUME NEW k \in 1 .. Len(Q)
       PROVE  /\ \E i \in 1 .. Len(sorted) : Q[k] = sorted[i]
              /\ k \in 1 .. Len(S) => Q[k] \in short
              /\ k \notin 1 .. Len(S) => Q[k] \in long
  <2>1. CASE k \in 1 .. Len(S)
    <3>1. Q[k] = sorted[u[k]] /\ u[k] \in 1 .. Len(sorted) /\ sorted[u[k]] \in short
      BY <1>7, <1>13, <2>1
    <3>. QED  BY <2>1, <3>1
  <2>2. CASE k \notin 1 .. Len(S)
    <3>. DEFINE b == k - Len(S)
    <3>1. b \in 1 .. Len(L) /\ Q[k] = L[b]
      BY <1>12, <2>2
    <3>. HIDE DEF b
    <3>2. Q[k] = sorted[v[b]] /\ v[b] \in 1 .. Len(sorted) /\ sorted[v[b]] \in long
      BY <1>8, <3>1
    <3>. QED  BY <2>2, <3>2
  <2>. QED  BY <2>1, <2>2
<1>16. ASSUME NEW i \in 1 .. Len(Q), NEW k \in 1 .. Len(Q), i < k PROVE InOrder(Q[i], Q[k])
  <2>1. CASE i \in 1 .. Len(S) /\ k \in 1 .. Len(S)
    <3>1. Q[i] = sorted[u[i]] /\ Q[k] = sorted[u[k]] /\ Short(Q[i]) /\ Short(Q[k])
      BY <1>2, <1>7, <1>13, <2>1
    <3>2. u[i] \in 1 .. Len(sorted) /\ u[k] \in 1 .. Len(sorted) /\ u[i] < u[k]
      BY <1>7, <1>16, <2>1
    <3>3. Ahead(Q[i], Q[k])
      BY <3>1, <3>2
    <3>. QED  BY <3>1, <3>3 DEF InOrder
  <2>2. CASE i \in 1 .. Len(S) /\ k \notin 1 .. Len(S)
    <3>1. Q[i] \in short /\ Q[k] \in long
      BY <1>15, <2>2
    <3>2. Short(Q[i]) /\ ~Short(Q[k])
      BY <1>2, <1>3, <3>1
    <3>. QED  BY <3>2 DEF InOrder
  <2>3. CASE i \notin 1 .. Len(S)
    <3>. DEFINE a == i - Len(S)
                b == k - Len(S)
    <3>1. a \in 1 .. Len(L) /\ b \in 1 .. Len(L) /\ a < b /\ Q[i] = L[a] /\ Q[k] = L[b]
      BY <1>10, <1>12, <1>16, <2>3
    <3>. HIDE DEF a, b
    <3>2. v[a] \in 1 .. Len(sorted) /\ v[b] \in 1 .. Len(sorted) /\ v[a] < v[b]
      BY <1>8, <3>1
    <3>3. Q[i] = sorted[v[a]] /\ Q[k] = sorted[v[b]] /\ ~Short(Q[i]) /\ ~Short(Q[k])
      BY <1>3, <1>8, <3>1
    <3>4. Ahead(Q[i], Q[k])
      BY <3>2, <3>3
    <3>. QED  BY <3>3, <3>4 DEF InOrder
  <2>. QED  BY <2>1, <2>2, <2>3
<1>. QED  BY <1>11, <1>14, <1>15, <1>16 DEF Q

(* Of the results in the order of the two picks, the first ones are        *)
(* returned.                                                               *)
BestFirst ==
  pc = "done" =>
    \A r, s \in ToSet(ranks) :
      Contains(paths, s.path) /\ ~Contains(paths, r.path) => InOrder(s, r)

(* t has what the first n of Q have as paths, and no others. *)
Returns(t, Q, n) ==
  /\ \A k \in 1 .. Len(Q) : k <= n => Contains(t, Q[k].path)
  /\ n < Len(Q) => \A p : Contains(t, p) => \E k \in 1 .. Len(Q) : k <= n /\ p = Q[k].path

PathsOf(q) == [i \in DOMAIN q |-> q[i].path]

LEMMA FirstAreReturned ==
  ASSUME FastAssumption, NEW R, \A x \in R : x.path \in Seq(Asset),
         NEW Q \in Seq(R), NEW rest \in Seq(R),
         NEW all, all = PathsOf(Taken(Q, MaxPathCount) \o rest)
  PROVE  Returns(Taken(all, MaxPathCount), Q, MaxPathCount)
<1>. DEFINE c == MaxPathCount
            first == Taken(Q, c)
            both == first \o rest
            t == Taken(all, c)
<1>1. c \in Nat /\ Len(Q) \in Nat
  BY LenProperties DEF FastAssumption
<1>2. /\ first \in Seq(R) /\ Len(first) = (IF Len(Q) < c THEN Len(Q) ELSE c)
      /\ DOMAIN first = 1 .. Len(first)
      /\ \A i \in DOMAIN first : first[i] = Q[i]
  BY <1>1, TakenIsBeginning, LenProperties
<1>. HIDE DEF first
<1>2a. first \in Seq(R)
  BY <1>2
<1>3. /\ both \in Seq(R) /\ Len(both) = Len(first) + Len(rest) /\ Len(rest) \in Nat
      /\ \A i \in 1 .. Len(first) + Len(rest) :
           both[i] = IF i <= Len(first) THEN first[i] ELSE rest[i - Len(first)]
  <2>1. both \in Seq(R) /\ Len(both) = Len(first) + Len(rest)
    BY <1>2a, ConcatProperties
  <2>2. \A i \in 1 .. Len(first) + Len(rest) :
          (first \o rest)[i] = IF i <= Len(first) THEN first[i] ELSE rest[i - Len(first)]
    BY <1>2a, ConcatProperties
  <2>. QED  BY <2>1, <2>2, LenProperties
<1>. HIDE DEF both
<1>4. DOMAIN both = 1 .. Len(both) /\ Len(both) \in Nat /\ \A i \in 1 .. Len(both) : both[i] \in R
  BY <1>3, LenProperties, ElementOfSeq
<1>5. all = [i \in 1 .. Len(both) |-> both[i].path]
  BY <1>4 DEF both, first, PathsOf
<1>6. all \in Seq(Seq(Asset)) /\ Len(all) = Len(both)
  <2>. DEFINE k == Len(both)
  <2>1. k \in Nat /\ all = [i \in 1 .. k |-> both[i].path] /\ \A i \in 1 .. k : both[i].path \in Seq(Asset)
    BY <1>4, <1>5
  <2>. HIDE DEF k
  <2>2. all \in [1 .. k -> Seq(Asset)]
    BY <2>1
  <2>3. all \in Seq(Seq(Asset)) /\ Len(all) = k
    BY <2>1, <2>2
  <2>. QED  BY <2>3 DEF k
<1>7. /\ t \in Seq(Seq(Asset)) /\ Len(t) = (IF Len(all) < c THEN Len(all) ELSE c)
      /\ DOMAIN t = 1 .. Len(t)
      /\ \A i \in DOMAIN t : t[i] = all[i]
  <2>1. /\ Taken(all, c) \in Seq(Seq(Asset))
        /\ Len(Taken(all, c)) = IF Len(all) < c THEN Len(all) ELSE c
        /\ \A i \in DOMAIN Taken(all, c) : Taken(all, c)[i] = all[i]
    <3>. HIDE DEF c
    <3>1. all \in Seq(Seq(Asset)) /\ c \in Nat
      BY <1>1, <1>6
    <3>. QED  BY <3>1, TakenIsBeginning
  <2>. HIDE DEF t
  <2>2. /\ t \in Seq(Seq(Asset)) /\ Len(t) = (IF Len(all) < c THEN Len(all) ELSE c)
        /\ \A i \in DOMAIN t : t[i] = all[i]
    BY <2>1 DEF t
  <2>. QED  BY <2>2, LenProperties
<1>. HIDE DEF t, c
<1>8. ASSUME NEW k \in 1 .. Len(Q), k <= c PROVE k \in 1 .. Len(t) /\ t[k] = Q[k].path
  <2>1. k \in 1 .. Len(first) /\ first[k] = Q[k]
    <3>1. Len(first) = IF Len(Q) < c THEN Len(Q) ELSE c
      BY <1>2
    <3>2. k \in 1 .. Len(first)
      BY <1>1, <1>8, <3>1
    <3>. QED  BY <1>2, <3>2
  <2>2. k \in 1 .. Len(both) /\ both[k] = Q[k]
    BY <1>1, <1>2, <1>3, <2>1
  <2>3. k \in 1 .. Len(t)
    BY <1>1, <1>6, <1>7, <1>8, <2>2
  <2>4. t[k] = all[k]
    BY <1>7, <2>3
  <2>5. all[k] = both[k].path
    BY <1>5, <2>2
  <2>. QED  BY <2>2, <2>3, <2>4, <2>5
<1>9. ASSUME c < Len(Q), NEW k \in 1 .. Len(t) PROVE k \in 1 .. Len(Q) /\ k <= c
  <2>1. Len(t) = (IF Len(all) < c THEN Len(all) ELSE c) /\ Len(all) \in Nat
    BY <1>4, <1>6, <1>7
  <2>2. Len(t) <= c
    BY <1>1, <2>1
  <2>. QED  BY <1>1, <1>9, <2>1, <2>2
<1>10. ASSUME NEW k \in 1 .. Len(Q), k <= c PROVE Contains(t, Q[k].path)
  BY <1>7, <1>8, <1>10 DEF Contains
<1>11. ASSUME c < Len(Q), NEW p, Contains(t, p)
       PROVE  \E k \in 1 .. Len(Q) : k <= c /\ p = Q[k].path
  <2>1. PICK k \in 1 .. Len(t) : t[k] = p
    BY <1>11 DEF Contains
  <2>. QED  BY <1>8, <1>9, <1>11, <2>1
<1>. QED  BY <1>10, <1>11 DEF t, c, Returns

LEMMA FinishPicks ==
  ASSUME FastAssumption, FinderInv, RankedSoFar, Finish
  PROVE  BestFirst'
<1>. DEFINE R == [path : Seq(Asset), rate : Rates, index : DOMAIN candidates]
            T == ToSet(ranks)
<1>1. UNCHANGED <<asked, ranks>>
  BY DEF Finish, ranking
<1>2. PICK sorted \in Ranked :
        LET first == Taken(Chosen(sorted), MaxPathCount)
            rest == Among(sorted, ToSet(sorted) \ ToSet(first))
            all == [i \in DOMAIN (first \o rest) |-> (first \o rest)[i].path]
        IN  /\ paths' = Taken(all, MaxPathCount)
            /\ discovered' = all
  BY DEF Finish
<1>3. sorted \in SetToSeqs(T) /\ \A i, j \in DOMAIN sorted : i < j => Ahead(sorted[i], sorted[j])
  BY DEF Ranked
<1>4. /\ ranks \in Seq(R) /\ Len(ranks) \in Nat /\ DOMAIN ranks = 1 .. Len(ranks)
      /\ \A i \in 1 .. Len(ranks) : ranks[i] \in R
  <2>1. ranks \in Seq(R)
    BY DEF FinderInv, RankingOK
  <2>. HIDE DEF R
  <2>. QED  BY <2>1, LenProperties, ElementOfSeq
<1>5. T \subseteq R /\ IsFiniteSet(T)
  <2>. DEFINE D == 1 .. Len(ranks)
              f == [i \in D |-> ranks[i]]
  <2>1. T = {f[i] : i \in D} /\ f = [i \in D |-> f[i]]
    BY <1>4 DEF ToSet
  <2>2. IsFiniteSet(D)
    BY <1>4, FS_Interval
  <2>3. IsFiniteSet({f[i] : i \in D})
    <3>1. f = [i \in D |-> f[i]]
      BY <2>1
    <3>. HIDE DEF f, D
    <3>. QED  BY <2>2, <3>1, FiniteImage
  <2>4. IsFiniteSet(T)
    <3>. HIDE DEF T, f, D
    <3>. QED  BY <2>1, <2>3
  <2>5. T \subseteq R
    <3>1. \A i \in D : f[i] \in R
      BY <1>4
    <3>. HIDE DEF T, R, f, D
    <3>. QED  BY <2>1, <3>1
  <2>. QED  BY <2>4, <2>5
<1>6. \A x \in R : x.path \in Seq(Asset)
  OBVIOUS
<1>7. \A r, s \in T : r.path = s.path => r = s
  BY <1>4 DEF ToSet, RankedSoFar
<1>. HIDE DEF R, T
<1>8. sorted \in Seq(T) /\ \A x \in T : \E i \in 1 .. Len(sorted) : sorted[i] = x
  BY <1>3, <1>5, Orders, AllOrdered
<1>9. sorted \in Seq(R) /\ DOMAIN sorted = 1 .. Len(sorted)
      /\ \A i \in 1 .. Len(sorted) : sorted[i] \in T
  BY <1>5, <1>8, LenProperties, ElementOfSeq
<1>. DEFINE Q == Chosen(sorted)
            others == ToSet(sorted) \ ToSet(Taken(Q, MaxPathCount))
            rest == Among(sorted, others)
            all == PathsOf(Taken(Q, MaxPathCount) \o rest)
<1>10. paths' = Taken(all, MaxPathCount)
  BY <1>2 DEF PathsOf
<1>. HIDE DEF Q
<1>11. /\ Q \in Seq(R)
       /\ \A i \in 1 .. Len(sorted) : \E k \in 1 .. Len(Q) : Q[k] = sorted[i]
       /\ \A k \in 1 .. Len(Q) : \E i \in 1 .. Len(sorted) : Q[k] = sorted[i]
       /\ \A i, k \in 1 .. Len(Q) : i < k => InOrder(Q[i], Q[k])
  BY <1>3, <1>9, ChosenOrder DEF Q
<1>12. rest \in Seq(R)
  <2>. HIDE DEF others
  <2>1. rest \in Seq(R \cap others)
    BY <1>9, AmongMembers
  <2>. QED  BY <2>1
<1>. HIDE DEF rest
<1>13. Returns(paths', Q, MaxPathCount)
  <2>1. all = PathsOf(Taken(Q, MaxPathCount) \o rest)
    OBVIOUS
  <2>2. Q \in Seq(R)
    BY <1>11
  <2>. HIDE DEF all
  <2>3. Returns(Taken(all, MaxPathCount), Q, MaxPathCount)
    BY <1>6, <1>12, <2>1, <2>2, FirstAreReturned
  <2>. QED  BY <1>10, <2>3
<1>. HIDE DEF all
<1>14. ASSUME NEW r \in T, NEW s \in T, Contains(paths', s.path), ~Contains(paths', r.path)
       PROVE  InOrder(s, r)
  <2>0. PICK j \in 1 .. Len(sorted) : sorted[j] = r
    BY <1>8
  <2>1. PICK k \in 1 .. Len(Q) : Q[k] = r
    BY <1>11, <2>0
  <2>2. ~(k <= MaxPathCount)
    BY <1>13, <1>14, <2>1 DEF Returns
  <2>3. MaxPathCount \in Nat /\ Len(Q) \in Nat
    BY <1>11, LenProperties DEF FastAssumption
  <2>4. MaxPathCount < Len(Q)
    BY <2>2, <2>3
  <2>5. PICK i \in 1 .. Len(Q) : i <= MaxPathCount /\ s.path = Q[i].path
    BY <1>13, <1>14, <2>4 DEF Returns
  <2>6. Q[i] \in T
    BY <1>9, <1>11
  <2>7. Q[i] = s
    BY <1>7, <2>5, <2>6
  <2>8. i < k
    BY <2>2, <2>3, <2>5
  <2>. QED  BY <1>11, <2>1, <2>7, <2>8
<1>15. \A r, s : InOrder(s, r)' <=> InOrder(s, r)
  <2>1. convertAll' = convertAll
    BY <1>1 DEF asked
  <2>. QED  BY <2>1 DEF InOrder, Short, Ahead
<1>. QED  BY <1>1, <1>14, <1>15 DEF BestFirst, T

LEMMA BestStep ==
  ASSUME FastAssumption, FinderInv, RankedSoFar, BestFirst, [FinderNext]_finderVars
  PROVE  BestFirst'
<1>1. CASE Finish
  BY <1>1, FinishPicks
<1>2. CASE UNCHANGED finderVars
  <2>1. UNCHANGED <<pc, ranks, paths, convertAll>>
    BY <1>2 DEF finderVars, asked, ranking, result
  <2>. QED  BY <2>1 DEF BestFirst, InOrder, Short, Ahead
<1>3. CASE FinderNext /\ ~Finish
  <2>1. pc' # "done"
    BY <1>3 DEF FinderNext, Gather, BookChange, Direct, ViaNativeIn, ViaNativeOut, Pivots,
           HubsInFirst, HubsIn, HubsOutFirst, HubsOut, Walk, WalkEnds, Rank
  <2>. QED  BY <2>1 DEF BestFirst
<1>. QED  BY <1>1, <1>2, <1>3

LEMMA ShortsStart == FinderInit => ShortsFirst /\ RankedSoFar /\ BestFirst
BY DEF FinderInit, ShortsFirst, RankedSoFar, BestFirst, Asking

(* In a search that is neither cut short nor disturbed and whose budget    *)
(* has room for the pivots, no longer path is priced while a pair there is *)
(* a book for waits; and in any search a longer path is only returned with *)
(* every pair that was worth something, the better ones first.             *)
THEOREM PairsAreNotHidden == FinderSpec => []ShortNotHidden
<1>1. FinderInit => ShortsFirst /\ RankedSoFar /\ BestFirst
  BY ShortsStart
<1>2. /\ FinderInv /\ ShortsFirst /\ RankedSoFar /\ BestFirst /\ [FinderNext]_finderVars
      => ShortsFirst' /\ RankedSoFar' /\ BestFirst'
  BY FastAssumption, ShortsStep, RankedStep, BestStep
<1>3. FinderInv /\ ShortsFirst /\ RankedSoFar /\ BestFirst => ShortNotHidden
  <2>. SUFFICES ASSUME FinderInv, ShortsFirst, RankedSoFar, BestFirst PROVE ShortNotHidden
    OBVIOUS
  <2>1. ASSUME Calm, NEW k \in rankedKeys, Len(k) > 2, NEW p \in ShortWalks
        PROVE  HopCurrencyKey(p) \in rankedKeys
    <3>1. PICK i \in 1 .. at : k = HopCurrencyKey(candidates[i])
      BY <2>1 DEF RankedSoFar
    <3>2. at \in Nat /\ at <= Len(candidates) /\ Len(candidates) \in Nat
          /\ i \in 1 .. Len(candidates) /\ candidates[i] \in Seq(Asset)
      BY LenProperties, ElementOfSeq DEF FinderInv, Found, RankingOK
    <3>3. Len(candidates[i]) > 2
      <4>. DEFINE c == candidates[i]
                  n == Len(c)
      <4>1. n \in Nat /\ DOMAIN c = 1 .. n
        BY <3>2, LenProperties
      <4>2. k = [j \in 1 .. n |-> TokenOf[c[j]]]
        BY <3>1, <4>1 DEF HopCurrencyKey
      <4>. HIDE DEF n, c
      <4>3. Len(k) = n
        BY <4>1, <4>2
      <4>. QED  BY <2>1, <4>3 DEF n, c
    <3>4. ~Asking
      <4>1. candidates # << >>
        BY <3>2
      <4>. QED  BY <2>1, <4>1 DEF ShortsFirst
    <3>5. PICK j \in 1 .. i - 1 : candidates[j] = p
      BY <2>1, <3>2, <3>3, <3>4 DEF ShortsFirst, ShortsLead
    <3>6. j \in 1 .. at
      BY <3>2
    <3>. QED  BY <3>5, <3>6 DEF RankedSoFar
  <2>2. \A r, s : (Short(r) = Short(s)) => (Short(r) <=> Short(s))
    OBVIOUS
  <2>. QED  BY <2>1, <2>2 DEF ShortNotHidden, Calm, BestFirst, InOrder
<1>. QED  BY FinderAlways, <1>1, <1>2, <1>3, PTL DEF FinderSpec
=============================================================================
