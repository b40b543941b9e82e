------------------------------ MODULE OrderBooks ------------------------------
(***************************************************************************)
(* LocalOrderBooks (src/src/edgy/order_books.cpp): which assets can be     *)
(* traded for which, kept in step with the ledger's quality directories    *)
(* and AMMs by a snapshot load and by the metadata of each transaction.    *)
(*                                                                         *)
(* Several directories, one per quality, and an AMM can stand behind one   *)
(* book.  The indexes are sets of tuples: a map whose empty entries are    *)
(* erased is the set of the pairs it holds.                                *)
(***************************************************************************)
EXTENDS Naturals, FiniteSets

CONSTANTS
  Asset, Native,   \* assets; the native one
  TokenOf,         \* PathAsset: an asset without its issuer
  Domain, NoDomain,
  Root,            \* quality directories: [in, out, domain, quality] records
  Amm,             \* AMMs, each a set of two assets
  NoQuality        \* kNoQuality, worse than every quality

Token == {TokenOf[a] : a \in Asset}

ASSUME BookAssumption ==
  /\ Native \in Asset /\ NoDomain \notin Domain
  /\ TokenOf \in [Asset -> Token]
  /\ NoQuality \in Nat
  /\ Root \subseteq [in : Asset, out : Asset, domain : Domain \cup {NoDomain},
                     quality : 0 .. NoQuality - 1]
  /\ \A m \in Amm : m \subseteq Asset /\ Cardinality(m) = 2

VARIABLES
  roots, funded, empty,            \* the ledger: directories and AMMs
  rootsToLoad, ammsToLoad,         \* what a snapshot in progress has yet to bring
  allBooks, reverseBooks, xrpBooks,
  domainBooks, reverseDomainBooks, xrpDomainBooks,
  tokenFwd, tokenRev,
  tip, tokenTip,                   \* tipQuality_ and tokenTip_
  removed                          \* history: books whose last change was a removal

ledgerVars == <<roots, funded, empty>>
bookVars == <<allBooks, reverseBooks, xrpBooks, domainBooks, reverseDomainBooks,
              xrpDomainBooks, tokenFwd, tokenRev, tip, tokenTip>>
loadVars == <<rootsToLoad, ammsToLoad>>
allVars == <<ledgerVars, loadVars, bookVars, removed>>

Book == [in : Asset, out : Asset, domain : Domain \cup {NoDomain}]
BookOf(r) == [in |-> r.in, out |-> r.out, domain |-> r.domain]
OpenBook(a, b) == [in |-> a, out |-> b, domain |-> NoDomain]
AmmBooks(m) == {OpenBook(a, b) : a \in m, b \in m} \ {OpenBook(a, a) : a \in m}

NoTip == [b \in Book |-> NoQuality]
NoTokenTip == [p \in Token \X Asset |-> NoQuality]

BooksInit ==
  /\ roots = {} /\ funded = {} /\ empty = {}
  /\ rootsToLoad = {} /\ ammsToLoad = {}
  /\ removed = {}
  /\ allBooks = {} /\ reverseBooks = {} /\ xrpBooks = {}
  /\ domainBooks = {} /\ reverseDomainBooks = {} /\ xrpDomainBooks = {}
  /\ tokenFwd = {} /\ tokenRev = {}
  /\ tip = NoTip /\ tokenTip = NoTokenTip

ClearBooks ==
  /\ allBooks' = {} /\ reverseBooks' = {} /\ xrpBooks' = {}
  /\ domainBooks' = {} /\ reverseDomainBooks' = {} /\ xrpDomainBooks' = {}
  /\ tokenFwd' = {} /\ tokenRev' = {}
  /\ tip' = NoTip /\ tokenTip' = NoTokenTip

-----------------------------------------------------------------------------
(* addBookUnlocked and removeBookUnlocked, on a set B of books; a book of  *)
(* a domain never touches the open indexes.                                *)

InOpen(B) == {b \in B : b.domain = NoDomain}
InDomain(B) == B \ InOpen(B)

Out(B) == {<<b.in, b.out>> : b \in B}
In(B) == {<<b.out, b.in>> : b \in B}
ToNative(B) == {b.in : b \in {c \in B : c.out = Native}}
(* Slip: the parts of a domain key in the wrong order. *)
DomSwapped(B) == {<<b.in, b.out, b.domain>> : b \in B}

DomOut(B) == {<<b.in, b.domain, b.out>> : b \in B}
DomIn(B) == {<<b.out, b.domain, b.in>> : b \in B}
DomToNative(B) == {<<b.in, b.domain>> : b \in {c \in B : c.out = Native}}
TokFwd(B) == {<<TokenOf[b.in], b.out>> : b \in B}

(* Slip: the way back filed under the asset paid in. *)
TokRevSwapped(B) == {<<TokenOf[b.in], b.out>> : b \in B}

TokRev(B) == {<<TokenOf[b.out], b.in>> : b \in B}

AddBooks(B) ==
  /\ allBooks' = allBooks \cup Out(InOpen(B))
  /\ reverseBooks' = reverseBooks \cup In(InOpen(B))
  /\ xrpBooks' = xrpBooks \cup ToNative(InOpen(B))
  /\ tokenFwd' = tokenFwd \cup TokFwd(InOpen(B))
  /\ tokenRev' = tokenRev \cup TokRev(InOpen(B))
  /\ domainBooks' = domainBooks \cup DomOut(InDomain(B))
  /\ reverseDomainBooks' = reverseDomainBooks \cup DomIn(InDomain(B))
  /\ xrpDomainBooks' = xrpDomainBooks \cup DomToNative(InDomain(B))

(* Slip: the flag of a native book outlives the book. *)
KeepsNative(B) == xrpBooks

WithoutNative(B) == xrpBooks \ ToNative(InOpen(B))

RemoveBooks(B) ==
  /\ allBooks' = allBooks \ Out(InOpen(B))
  /\ reverseBooks' = reverseBooks \ In(InOpen(B))
  /\ xrpBooks' = WithoutNative(B)
  /\ tokenFwd' = tokenFwd \ TokFwd(InOpen(B))
  /\ tokenRev' = tokenRev \ TokRev(InOpen(B))
  /\ domainBooks' = domainBooks \ DomOut(InDomain(B))
  /\ reverseDomainBooks' = reverseDomainBooks \ DomIn(InDomain(B))
  /\ xrpDomainBooks' = xrpDomainBooks \ DomToNative(InDomain(B))
  /\ tip' = [b \in Book |-> IF b \in B THEN NoQuality ELSE tip[b]]
  /\ tokenTip' = [p \in Token \X Asset |->
                    IF p \in TokFwd(InOpen(B)) THEN NoQuality ELSE tokenTip[p]]

(* setQualityUnlocked: the last quality seen, of whatever domain. *)
SetQuality(book, q) ==
  /\ tip' = [tip EXCEPT ![book] = q]
  /\ tokenTip' = [tokenTip EXCEPT ![<<TokenOf[book.in], book.out>>] = q]

-----------------------------------------------------------------------------
(* addFromSle and removeFromSle. *)

AddRootSle(r) == AddBooks({BookOf(r)}) /\ SetQuality(BookOf(r), r.quality)

AddAmmSle(m) == AddBooks(AmmBooks(m)) /\ UNCHANGED <<tip, tokenTip>>

(* Slip: only one direction of a pool that is gone is taken out. *)
OneWay(m) == \E b \in AmmBooks(m) : RemoveBooks({b})

RemoveAmmSle(m) == RemoveBooks(AmmBooks(m))
RemoveRootSle(r) == RemoveBooks({BookOf(r)})

-----------------------------------------------------------------------------
(* The snapshot: the books are cleared and filled page by page; the apply  *)
(* thread holds meanwhile.  A pool without funds is passed over.           *)

Loading == rootsToLoad # {} \/ ammsToLoad # {}

StartLoad ==
  /\ ~Loading
  /\ rootsToLoad' = roots /\ ammsToLoad' = funded
  /\ removed' = {}
  /\ ClearBooks
  /\ UNCHANGED ledgerVars

LoadRoot(r) ==
  /\ r \in rootsToLoad
  /\ rootsToLoad' = rootsToLoad \ {r}
  /\ AddRootSle(r)
  /\ UNCHANGED <<ledgerVars, ammsToLoad, removed>>

LoadAmm(m) ==
  /\ m \in ammsToLoad
  /\ ammsToLoad' = ammsToLoad \ {m}
  /\ AddAmmSle(m)
  /\ UNCHANGED <<ledgerVars, rootsToLoad, removed>>

-----------------------------------------------------------------------------
(* The nodes of a transaction's metadata (applyMetaNode). *)

(* Created, or modified: an offer came to or left the directory. *)
RootTouched(r) ==
  /\ ~Loading
  /\ roots' = roots \cup {r}
  /\ removed' = removed \ {BookOf(r)}
  /\ AddRootSle(r)
  /\ UNCHANGED <<funded, empty, loadVars>>

RootDeleted(r) ==
  /\ ~Loading /\ r \in roots
  /\ roots' = roots \ {r}
  /\ removed' = removed \cup {BookOf(r)}
  /\ RemoveRootSle(r)
  /\ UNCHANGED <<funded, empty, loadVars>>

AmmFunded(m) ==
  /\ ~Loading
  /\ funded' = funded \cup {m} /\ empty' = empty \ {m}
  /\ removed' = removed \ AmmBooks(m)
  /\ AddAmmSle(m)
  /\ UNCHANGED <<roots, loadVars>>

(* A pool whose balance is zero is not complete (offerComplete): its books *)
(* are taken out while the object stays.                                   *)
AmmEmptied(m) ==
  /\ ~Loading /\ m \in funded
  /\ funded' = funded \ {m} /\ empty' = empty \cup {m}
  /\ removed' = removed \cup AmmBooks(m)
  /\ RemoveAmmSle(m)
  /\ UNCHANGED <<roots, loadVars>>

AmmDeleted(m) ==
  /\ ~Loading /\ m \in funded \cup empty
  /\ funded' = funded \ {m} /\ empty' = empty \ {m}
  /\ removed' = removed \cup AmmBooks(m)
  /\ RemoveAmmSle(m)
  /\ UNCHANGED <<roots, loadVars>>

BooksNext ==
  \/ StartLoad
  \/ \E r \in Root : LoadRoot(r) \/ RootTouched(r) \/ RootDeleted(r)
  \/ \E m \in Amm : LoadAmm(m) \/ AmmFunded(m) \/ AmmEmptied(m) \/ AmmDeleted(m)

BooksSpec == BooksInit /\ [][BooksNext]_allVars

-----------------------------------------------------------------------------
(* Queries. *)

HasBook(a, b, d) ==
  IF d = NoDomain
  THEN <<a, b>> \in allBooks \/ <<TokenOf[a], b>> \in tokenFwd
  ELSE <<a, d, b>> \in domainBooks

(* Both steps of a two-hop path; tokenRev knows an asset by its currency.  *)
Intermediates(src, dst, d) ==
  IF d = NoDomain
  THEN {m \in Asset :
          /\ <<src, m>> \in allBooks \/ <<TokenOf[src], m>> \in tokenFwd
          /\ <<dst, m>> \in reverseBooks \/ <<TokenOf[dst], m>> \in tokenRev}
  ELSE {m \in Asset : <<src, d, m>> \in domainBooks /\ <<dst, d, m>> \in reverseDomainBooks}

Neighbors(a, d) == {b \in Asset : HasBook(a, b, d)}

IsBookToXRP(a, d) == IF d = NoDomain THEN a \in xrpBooks ELSE <<a, d>> \in xrpDomainBooks

Better(p, q) == IF p < q THEN p ELSE q

TipQuality(a, b, d) ==
  Better(tip[[in |-> a, out |-> b, domain |-> d]], tokenTip[<<TokenOf[a], b>>])

-----------------------------------------------------------------------------
(* Properties. *)

(* Every variable stays within its type; a key of a domain's index has its *)
(* parts in the order its readers take them apart in.                      *)
BooksTypeOK ==
  /\ roots \subseteq Root /\ funded \subseteq Amm /\ empty \subseteq Amm
  /\ funded \cap empty = {}
  /\ rootsToLoad \subseteq Root /\ ammsToLoad \subseteq Amm /\ removed \subseteq Book
  /\ allBooks \subseteq Asset \X Asset /\ reverseBooks \subseteq Asset \X Asset
  /\ xrpBooks \subseteq Asset
  /\ domainBooks \subseteq Asset \X Domain \X Asset
  /\ reverseDomainBooks \subseteq Asset \X Domain \X Asset
  /\ xrpDomainBooks \subseteq Asset \X Domain
  /\ tokenFwd \subseteq Token \X Asset /\ tokenRev \subseteq Token \X Asset
  /\ tip \in [Book -> 0 .. NoQuality]
  /\ tokenTip \in [Token \X Asset -> 0 .. NoQuality]

(* The indexes tell one story: the reverse ones are the forward ones       *)
(* turned round, the native flags say what the books say, an index by      *)
(* currency knows no pair that no issuer's book has, and only a listed     *)
(* book has a quality of its own.                                          *)
IndexesAgree ==
  /\ BooksTypeOK
  /\ reverseBooks = {<<p[2], p[1]>> : p \in allBooks}
  /\ reverseDomainBooks = {<<p[3], p[2], p[1]>> : p \in domainBooks}
  /\ \A a \in Asset :
       /\ IsBookToXRP(a, NoDomain) <=> <<a, Native>> \in allBooks
       /\ \A d \in Domain : IsBookToXRP(a, d) <=> <<a, d, Native>> \in domainBooks
  /\ \A p \in tokenFwd : \E a \in Asset : TokenOf[a] = p[1] /\ <<a, p[2]>> \in allBooks
  /\ \A p \in tokenRev : \E b \in Asset : TokenOf[b] = p[1] /\ <<p[2], b>> \in allBooks
  /\ \A b \in Book : tip[b] # NoQuality => HasBook(b.in, b.out, b.domain)

(* The books the ledger has. *)
LedgerBooks == {BookOf(r) : r \in roots} \cup UNION {AmmBooks(m) : m \in funded}

Listed ==
  {OpenBook(p[1], p[2]) : p \in allBooks}
    \cup {[in |-> p[1], out |-> p[3], domain |-> p[2]] : p \in domainBooks}

(* The pivots of a two-hop search: each has books of the ledger on both    *)
(* sides, of some issuer of either end's currency; and while nothing was   *)
(* removed, every asset with a book on both sides is a pivot.              *)
PivotsFollowLedger ==
  \A a, b \in Asset, d \in Domain \cup {NoDomain} :
    /\ \A m \in Intermediates(a, b, d) :
         \E x, y \in Asset :
           /\ TokenOf[x] = TokenOf[a] /\ TokenOf[y] = TokenOf[b]
           /\ [in |-> x, out |-> m, domain |-> d] \in LedgerBooks
           /\ [in |-> m, out |-> y, domain |-> d] \in LedgerBooks
    /\ ~Loading /\ removed = {} =>
         \A m \in Asset :
           {[in |-> a, out |-> m, domain |-> d], [in |-> m, out |-> b, domain |-> d]}
             \subseteq LedgerBooks => m \in Intermediates(a, b, d)

(* No search is sent through a book that is gone: what the indexes list,   *)
(* the ledger has, also half way through a load.  And a book of the ledger *)
(* is missing only while its last change was a removal: the load and every *)
(* transaction since brought all the others.  The pivots follow.           *)
BooksFollowLedger ==
  /\ Listed \subseteq LedgerBooks
  /\ ~Loading => LedgerBooks \ Listed \subseteq removed
  /\ PivotsFollowLedger

-----------------------------------------------------------------------------
(* What the repository says and the code does not do. *)

(* order_books.hpp:24: built from the offer directory roots and the AMMs,  *)
(* the same objects xrpld walks.  One directory or pool of a book that     *)
(* goes takes the whole book with it, whatever else stands behind it.      *)
SameAsLedger == ~Loading => LedgerBooks \subseteq Listed

(* order_books.hpp:80: the best known tip quality, the lower the better.   *)
(* It is the one seen last.                                                *)
BestTip(a, b) ==
  CHOOSE q \in 0 .. NoQuality :
    LET Q == {NoQuality} \cup {r.quality : r \in {s \in roots : BookOf(s) = OpenBook(a, b)}}
    IN  q \in Q /\ \A p \in Q : q <= p

TipIsBest ==
  ~Loading /\ removed = {} =>
    \A a, b \in Asset : TipQuality(a, b, NoDomain) <= BestTip(a, b)

(* order_books.hpp:80: missing is the maximum.  A directory of a domain    *)
(* sets the quality of its currency's open books.                          *)
MissingIsMax ==
  \A a, b \in Asset :
    ~HasBook(a, b, NoDomain) => TipQuality(a, b, NoDomain) = NoQuality

(* order_books.hpp:114: by currency a holder still sees the gateway's      *)
(* books.  The end of one issuer's book hides the others' of its currency. *)
SeesGateway ==
  \A a, g, b \in Asset :
    TokenOf[a] = TokenOf[g] /\ <<g, b>> \in allBooks => b \in Neighbors(a, NoDomain)
===============================================================================
