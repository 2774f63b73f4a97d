------------------------------ MODULE WebProofs ------------------------------
(***************************************************************************)
(* Every link of a page leads to a page: what a bagit page needs was there *)
(* before the bagit was listed, and a run takes none of it back, whatever  *)
(* fails.  And a health is that of transfers that the page shows.          *)
(***************************************************************************)
EXTENDS WebRun, CheckProofs, FiniteSetTheorems

(***************************************************************************)
(* The archive.  A bagit that has content rows has the row of a transfer,  *)
(* and a digest that is recorded is not empty.                             *)
(***************************************************************************)
HasRow(b) == \E l \in Locations : transfer[b][l] # None

BackedInv ==
    /\ \A b \in Bagits : content[b] > 0 => transfer[b][InitLoc] # None
    /\ run.pc = "content" => transfer[run.cur][InitLoc] # None
    /\ run.pc = "verify" => run.hash # NoDigest

\* What is read from the tables is never taken back.
RowsAreKept ==
    \A b \in Bagits :
        /\ Registered(b) => Registered(b)'
        /\ aes[b] # NoDigest => aes'[b] # NoDigest
        /\ \A l \in Locations : transfer[b][l] # None => transfer'[b][l] # None
        /\ content[b] <= content'[b]

Keeps == RowsAreKept /\ BackedInv'

\* A step that at most writes the row of a transfer.
LEMMA RowsQuiet ==
    ASSUME TypeInv, BackedInv, UNCHANGED <<rows, aes, content>>,
           \A b \in Bagits, l \in Locations : transfer[b][l] # None => transfer'[b][l] # None,
           run'.pc \notin {"content", "verify"}
    PROVE  Keeps
<1>1. \A b \in Bagits : Registered(b) => Registered(b)'
  BY DEF Registered
<1>2. content \in [Bagits -> Nat]
  BY DEF TypeInv, TypeOK, TablesOK
<1> QED BY <1>1, <1>2, LocationsAssumption DEF Keeps, RowsAreKept, BackedInv

LEMMA EndsKeepsRows ==
    ASSUME TypeInv, BackedInv, Ends
    PROVE  Keeps
<1>1. \A b \in Bagits, l \in Locations : transfer'[b][l] = transfer[b][l] \/ transfer'[b][l] = "error"
  BY DEF Ends
<1> QED BY <1>1, RowsQuiet DEF Ends, Idle, None

LEMMA IngestKeepsRows ==
    ASSUME TypeInv, BackedInv, IngestStep
    PROVE  Keeps
<1>1. /\ run.pc \in {"sum", "insert", "init", "content"} => run.cur \in Bagits
      /\ rows \in Seq(Bagits)
      /\ content \in [Bagits -> Nat]
      /\ transfer \in [Bagits -> [Locations -> {None, "ok", "error"}]]
  BY DEF Holds, AtBagit, TypeInv, TypeOK, TablesOK, StatusOK
<1>2. ASSUME NEW b \in Bagits, WalkZip(b) PROVE Keeps
  BY <1>2, WalkZipFrame, EndsKeepsRows, RowsQuiet DEF db
<1>3. CASE SumZip
  BY <1>3, SumZipFrame, EndsKeepsRows, RowsQuiet DEF db
<1>4. CASE InsertBagit
  <2>1. ASSUME run'.pc = "init", rows' = Append(rows, run.cur), run.cur \in Bagits,
               UNCHANGED <<aes, content, transfer>>
        PROVE  Keeps
    <3>1. InRows' = InRows \cup {run.cur}
      BY <2>1, InsertsRow
    <3>2. \A b \in Bagits : Registered(b) => Registered(b)'
      BY <3>1 DEF InRows
    <3> QED BY <1>1, <2>1, <3>2 DEF Keeps, RowsAreKept, BackedInv
  <2> QED BY <1>1, <1>4, <2>1, InsertBagitFrame, EndsKeepsRows
<1>5. CASE StoreInitLocation
  <2>1. ASSUME run.pc = "init", run'.pc = "content", run'.cur = run.cur,
               transfer' = [transfer EXCEPT ![run.cur][InitLoc] = "ok"],
               UNCHANGED <<rows, aes, content>>
        PROVE  Keeps
    <3>1. \A b \in Bagits, l \in Locations :
             transfer'[b][l] = IF b = run.cur /\ l = InitLoc THEN "ok" ELSE transfer[b][l]
      BY <1>1, <2>1
    <3>2. \A b \in Bagits : Registered(b) => Registered(b)'
      BY <2>1 DEF Registered
    <3> QED BY <1>1, <2>1, <3>1, <3>2, LocationsAssumption DEF Keeps, RowsAreKept, BackedInv, None
  <2> QED BY <1>5, <2>1, StoreInitFrame, EndsKeepsRows DEF SameBagit
<1>6. CASE AddContent
  <2>1. /\ run.pc = "content" /\ run'.pc = "content" /\ run'.cur = run.cur
        /\ UNCHANGED <<rows, aes, transfer>>
        /\ content' = [content EXCEPT ![run.cur] = @ + 1] \/ UNCHANGED content
    BY <1>6, AddContentFrame DEF SameBagit
  <2>2. \A b \in Bagits : \/ content'[b] = content[b]
                          \/ b = run.cur /\ content'[b] = content[b] + 1
    BY <1>1, <2>1
  <2>3. \A b \in Bagits : Registered(b) => Registered(b)'
    BY <2>1 DEF Registered
  <2>4. \A b \in Bagits : content[b] <= content'[b]
    BY <1>1, <2>2
  <2>5. BackedInv'
    BY <1>1, <2>1, <2>2 DEF BackedInv
  <2> QED BY <2>1, <2>3, <2>4, <2>5 DEF Keeps, RowsAreKept
<1>7. CASE ZipDone
  BY <1>7, ZipDoneFrame, RowsQuiet DEF db
<1>8. CASE WalkDone
  BY <1>8, EnterPhaseFrame, RowsQuiet DEF WalkDone, Begins, db
<1> QED BY <1>2, <1>3, <1>4, <1>5, <1>6, <1>7, <1>8 DEF IngestStep

LEMMA TransferKeepsRows ==
    ASSUME TypeInv, WrittenInv, BackedInv, TransferStep
    PROVE  Keeps
<1>1. CASE LoadSource \/ TransferDone
  BY <1>1, LoadSourceFrame, EndBagitFrame, EndsKeepsRows, RowsQuiet DEF TransferDone, db
<1>2. ASSUME NEW l \in Locations, NextTarget(l) PROVE Keeps
  BY <1>2, NextTargetFrame, RowsQuiet DEF db
<1>3. CASE OpenSource
  BY <1>3, OpenSourceFrame, EndsKeepsRows, RowsQuiet DEF db
<1>4. CASE GetKey \/ SetKey \/ GetIV \/ SetIV \/ NewCipher
  BY <1>4, KeyStepFrame, EndsKeepsRows, RowsQuiet DEF db
<1>5. CASE CreateTarget
  BY <1>5, CreateTargetFrame, EndsKeepsRows, RowsQuiet DEF db
<1>6. CASE CopyStream
  <2>1. ASSUME run.pc = "copy", run'.pc = "verify", run'.hash = Stream, UNCHANGED db
        PROVE  Keeps
    <3>1. run.cur \in InRows /\ run.cur \notin Nested
      BY <2>1 DEF WrittenInv, ZipsWhole, TargetOpen, RowPcs
    <3>2. At(run.cur, InitLoc).kind = "whole"
      BY <3>1 DEF WrittenInv, ZipsWhole, At
    <3>3. Stream.kind = "whole"
      BY <3>2 DEF Stream
    <3>4. Stream # NoDigest
      BY <3>3 DEF NoDigest, Absent
    <3>5. content \in [Bagits -> Nat] /\ \A b \in Bagits : Registered(b) => Registered(b)'
      BY <2>1 DEF TypeInv, TypeOK, TablesOK, Registered, db
    <3> QED BY <2>1, <3>4, <3>5 DEF Keeps, RowsAreKept, BackedInv, db
  <2> QED BY <1>6, <2>1, CopyStreamFrame, EndsKeepsRows
<1>7. CASE VerifyStream
  <2>1. /\ run.pc = "verify" /\ UNCHANGED <<rows, content, transfer>>
        /\ run'.pc \in {"store", "target"}
        /\ aes' = [aes EXCEPT ![run.cur] = run.hash] \/ UNCHANGED aes
    BY <1>7, VerifyStreamFrame
  <2>2. run.hash # NoDigest
    BY <2>1 DEF BackedInv
  <2>3. \A b \in Bagits : aes[b] # NoDigest => aes'[b] # NoDigest
    BY <2>1, <2>2 DEF TypeInv, TypeOK, TablesOK
  <2>4. content \in [Bagits -> Nat] /\ \A b \in Bagits : Registered(b) => Registered(b)'
    BY <2>1 DEF TypeInv, TypeOK, TablesOK, Registered
  <2> QED BY <2>1, <2>3, <2>4 DEF Keeps, RowsAreKept, BackedInv
<1>8. CASE StoreOk
  <2>1. ASSUME run'.pc = "target", transfer' = [transfer EXCEPT ![run.cur][run.loc] = "ok"],
               UNCHANGED <<rows, aes, content>>
        PROVE  Keeps
    <3>1. \A b \in Bagits, l \in Locations : transfer'[b][l] \in {transfer[b][l], "ok"}
      BY <2>1 DEF TypeInv, TypeOK, StatusOK
    <3> QED BY <2>1, <3>1, RowsQuiet DEF None
  <2> QED BY <1>8, <2>1, StoreOkFrame, EndsKeepsRows
<1> QED BY <1>1, <1>2, <1>3, <1>4, <1>5, <1>6, <1>7, <1>8 DEF TransferStep

LEMMA NextKeepsRows ==
    ASSUME TypeInv, WrittenInv, BackedInv, [Next]_vars
    PROVE  Keeps
<1>1. CASE UNCHANGED vars \/ Environment
  <2>1. UNCHANGED <<rows, aes, content, transfer, run>>
    BY <1>1 DEF Environment, BeginUpload, EndUpload, Damage, Expire, vars, db
  <2>2. content \in [Bagits -> Nat] /\ \A b \in Bagits : Registered(b) => Registered(b)'
    BY <2>1 DEF TypeInv, TypeOK, TablesOK, Registered
  <2> QED BY <2>1, <2>2 DEF Keeps, RowsAreKept, BackedInv
<1>2. CASE StartRun
  BY <1>2, StartRunFrame, RowsQuiet DEF Begins, Idle, db
<1>3. CASE Crash
  <2>1. Ends
    BY <1>3, EndsOf DEF Crash
  <2> QED BY <2>1, EndsKeepsRows
<1>4. CASE PageStep
  BY <1>4, CountRowsFrame, LoadPageFrame, EndOfPageFrame, EndsKeepsRows, RowsQuiet
     DEF PageStep, Begins, db
<1>5. CASE CheckStep
  <2>1. CASE BeginChecks \/ ChecksDone
    BY <2>1, BeginChecksFrame, EndBagitFrame, RowsQuiet DEF ChecksDone, db
  <2>2. CASE \E l \in Locations : NextTest(l)
    BY <2>2, NextTestFrame, EndsKeepsRows, RowsQuiet DEF db
  <2>3. CASE ReadCopy \/ StoreResult
    BY <2>3, ReadCopyFrame, StoreResultFrame, EndsKeepsRows, RowsQuiet DEF db
  <2> QED BY <1>5, <2>1, <2>2, <2>3 DEF CheckStep
<1> QED BY <1>1, <1>2, <1>3, <1>4, <1>5, IngestKeepsRows, TransferKeepsRows DEF Next, Step

(***************************************************************************)
(* The requests.  A bagit can be opened when the queries of its page have  *)
(* a row to scan, and a linked page is that of such a bagit.               *)
(***************************************************************************)
Openable(b) == Registered(b) /\ aes[b] # NoDigest /\ HasRow(b)

OfBagit == req.page \in {"bagit", "content"}
BagitQueries == {"health", "costs", "content", "bagit", "ingest", "checks"}

RequestOK ==
    /\ DOMAIN req = DOMAIN NoRequest
    /\ req.item \in Nat /\ req.items \in Nat
    /\ OfBagit => req.bagit \in Bagits /\ req.items <= content[req.bagit]
    /\ req.pc \in BagitQueries => OfBagit
    /\ req.pc \in {"list", "healths"} => req.page = "overview"

ListedOpen == req.listed \subseteq Bagits /\ \A b \in req.listed : Openable(b)

\* What the queries that are already answered have found.
Found ==
    /\ req.pc \in {"content", "bagit"} => HasRow(req.bagit)
    /\ req.pc \in {"ingest", "checks"} \/ Answered("bagit") => Openable(req.bagit)

LinkedOpen ==
    /\ req.link => OfBagit /\ Openable(req.bagit) /\ req.item <= content[req.bagit]
    /\ req.link /\ req.pc \in {"bagit", "ingest", "checks"} => req.item <= req.items \/ req.cut

LinkInv == RequestOK /\ ListedOpen /\ Found /\ LinkedOpen /\ LinksLead

LEMMA AfterQuery ==
    /\ Order[1] = "health" /\ After("health") = "costs" /\ After("costs") = "content"
    /\ After("content") = "bagit" /\ After("bagit") = "ingest" /\ After("ingest") = "checks"
<1>1. /\ Len(Order) - 1 = 5
      /\ Order[1] = "health" /\ Order[2] = "costs" /\ Order[3] = "content"
      /\ Order[4] = "bagit" /\ Order[5] = "ingest" /\ Order[6] = "checks"
  BY DEF Order
<1>2. ASSUME NEW n \in 1 .. 5
      PROVE  (CHOOSE k \in 1 .. Len(Order) - 1 : Order[k] = Order[n]) = n
  <2>1. \A k \in 1 .. 5 : Order[k] = Order[n] => k = n
    BY <1>1
  <2> QED BY <1>1, <2>1
<1>3. \A n \in 1 .. 5 : After(Order[n]) = Order[1 + n]
  BY <1>2 DEF After
<1> QED BY <1>1, <1>3

LEMMA TransfersOfRow ==
    ASSUME TypeInv, NEW b \in Bagits
    PROVE  Transfers(b) # {} <=> HasRow(b)
<1>1. ASSUME NEW t \in Transfers(b) PROVE HasRow(b)
  BY DEF Transfers, HasRow, None
<1>2. ASSUME NEW l \in Locations, transfer[b][l] # None PROVE <<l, transfer[b][l]>> \in Transfers(b)
  <2>1. transfer[b][l] \in {"ok", "error"}
    BY <1>2 DEF TypeInv, TypeOK, StatusOK
  <2> QED BY <2>1 DEF Transfers
<1> QED BY <1>1, <1>2 DEF HasRow

\* A run goes on while a page is made.
LEMMA RunKeepsLinks ==
    ASSUME TypeInv, TypeInv', LinkInv, RowsAreKept, UNCHANGED req
    PROVE  LinkInv'
<1>1. \A b \in Bagits : Openable(b) => Openable(b)'
  BY DEF RowsAreKept, Openable, HasRow
<1>2. \A b \in Bagits : HasRow(b) => HasRow(b)'
  BY DEF RowsAreKept, HasRow
<1>3. \A b \in Bagits : content[b] \in Nat /\ content'[b] \in Nat /\ content[b] <= content'[b]
  BY DEF RowsAreKept, TypeInv, TypeOK, TablesOK
<1>4. req.bagit \in Bagits \/ ~ OfBagit
  BY DEF LinkInv, RequestOK
<1>5. OfBagit' = OfBagit
  BY DEF OfBagit
<1>6. RequestOK'
  BY <1>3, <1>5 DEF LinkInv, RequestOK
<1>7. ListedOpen'
  BY <1>1 DEF LinkInv, ListedOpen
<1>8. req.pc \in BagitQueries \/ Answered("bagit") => req.bagit \in Bagits
  BY <1>4 DEF LinkInv, RequestOK, Answered, OfBagit
<1>9. Found'
  BY <1>1, <1>2, <1>8 DEF LinkInv, Found, BagitQueries, Answered
<1>10. LinkedOpen'
  BY <1>1, <1>3, <1>4, <1>5 DEF LinkInv, LinkedOpen, RequestOK
<1>11. LinksLead'
  BY DEF LinkInv, LinksLead
<1> QED BY <1>6, <1>7, <1>9, <1>10, <1>11 DEF LinkInv

(***************************************************************************)
(* The steps of a request.                                                 *)
(***************************************************************************)
LEMMA ListedIsOpenable ==
    ASSUME BackedInv, NEW b \in Listable, b \notin Nulls
    PROVE  b \in Bagits /\ Openable(b)
BY LocationsAssumption DEF Listable, Nulls, BackedInv, Openable, HasRow

\* A request begins.
LEMMA BeginKeepsLinks ==
    ASSUME TypeInv, LinkInv, NEW pc, NEW page, NEW b, NEW item \in Nat, NEW link \in BOOLEAN,
           Begin(pc, page, b, item, link), UNCHANGED db,
           \/ pc = "list" /\ page = "overview" /\ ~ link
           \/ /\ pc = "health" /\ page \in {"bagit", "content"} /\ b \in Bagits
              /\ link => Openable(b) /\ item <= content[b]
    PROVE  LinkInv'
<1>1. req' = [NoRequest EXCEPT !.pc = pc, !.page = page, !.bagit = b, !.item = item, !.link = link]
  BY DEF Begin, Proceed
<1>2. /\ req'.pc = pc /\ req'.page = page /\ req'.bagit = b /\ req'.item = item
      /\ req'.link = link /\ req'.items = 0 /\ req'.listed = {} /\ DOMAIN req' = DOMAIN NoRequest
  BY <1>1 DEF NoRequest
<1>3. content \in [Bagits -> Nat] /\ UNCHANGED <<rows, aes, content, transfer>>
  BY DEF TypeInv, TypeOK, TablesOK, db
<1>4. Openable(b) => Openable(b)'
  BY <1>3 DEF Openable, HasRow, Registered
<1>5. RequestOK'
  BY <1>2, <1>3 DEF RequestOK, OfBagit, BagitQueries
<1>6. LinkedOpen'
  BY <1>2, <1>3, <1>4 DEF LinkedOpen, OfBagit
<1> QED BY <1>2, <1>5, <1>6 DEF LinkInv, ListedOpen, Found, LinksLead, Answered

SameAddress ==
    /\ DOMAIN req' = DOMAIN req /\ req'.page = req.page /\ req'.bagit = req.bagit
    /\ req'.item = req.item /\ req'.link = req.link /\ req'.listed = req.listed

\* A request goes on, or fails.
LEMMA GoesOnKeepsLinks ==
    ASSUME LinkInv, UNCHANGED db, SameAddress,
           req'.items \in Nat, OfBagit => req'.items <= content[req.bagit],
           req'.pc \in BagitQueries => OfBagit,
           req'.pc \in {"list", "healths"} => req.page = "overview",
           req'.pc \in {"content", "bagit"} => HasRow(req.bagit),
           req'.pc \in {"ingest", "checks"} \/ (req'.pc = "answered" /\ req.page = "bagit") =>
               Openable(req.bagit),
           req.link /\ req'.pc \in {"bagit", "ingest", "checks"} => req.item <= req'.items \/ req'.cut,
           LinksLead'
    PROVE  LinkInv'
<1>1. UNCHANGED <<rows, aes, content, transfer>>
  BY DEF db
<1>2. \A b : Openable(b)' = Openable(b) /\ HasRow(b)' = HasRow(b)
  BY <1>1 DEF Openable, HasRow, Registered
<1>3. RequestOK'
  BY <1>1 DEF LinkInv, RequestOK, SameAddress, OfBagit
<1>4. ListedOpen'
  BY <1>2 DEF LinkInv, ListedOpen, SameAddress
<1>5. HasRow(req.bagit)' = HasRow(req.bagit) /\ Openable(req.bagit)' = Openable(req.bagit)
  BY <1>1 DEF Openable, HasRow, Registered, SameAddress
<1>6. Found'
  BY <1>5 DEF Found, Answered, SameAddress
<1>7. LinkedOpen'
  BY <1>1, <1>5 DEF LinkInv, LinkedOpen, SameAddress, OfBagit
<1> QED BY <1>3, <1>4, <1>6, <1>7 DEF LinkInv

LEMMA FailedKeepsLinks ==
    ASSUME LinkInv, UNCHANGED db, NEW why, req' = Failed(why),
           req.link => why = "db" \/ req.cut \/ (why = "shape" /\ req.bagit \in Misshapen)
    PROVE  LinkInv'
<1>1. DOMAIN req = DOMAIN NoRequest
  BY DEF LinkInv, RequestOK
<1>2. /\ SameAddress /\ req'.pc = "failed" /\ req'.why = why
      /\ req'.items = req.items /\ req'.cut = req.cut
  BY <1>1 DEF Failed, SameAddress, NoRequest
<1>3. req'.items \in Nat /\ (OfBagit => req'.items <= content[req.bagit])
  BY <1>2 DEF LinkInv, RequestOK
<1>4. LinksLead'
  BY <1>2 DEF LinksLead, SameAddress
<1> QED BY <1>2, <1>3, <1>4, GoesOnKeepsLinks DEF BagitQueries

LEMMA QueryFailsKeepsLinks ==
    ASSUME LinkInv, UNCHANGED db, QueryFails
    PROVE  LinkInv'
BY FailedKeepsLinks DEF QueryFails

LEMMA VisitBegins ==
    ASSUME TypeInv, LinkInv, UNCHANGED db,
           \/ OverviewHandler \/ NotANumber
           \/ \E b \in Bagits : BagitHandler(b)
           \/ \E b \in Bagits, item \in 1 .. NumContent : ContentHandler(b, item)
    PROVE  LinkInv'
<1>1. CASE OverviewHandler
  BY <1>1, BeginKeepsLinks DEF OverviewHandler
<1>2. CASE NotANumber
  <2>1. /\ DOMAIN req' = DOMAIN NoRequest /\ req'.pc = "failed" /\ req'.page = None
        /\ req'.item = 0 /\ req'.items = 0 /\ req'.link = FALSE /\ req'.listed = {}
    BY <1>2 DEF NotANumber, Proceed, NoRequest
  <2> QED BY <2>1 DEF LinkInv, RequestOK, ListedOpen, Found, LinkedOpen, LinksLead, OfBagit,
                      BagitQueries, Answered, None
<1>3. ASSUME NEW b \in Bagits, BagitHandler(b) PROVE LinkInv'
  <2>1. BagitLink(b) => Openable(b) /\ 0 <= content[b]
    BY DEF BagitLink, LinkInv, ListedOpen, TypeInv, TypeOK, TablesOK
  <2>2. BagitLink(b) \in BOOLEAN
    BY DEF BagitLink, Answered
  <2>3. Begin("health", "bagit", b, 0, BagitLink(b))
    BY <1>3, AfterQuery DEF BagitHandler
  <2> QED BY <2>1, <2>2, <2>3, BeginKeepsLinks
<1>4. ASSUME NEW b \in Bagits, NEW item \in 1 .. NumContent, ContentHandler(b, item)
      PROVE  LinkInv'
  <2>1. item \in Nat /\ ContentLink(b, item) \in BOOLEAN
    BY BoundsAssumption DEF ContentLink, Answered
  <2>2. ContentLink(b, item) => Openable(b) /\ item <= content[b]
    <3>1. ASSUME ContentLink(b, item) PROVE Openable(b) /\ item <= content[b]
      <4>1. Answered("bagit") /\ req.bagit = b /\ item <= req.items
        BY <3>1 DEF ContentLink
      <4>2. OfBagit
        BY <4>1 DEF Answered, OfBagit
      <4>3. req.items <= content[b] /\ req.items \in Nat /\ content[b] \in Nat
        BY <4>1, <4>2 DEF LinkInv, RequestOK, TypeInv, TypeOK, TablesOK
      <4> QED BY <2>1, <4>1, <4>3 DEF LinkInv, Found
    <3> QED BY <3>1
  <2>3. Begin("health", "content", b, item, ContentLink(b, item))
    BY <1>4, AfterQuery DEF ContentHandler
  <2> QED BY <2>1, <2>2, <2>3, BeginKeepsLinks
<1> QED BY <1>1, <1>2, <1>3, <1>4

\* The bagits of an overview.
LEMMA ListKeepsLinks ==
    ASSUME BackedInv, LinkInv, UNCHANGED db, req.pc = "list", NEW some \in SUBSET (Listable \ Nulls),
           req' = List(some) \/ req' = [List(some) EXCEPT !.cut = TRUE]
    PROVE  LinkInv'
<1>1. DOMAIN req = DOMAIN NoRequest /\ req.page = "overview"
  BY DEF LinkInv, RequestOK
<1>2. /\ DOMAIN req' = DOMAIN req /\ req'.pc = "healths" /\ req'.page = "overview"
      /\ req'.link = req.link /\ req'.item = req.item /\ req'.items = req.items
      /\ req'.listed = some
  BY <1>1 DEF List, NoRequest
<1>3. some \subseteq Bagits /\ \A b \in some : Openable(b)
  BY ListedIsOpenable
<1>4. UNCHANGED <<rows, aes, content, transfer>>
  BY DEF db
<1>5. ListedOpen'
  BY <1>2, <1>3, <1>4 DEF ListedOpen, Openable, HasRow, Registered
<1>6. ~ OfBagit /\ ~ OfBagit'
  BY <1>1, <1>2 DEF OfBagit
<1>7. RequestOK'
  BY <1>1, <1>2, <1>6 DEF LinkInv, RequestOK, BagitQueries
<1>8. ~ req'.link
  BY <1>2, <1>6 DEF LinkInv, LinkedOpen
<1> QED BY <1>2, <1>5, <1>7, <1>8 DEF LinkInv, Found, LinkedOpen, LinksLead, Answered

LEMMA OverviewKeepsLinks ==
    ASSUME TypeInv, BackedInv, LinkInv, UNCHANGED db, ListBagits \/ NextHealth \/ OverviewDone
    PROVE  LinkInv'
<1>1. DOMAIN req = DOMAIN NoRequest
  BY DEF LinkInv, RequestOK
<1>2. CASE ListBagits
  <2>1. req.pc = "list"
    BY <1>2 DEF ListBagits, Query
  <2>2. ~ req.link
    BY <2>1 DEF LinkInv, RequestOK, LinkedOpen, OfBagit
  <2>3. CASE Nulls # {} /\ Proceed(Failed("null"))
    BY <2>2, <2>3, FailedKeepsLinks DEF Proceed
  <2>4. CASE Nulls = {} /\ Proceed(List(Listable))
    BY <2>1, <2>4, ListKeepsLinks DEF Proceed
  <2>5. CASE CutList
    BY <2>1, <2>5, ListKeepsLinks DEF CutList
  <2> QED BY <1>2, <2>3, <2>4, <2>5, QueryFailsKeepsLinks DEF ListBagits
<1>3. CASE NextHealth
  <2>1. req.pc = "healths"
    BY <1>3 DEF NextHealth, Query
  <2>2. ASSUME NEW b, NEW seen,
               req' = HealthOf(b, seen) \/ req' = [HealthOf(b, seen) EXCEPT !.cut = TRUE]
        PROVE  LinkInv'
    <3>1. /\ SameAddress /\ req'.pc = "healths" /\ req'.items = req.items
          /\ req'.cut = req.cut \/ req'.cut = TRUE
      BY <1>1, <2>1, <2>2 DEF HealthOf, SameAddress, NoRequest
    <3>2. LinksLead'
      BY <3>1 DEF LinksLead
    <3> QED BY <2>1, <3>1, <3>2, GoesOnKeepsLinks DEF LinkInv, RequestOK, BagitQueries
  <2> QED BY <1>3, <2>2, QueryFailsKeepsLinks DEF NextHealth, WholeOrCut, Proceed
<1>4. CASE OverviewDone
  <2>1. req.page = "overview"
    BY <1>4 DEF OverviewDone, Query, LinkInv, RequestOK
  <2>2. /\ SameAddress /\ req'.pc = "answered" /\ req'.items = req.items
    BY <1>1, <1>4 DEF OverviewDone, Proceed, SameAddress, NoRequest
  <2>3. LinksLead'
    BY <2>2 DEF LinksLead
  <2> QED BY <2>1, <2>2, <2>3, GoesOnKeepsLinks DEF LinkInv, RequestOK, BagitQueries
<1> QED BY <1>2, <1>3, <1>4

\* The queries of a bagit page that read nothing the links depend on.
LEMMA ReadKeepsLinks ==
    ASSUME LinkInv, UNCHANGED db, SameAddress, req'.items = req.items,
           req'.cut = req.cut \/ req'.cut = TRUE,
           \/ req.pc = "health" /\ req'.pc = "costs"
           \/ req.pc = "costs" /\ req'.pc = "content" /\ HasRow(req.bagit)
           \/ req.pc = "bagit" /\ req'.pc = "ingest" /\ Openable(req.bagit)
           \/ req.pc = "ingest" /\ req'.pc = "checks"
           \/ req.pc = "checks" /\ req'.pc = "answered"
    PROVE  LinkInv'
<1>1. OfBagit
  BY DEF LinkInv, RequestOK, BagitQueries
<1>2. req'.items \in Nat /\ req'.items <= content[req.bagit]
  BY <1>1 DEF LinkInv, RequestOK
<1>3. req'.pc \in {"ingest", "checks"} \/ (req'.pc = "answered" /\ req.page = "bagit") =>
          Openable(req.bagit)
  BY DEF LinkInv, Found
<1>4. req.link /\ req'.pc \in {"bagit", "ingest", "checks"} => req.item <= req'.items \/ req'.cut
  BY DEF LinkInv, LinkedOpen
<1>5. LinksLead'
  BY DEF LinksLead
<1> QED BY <1>1, <1>2, <1>3, <1>4, <1>5, GoesOnKeepsLinks

LEMMA BagitOverviewKeepsLinks ==
    ASSUME TypeInv, LinkInv, UNCHANGED db,
           ReadHealth \/ ReadCosts \/ ReadContent \/ ReadBagit \/ ReadIngest \/ ReadChecks
    PROVE  LinkInv'
<1>1. DOMAIN req = DOMAIN NoRequest /\ req.item \in Nat /\ req.items \in Nat
  BY DEF LinkInv, RequestOK
<1>2. req.pc \in BagitQueries => req.bagit \in Bagits /\ OfBagit
  BY DEF LinkInv, RequestOK
<1>3. req.link => Openable(req.bagit) /\ req.item <= content[req.bagit]
  BY DEF LinkInv, LinkedOpen
<1>4. CASE ReadHealth
  <2>1. req.pc = "health"
    BY <1>4 DEF ReadHealth, Query
  <2>2. ASSUME NEW quality,
               \/ req' = [req EXCEPT !.pc = "costs", !.quality = quality]
               \/ req' = [[req EXCEPT !.pc = "costs", !.quality = quality] EXCEPT !.cut = TRUE]
        PROVE  LinkInv'
    <3>1. /\ SameAddress /\ req'.pc = "costs" /\ req'.items = req.items
          /\ req'.cut = req.cut \/ req'.cut = TRUE
      BY <1>1, <2>2 DEF SameAddress, NoRequest
    <3> QED BY <2>1, <3>1, ReadKeepsLinks
  <2> QED BY <1>4, <2>2, AfterQuery, QueryFailsKeepsLinks DEF ReadHealth, WholeOrCut, Proceed
<1>5. CASE ReadCosts
  <2>1. req.pc = "costs" /\ req.bagit \in Bagits
    BY <1>2, <1>5 DEF ReadCosts, Query, BagitQueries
  <2>2. CASE Transfers(req.bagit) # {} /\ Proceed([req EXCEPT !.pc = After("costs")])
    <3>1. /\ SameAddress /\ req'.pc = "content" /\ req'.items = req.items /\ req'.cut = req.cut
      BY <1>1, <2>2, AfterQuery DEF Proceed, SameAddress, NoRequest
    <3> QED BY <2>1, <2>2, <3>1, TransfersOfRow, ReadKeepsLinks
  <2>3. CASE Transfers(req.bagit) = {} /\ Proceed(Failed("no row"))
    <3>1. ~ req.link
      BY <1>3, <2>1, <2>3, TransfersOfRow DEF Openable
    <3> QED BY <2>3, <3>1, FailedKeepsLinks DEF Proceed
  <2> QED BY <1>5, <2>2, <2>3, QueryFailsKeepsLinks DEF ReadCosts
<1>6. CASE ReadContent
  <2>1. req.pc = "content" /\ req.bagit \in Bagits /\ content[req.bagit] \in Nat
    BY <1>2, <1>6 DEF ReadContent, Query, BagitQueries, TypeInv, TypeOK, TablesOK
  <2>2. HasRow(req.bagit)
    BY <2>1 DEF LinkInv, Found
  <2>3. ASSUME SameAddress, req'.pc = "bagit", req'.items \in Nat, req'.items <= content[req.bagit],
               req'.items = content[req.bagit] \/ req'.cut
        PROVE  LinkInv'
    <3>1. LinksLead'
      BY <2>3 DEF LinksLead
    <3> QED BY <1>2, <1>3, <2>1, <2>2, <2>3, <3>1, GoesOnKeepsLinks DEF BagitQueries
  <2>4. CASE Proceed(Contents(content[req.bagit]))
    <3>1. CASE Contents(content[req.bagit]) = Failed("shape") /\ req.bagit \in Misshapen
      BY <2>4, <3>1, FailedKeepsLinks DEF Proceed
    <3>2. CASE Contents(content[req.bagit]) =
                 [req EXCEPT !.pc = After("content"), !.items = content[req.bagit]]
      <4>1. SameAddress /\ req'.pc = "bagit" /\ req'.items = content[req.bagit]
        BY <1>1, <2>4, <3>2, AfterQuery DEF Proceed, SameAddress, NoRequest
      <4> QED BY <2>1, <2>3, <4>1
    <3> QED BY <3>1, <3>2 DEF Contents
  <2>5. ASSUME NEW n \in 0 .. content[req.bagit] - 1,
               req' = [Contents(n) EXCEPT !.cut = TRUE]
        PROVE  LinkInv'
    <3>1. CASE Contents(n) = Failed("shape")
      <4>1. SameAddress /\ req'.pc = "failed" /\ req'.items = req.items /\ req'.cut = TRUE
        BY <1>1, <2>5, <3>1 DEF Failed, SameAddress, NoRequest
      <4>2. LinksLead'
        BY <4>1 DEF LinksLead
      <4>3. req'.items \in Nat /\ (OfBagit => req'.items <= content[req.bagit])
        BY <4>1 DEF LinkInv, RequestOK
      <4> QED BY <4>1, <4>2, <4>3, GoesOnKeepsLinks DEF BagitQueries
    <3>2. CASE Contents(n) = [req EXCEPT !.pc = After("content"), !.items = n]
      <4>1. SameAddress /\ req'.pc = "bagit" /\ req'.items = n /\ req'.cut = TRUE
        BY <1>1, <2>5, <3>2, AfterQuery DEF SameAddress, NoRequest
      <4>2. n \in Nat /\ n <= content[req.bagit]
        BY <2>1
      <4> QED BY <2>3, <4>1, <4>2
    <3> QED BY <3>1, <3>2 DEF Contents
  <2> QED BY <1>6, <2>4, <2>5, QueryFailsKeepsLinks DEF ReadContent
<1>7. CASE ReadBagit
  <2>1. req.pc = "bagit" /\ HasRow(req.bagit)
    BY <1>7 DEF ReadBagit, Query, LinkInv, Found
  <2>2. CASE ~ Registered(req.bagit) /\ Proceed(Failed("no row"))
    BY <1>3, <2>2, FailedKeepsLinks DEF Openable, Proceed
  <2>3. CASE aes[req.bagit] = NoDigest /\ Proceed(Failed("null"))
    BY <1>3, <2>3, FailedKeepsLinks DEF Openable, Proceed
  <2>4. CASE /\ Registered(req.bagit) /\ aes[req.bagit] # NoDigest
             /\ Proceed([req EXCEPT !.pc = After("bagit")])
    <3>1. /\ SameAddress /\ req'.pc = "ingest" /\ req'.items = req.items /\ req'.cut = req.cut
      BY <1>1, <2>4, AfterQuery DEF Proceed, SameAddress, NoRequest
    <3>2. Openable(req.bagit)
      BY <2>1, <2>4 DEF Openable
    <3> QED BY <2>1, <3>1, <3>2, ReadKeepsLinks
  <2> QED BY <1>7, <2>2, <2>3, <2>4, QueryFailsKeepsLinks DEF ReadBagit
<1>8. CASE ReadIngest
  <2>1. req.pc = "ingest"
    BY <1>8 DEF ReadIngest, Query
  <2>2. ASSUME NEW some,
               \/ req' = [req EXCEPT !.pc = "checks", !.ingest = some]
               \/ req' = [[req EXCEPT !.pc = "checks", !.ingest = some] EXCEPT !.cut = TRUE]
        PROVE  LinkInv'
    <3>1. /\ SameAddress /\ req'.pc = "checks" /\ req'.items = req.items
          /\ req'.cut = req.cut \/ req'.cut = TRUE
      BY <1>1, <2>2 DEF SameAddress, NoRequest
    <3> QED BY <2>1, <3>1, ReadKeepsLinks
  <2> QED BY <1>8, <2>2, AfterQuery, QueryFailsKeepsLinks DEF ReadIngest, WholeOrCut, Proceed
<1>9. CASE ReadChecks
  <2>1. req.pc = "checks"
    BY <1>9 DEF ReadChecks, Query
  <2>2. CASE req.item > req.items /\ Proceed(Failed("no content"))
    <3>1. req.item > req.items
      BY <2>2
    <3>2. req.link => req.cut
      BY <1>1, <2>1, <3>1 DEF LinkInv, LinkedOpen
    <3> QED BY <2>2, <3>2, FailedKeepsLinks DEF Proceed
  <2>3. CASE Proceed([req EXCEPT !.pc = "answered"])
    <3>1. /\ SameAddress /\ req'.pc = "answered" /\ req'.items = req.items /\ req'.cut = req.cut
      BY <1>1, <2>3 DEF Proceed, SameAddress, NoRequest
    <3> QED BY <2>1, <3>1, ReadKeepsLinks
  <2> QED BY <1>9, <2>2, <2>3, QueryFailsKeepsLinks DEF ReadChecks
<1> QED BY <1>4, <1>5, <1>6, <1>7, <1>8, <1>9

LEMMA VisitKeepsLinks ==
    ASSUME TypeInv, BackedInv, LinkInv, UNCHANGED db, Visit
    PROVE  LinkInv'
BY VisitBegins, OverviewKeepsLinks, BagitOverviewKeepsLinks DEF Visit

(***************************************************************************)
(* The archive and the server together.                                    *)
(***************************************************************************)
WebInv == TypeInv /\ WrittenInv /\ BackedInv /\ LinkInv

\* A visit reads the archive; all it may change is the number of faults.
LEMMA VisitOnlyReads == VisitBeside => OnlyReads
BY DEF VisitBeside, Visit, OverviewHandler, BagitHandler, ContentHandler, NotANumber, Begin,
       Proceed, ListBagits, CutList, NextHealth, OverviewDone, ReadHealth, ReadCosts,
       ReadContent, ReadBagit, ReadIngest, ReadChecks, WholeOrCut, QueryFails, Fault, OnlyReads

LEMMA VisitKeepsArchive ==
    ASSUME TypeInv, WrittenInv, BackedInv, VisitBeside
    PROVE  TypeInv' /\ WrittenInv' /\ BackedInv'
<1>1. OnlyReads
  BY VisitOnlyReads
<1>2. BackedInv'
  BY <1>1 DEF OnlyReads, BackedInv, db
<1> QED BY <1>1, <1>2, ReadingKeepsArchive

LEMMA InitWeb == WebInit => WebInv
<1>1. Init => BackedInv
  BY DEF Init, Idle, BackedInv
<1>2. StatisticsInit => LinkInv
  BY DEF StatisticsInit, NoRequest, LinkInv, RequestOK, ListedOpen, Found, LinkedOpen, LinksLead,
         OfBagit, BagitQueries, Answered, None
<1> QED BY <1>1, <1>2, InitType, InitWritten DEF WebInit, WebInv

LEMMA NextKeepsWeb ==
    ASSUME WebInv, [WebNext]_<<vars, req>>
    PROVE  WebInv'
<1>1. CASE [Next]_vars /\ UNCHANGED req
  <2>1. TypeInv'
    BY <1>1, NextType DEF WebInv
  <2>2. WrittenInv'
    BY <1>1, NextKeepsWritten DEF WebInv
  <2>3. Keeps
    BY <1>1, NextKeepsRows DEF WebInv
  <2> QED BY <1>1, <2>1, <2>2, <2>3, RunKeepsLinks DEF WebInv, Keeps
<1>2. CASE VisitBeside
  <2>1. LinkInv'
    BY <1>2, VisitKeepsLinks DEF WebInv, VisitBeside
  <2> QED BY <1>2, <2>1, VisitKeepsArchive DEF WebInv
<1> QED BY <1>1, <1>2 DEF WebNext, IngestBeside

\* Whatever a run has done so far, wherever it died and whatever failed: the
\* bagits of an overview and the files of a bagit page can be opened.  The page
\* is made of queries without a transaction while the rows of Ingest and
\* Transfer are written one by one, and yet none of them finds less than the
\* page with the link has promised (Overview, BagitOverview, contentHandler).
THEOREM LinksCorrect == WebSpec => []LinksLead
<1>1. WebInv => LinksLead
  BY DEF WebInv, LinkInv
<1> QED BY <1>1, InitWeb, NextKeepsWeb, PTL DEF WebSpec

(***************************************************************************)
(* The quality of a set of locations.                                      *)
(***************************************************************************)
LEMMA FiniteUnits == IsFiniteSet(Units)
<1> DEFINE Of == [l \in Locations |-> {l} \X (1 .. Quality[l])]
           Parts == {Of[l] : l \in Locations}
<1>1. \A l \in Locations : IsFiniteSet(Of[l])
  <2>1. SUFFICES ASSUME NEW l \in Locations PROVE IsFiniteSet({l} \X (1 .. Quality[l]))
    OBVIOUS
  <2>2. IsFiniteSet({l})
    BY FS_Singleton
  <2>3. 1 \in Int /\ Quality[l] \in Int
    BY QualityAssumption
  <2>4. IsFiniteSet(1 .. Quality[l])
    BY <2>3, FS_Interval
  <2> QED BY <2>2, <2>4, FS_Product
<1>2. Of \in Surjection(Locations, Parts)
  BY DEF Surjection
<1>3. IsFiniteSet(Parts)
  BY <1>2, FS_Surjection, FiniteAssumption
<1>4. IsFiniteSet(UNION Parts)
  BY <1>1, <1>3, FS_UNION
<1>5. UNION Parts = Units
  BY DEF Units
<1> QED BY <1>4, <1>5

LEMMA TotalGrows ==
    ASSUME NEW S, NEW T, T \subseteq S
    PROVE  Total(S) \in Nat /\ Total(T) \in Nat /\ Total(T) <= Total(S)
<1> DEFINE Of(locations) == {u \in Units : u[1] \in locations}
<1>1. Of(S) \in SUBSET Units /\ Of(T) \in SUBSET Of(S)
  OBVIOUS
<1>2. IsFiniteSet(Of(S))
  BY <1>1, FiniteUnits, FS_Subset
<1>3. IsFiniteSet(Of(T)) /\ Cardinality(Of(T)) <= Cardinality(Of(S))
  BY <1>1, <1>2, FS_Subset
<1> QED BY <1>2, <1>3, FS_CardinalityType DEF Total

(***************************************************************************)
(* The health that was read is that of completed transfers: while these    *)
(* are still to be read, and then those of the page.                       *)
(***************************************************************************)
Ok(b) == {l \in Locations : transfer[b][l] = "ok"}
OkOnPage == {l \in Locations : <<l, "ok">> \in req.ingest}

HealthInv ==
    /\ req.quality \in Nat /\ req.quality <= Total(Locations)
    /\ Locations # {InitLoc} /\ req.pc \in {"costs", "content", "bagit", "ingest"} =>
           req.quality <= Total(Ok(req.bagit))
    /\ req.pc = "checks" \/ Answered("bagit") => req.quality <= Total(OkOnPage)

LEMMA RunKeepsHealth ==
    ASSUME "dbread" \notin FaultKinds, TypeInv, WrittenInv, LinkInv, HealthInv, [Next]_vars,
           UNCHANGED req
    PROVE  HealthInv'
<1>1. ASSUME req.pc \in {"costs", "content", "bagit", "ingest"}
      PROVE  Ok(req.bagit) \subseteq Ok(req.bagit)'
  <2>1. req.bagit \in Bagits
    BY <1>1 DEF LinkInv, RequestOK, BagitQueries
  <2> QED BY <2>1, OkStays DEF Ok
<1>2. ASSUME req.pc \in {"costs", "content", "bagit", "ingest"}
      PROVE  /\ Total(Ok(req.bagit)) \in Nat /\ Total(Ok(req.bagit)') \in Nat
             /\ Total(Ok(req.bagit)) <= Total(Ok(req.bagit)')
  BY <1>1, <1>2, TotalGrows
<1>3. Total(Ok(req.bagit))' = Total(Ok(req.bagit)') /\ OkOnPage' = OkOnPage
  BY DEF OkOnPage, Total
<1>4. Total(OkOnPage)' = Total(OkOnPage) /\ Total(Locations)' = Total(Locations)
  BY <1>3 DEF Total, Units
<1>5. Locations # {InitLoc} /\ req.pc \in {"costs", "content", "bagit", "ingest"} =>
          req.quality <= Total(Ok(req.bagit)')
  BY <1>2 DEF HealthInv
<1> QED BY <1>3, <1>4, <1>5 DEF HealthInv, Answered

\* A visit that leaves the quality and the transfers that were read.
LEMMA HealthQuiet ==
    ASSUME HealthInv, UNCHANGED db,
           req'.quality = req.quality, req'.ingest = req.ingest,
           \/ /\ req'.bagit = req.bagit
              /\ {req.pc, req'.pc} \subseteq {"costs", "content", "bagit", "ingest"}
           \/ req.pc = "checks" /\ req'.pc \in {"answered", "failed"}
           \/ /\ req'.pc \notin {"costs", "content", "bagit", "ingest", "checks"}
              /\ ~ Answered("bagit")'
    PROVE  HealthInv'
<1>1. /\ Total(Ok(req.bagit))' = Total({l \in Locations : transfer[req'.bagit][l] = "ok"})
      /\ Total(OkOnPage)' = Total(OkOnPage) /\ Total(Locations)' = Total(Locations)
  BY DEF Total, Units, Ok, OkOnPage, db
<1> QED BY <1>1 DEF HealthInv, Answered, Ok

LEMMA BeginKeepsHealth ==
    ASSUME NEW pc \in {"list", "health", "failed"}, req'.pc = pc, req'.quality = 0
    PROVE  HealthInv'
<1>1. Total(Locations)' = Total(Locations) /\ Total(Locations) \in Nat
  BY TotalGrows DEF Total, Units
<1> QED BY <1>1 DEF HealthInv, Answered

LEMMA FailedKeepsHealth ==
    ASSUME HealthInv, UNCHANGED db, DOMAIN req = DOMAIN NoRequest, NEW why, req' = Failed(why)
    PROVE  HealthInv'
<1>1. req'.pc = "failed" /\ req'.quality = req.quality /\ req'.ingest = req.ingest
  BY DEF Failed, NoRequest
<1> QED BY <1>1, HealthQuiet DEF Answered

\* The test of a location that was not transferred does not count: none has passed.
LEMMA ReadHealthKeepsHealth ==
    ASSUME "dbcut" \notin FaultKinds, Locations # {InitLoc} => PassedMeansArchived,
           LinkInv, HealthInv, UNCHANGED db, ReadHealth
    PROVE  HealthInv'
<1>1. DOMAIN req = DOMAIN NoRequest /\ req.bagit \in Bagits
  BY DEF ReadHealth, Query, LinkInv, RequestOK, BagitQueries
<1>2. CASE QueryFails
  BY <1>1, <1>2, FailedKeepsHealth DEF QueryFails
<1>3. CASE req' = [req EXCEPT !.pc = After("health"),
                              !.quality = QualityOf(req.bagit, Tested(req.bagit))]
  <2> DEFINE Passed == {l \in Tested(req.bagit) : test[req.bagit][l] = "passed"}
  <2>1. req'.pc = "costs" /\ req'.bagit = req.bagit /\ req'.quality = Total(Passed)
    BY <1>1, <1>3, AfterQuery DEF NoRequest, QualityOf
  <2>2. Passed \subseteq Locations
    BY DEF Tested
  <2>3. Total(Passed) \in Nat /\ Total(Passed) <= Total(Locations)
    BY <2>2, TotalGrows
  <2>4. Locations # {InitLoc} => Total(Passed) <= Total(Ok(req.bagit))
    <3>1. Locations # {InitLoc} => Passed \subseteq Ok(req.bagit)
      BY <1>1 DEF PassedMeansArchived, Tested, Ok
    <3> QED BY <3>1, TotalGrows
  <2>5. /\ Total(Ok(req.bagit))' = Total(Ok(req.bagit)) /\ Total(Locations)' = Total(Locations)
    BY <2>1 DEF Total, Units, Ok, db
  <2> QED BY <2>1, <2>3, <2>4, <2>5 DEF HealthInv, Answered
<1> QED BY <1>2, <1>3 DEF ReadHealth, WholeOrCut, Proceed, Fault

\* The row of the initial location is no error.
LEMMA ReadIngestKeepsHealth ==
    ASSUME "dbcut" \notin FaultKinds, TypeInv, InitRowInv, LinkInv, HealthInv, UNCHANGED db, ReadIngest
    PROVE  HealthInv'
<1>1. DOMAIN req = DOMAIN NoRequest /\ req.bagit \in Bagits /\ req.pc = "ingest"
  BY DEF ReadIngest, Query, LinkInv, RequestOK, BagitQueries
<1>2. CASE QueryFails
  BY <1>1, <1>2, FailedKeepsHealth DEF QueryFails
<1>3. CASE req' = [req EXCEPT !.pc = After("ingest"), !.ingest = Transfers(req.bagit)]
  <2>1. req'.pc = "checks" /\ req'.quality = req.quality /\ req'.ingest = Transfers(req.bagit)
    BY <1>1, <1>3, AfterQuery DEF NoRequest
  <2>2. OkOnPage' = Ok(req.bagit)
    BY <2>1 DEF OkOnPage, Transfers, Ok
  <2>3. Locations = {InitLoc} => Ok(req.bagit) = Locations
    <3>1. \E l \in Locations : transfer[req.bagit][l] # None
      BY <1>1 DEF LinkInv, Found, Openable, HasRow
    <3>2. \A l \in Locations : transfer[req.bagit][l] \in {None, "ok", "error"}
      BY <1>1 DEF TypeInv, TypeOK, StatusOK
    <3> QED BY <1>1, <3>1, <3>2 DEF InitRowInv, Ok
  <2>4. req.quality <= Total(Ok(req.bagit))
    BY <1>1, <2>3 DEF HealthInv
  <2>5. Total(OkOnPage)' = Total(Ok(req.bagit)) /\ Total(Locations)' = Total(Locations)
    BY <2>2 DEF Total, Units
  <2> QED BY <2>1, <2>4, <2>5 DEF HealthInv, Answered
<1> QED BY <1>2, <1>3 DEF ReadIngest, WholeOrCut, Proceed, Fault

LEMMA VisitKeepsHealth ==
    ASSUME "dbcut" \notin FaultKinds, TypeInv, InitRowInv,
           Locations # {InitLoc} => PassedMeansArchived,
           LinkInv, HealthInv, UNCHANGED db, Visit
    PROVE  HealthInv'
<1>1. DOMAIN req = DOMAIN NoRequest
  BY DEF LinkInv, RequestOK
<1>2. CASE QueryFails
  BY <1>1, <1>2, FailedKeepsHealth DEF QueryFails
<1>3. ASSUME NEW why, Proceed(Failed(why)) PROVE HealthInv'
  BY <1>1, <1>3, FailedKeepsHealth DEF Proceed
<1>4. ASSUME NEW pc \in {"list", "health"}, NEW page, NEW b, NEW item, NEW link,
             Begin(pc, page, b, item, link)
      PROVE  HealthInv'
  <2>1. req'.pc = pc /\ req'.quality = 0
    BY <1>4 DEF Begin, Proceed, NoRequest
  <2> QED BY <2>1, BeginKeepsHealth
<1>5. CASE OverviewHandler \/ (\E b \in Bagits : BagitHandler(b))
           \/ \E b \in Bagits, item \in 1 .. NumContent : ContentHandler(b, item)
  BY <1>4, <1>5, AfterQuery DEF OverviewHandler, BagitHandler, ContentHandler
<1>6. CASE NotANumber
  <2>1. req'.pc = "failed" /\ req'.quality = 0
    BY <1>6 DEF NotANumber, Proceed, NoRequest
  <2> QED BY <2>1, BeginKeepsHealth
<1>7. CASE ListBagits
  <2>1. CASE Proceed(List(Listable))
    <3>1. req'.pc = "healths" /\ req'.quality = req.quality /\ req'.ingest = req.ingest
      BY <1>1, <2>1 DEF Proceed, List, NoRequest
    <3> QED BY <3>1, HealthQuiet DEF Answered
  <2> QED BY <1>2, <1>3, <1>7, <2>1 DEF ListBagits, CutList, Fault
<1>8. CASE NextHealth
  <2>1. ASSUME NEW b, NEW seen, req' = HealthOf(b, seen) PROVE HealthInv'
    <3>1. req'.pc = req.pc /\ req'.quality = req.quality /\ req'.ingest = req.ingest
      BY <1>1, <2>1 DEF HealthOf, NoRequest
    <3> QED BY <1>8, <3>1, HealthQuiet DEF NextHealth, Query, Answered
  <2> QED BY <1>2, <1>8, <2>1 DEF NextHealth, WholeOrCut, Proceed, Fault
<1>9. CASE OverviewDone
  <2>1. req.page = "overview"
    BY <1>9 DEF OverviewDone, Query, LinkInv, RequestOK
  <2>2. /\ req'.pc = "answered" /\ req'.page = "overview"
        /\ req'.quality = req.quality /\ req'.ingest = req.ingest
    BY <1>1, <1>9, <2>1 DEF OverviewDone, Proceed, NoRequest
  <2> QED BY <2>2, HealthQuiet DEF Answered
<1>10. CASE ReadHealth
  BY <1>10, ReadHealthKeepsHealth
<1>11. CASE ReadCosts
  <2>1. CASE Proceed([req EXCEPT !.pc = After("costs")])
    <3>1. /\ req'.pc = "content" /\ req'.bagit = req.bagit
          /\ req'.quality = req.quality /\ req'.ingest = req.ingest
      BY <1>1, <2>1, AfterQuery DEF Proceed, NoRequest
    <3> QED BY <1>11, <3>1, HealthQuiet DEF ReadCosts, Query
  <2> QED BY <1>2, <1>3, <1>11, <2>1 DEF ReadCosts
<1>12. CASE ReadContent
  <2>1. CASE Proceed(Contents(content[req.bagit]))
    <3>1. CASE Contents(content[req.bagit]) = Failed("shape")
      BY <1>3, <2>1, <3>1
    <3>2. CASE Contents(content[req.bagit]) =
                 [req EXCEPT !.pc = After("content"), !.items = content[req.bagit]]
      <4>1. /\ req'.pc = "bagit" /\ req'.bagit = req.bagit
            /\ req'.quality = req.quality /\ req'.ingest = req.ingest
        BY <1>1, <2>1, <3>2, AfterQuery DEF Proceed, NoRequest
      <4> QED BY <1>12, <4>1, HealthQuiet DEF ReadContent, Query
    <3> QED BY <3>1, <3>2 DEF Contents
  <2> QED BY <1>2, <1>12, <2>1 DEF ReadContent, Fault
<1>13. CASE ReadBagit
  <2>1. CASE Proceed([req EXCEPT !.pc = After("bagit")])
    <3>1. /\ req'.pc = "ingest" /\ req'.bagit = req.bagit
          /\ req'.quality = req.quality /\ req'.ingest = req.ingest
      BY <1>1, <2>1, AfterQuery DEF Proceed, NoRequest
    <3> QED BY <1>13, <3>1, HealthQuiet DEF ReadBagit, Query
  <2> QED BY <1>2, <1>3, <1>13, <2>1 DEF ReadBagit
<1>14. CASE ReadIngest
  BY <1>14, ReadIngestKeepsHealth
<1>15. CASE ReadChecks
  <2>1. CASE Proceed([req EXCEPT !.pc = "answered"])
    <3>1. req'.pc = "answered" /\ req'.quality = req.quality /\ req'.ingest = req.ingest
      BY <1>1, <2>1 DEF Proceed, NoRequest
    <3> QED BY <1>15, <3>1, HealthQuiet DEF ReadChecks, Query
  <2> QED BY <1>2, <1>3, <1>15, <2>1 DEF ReadChecks
<1> QED BY <1>5, <1>6, <1>7, <1>8, <1>9, <1>10, <1>11, <1>12, <1>13, <1>14, <1>15 DEF Visit

(***************************************************************************)
(* What the archive and the pages about it agree on.                       *)
(***************************************************************************)
AgreedInv == PageInv /\ InitRowInv /\ HealthInv /\ (Locations # {InitLoc} => RunInv)

LEMMA NextKeepsAgreed ==
    ASSUME FaultKinds \cap {"dbcut", "dbread"} = {}, WebInv, AgreedInv, [WebNext]_<<vars, req>>
    PROVE  AgreedInv'
<1>1. CASE [Next]_vars /\ UNCHANGED req
  <2>1. PageInv' /\ InitRowInv'
    BY <1>1, NextKeepsPage, NextKeepsInitRow DEF WebInv, AgreedInv
  <2>2. HealthInv'
    BY <1>1, RunKeepsHealth DEF WebInv, AgreedInv
  <2>3. Locations # {InitLoc} => RunInv'
    BY <1>1, NextKeepsRun DEF WebInv, AgreedInv
  <2> QED BY <2>1, <2>2, <2>3 DEF AgreedInv
<1>2. CASE VisitBeside
  <2>1. PageInv' /\ InitRowInv' /\ (Locations # {InitLoc} => RunInv')
    BY <1>2, VisitOnlyReads, ReadingKeepsArchive DEF WebInv, AgreedInv
  <2>2. HealthInv'
    BY <1>2, VisitKeepsHealth DEF WebInv, AgreedInv, RunInv, VisitBeside
  <2> QED BY <2>1, <2>2 DEF AgreedInv
<1> QED BY <1>1, <1>2 DEF WebNext, IngestBeside

LEMMA InitAgreed == WebInit => AgreedInv
<1>1. Init => InitRowInv
  BY LocationsAssumption DEF Init, InitRowInv, None
<1>2. ASSUME StatisticsInit PROVE HealthInv
  <2>1. req.quality = 0 /\ req.pc = "idle"
    BY <1>2 DEF StatisticsInit, NoRequest
  <2> QED BY <2>1, TotalGrows DEF HealthInv, Answered
<1> QED BY <1>1, <1>2, InitPage, InitRun DEF WebInit, AgreedInv

\* A page never calls healthy what it does not show as archived: its first
\* query is about the tests, which come last, and its fifth about the
\* transfers, which come first, so that what a run does between the two can
\* only add to the transfers.  With rows that can be read: Transfer writes to
\* a location whose row it cannot read, and may make an error of it; and with
\* results that are not cut short, after which a copy is tested without a row.
THEOREM HealthCorrect ==
    ASSUME FaultKinds \cap {"dbcut", "dbread"} = {}
    PROVE  WebSpec => []HealthIsBacked
<1>1. AgreedInv => HealthIsBacked
  <2>1. Total(OkOnPage) = Total({l \in Locations : <<l, "ok">> \in req.ingest})
    BY DEF OkOnPage
  <2>2. Total(OkOnPage) \in Nat /\ Healthy \in Nat
    BY TotalGrows, QualityAssumption
  <2> QED BY <2>1, <2>2 DEF AgreedInv, HealthInv, HealthIsBacked
<1>2. WebInv /\ AgreedInv /\ [WebNext]_<<vars, req>> => AgreedInv'
  BY NextKeepsAgreed
<1> QED BY <1>1, <1>2, InitWeb, InitAgreed, NextKeepsWeb, PTL DEF WebSpec
=============================================================================
