----------------------------- MODULE Statistics -----------------------------
(***************************************************************************)
(* The handlers of the report server (pkg/report) and the queries behind   *)
(* them.  A page is put together from queries that are made one after the  *)
(* other, without a transaction, and a visitor asks for one page at a      *)
(* time: by a link on the page before, or by typing an address.            *)
(***************************************************************************)
EXTENDS Archive

CONSTANTS
    Quality,   \* column quality of table location, and
    Healthy,   \* the quality 1.0 of a healthy bagit, in the same unit
    Misshapen  \* bagits with metadata that the type Indexer cannot hold

ASSUME QualityAssumption == Quality \in [Locations -> Nat] /\ Healthy \in Nat \ {0}
ASSUME MisshapenAssumption == Misshapen \subseteq Bagits
ASSUME FiniteAssumption == IsFiniteSet(Locations)

VARIABLE req   \* the request that is answered, then its answer

NoRequest == [pc |-> "idle", page |-> None,
              bagit |-> None, item |-> 0,     \* the numbers in the address
              link |-> FALSE,                 \* history: it was a link, not typed
              listed |-> {}, healthy |-> {},  \* the Overview, and the bagits
              rest |-> <<>>,                  \* whose health is still to be asked
              quality |-> 0, items |-> 0, ingest |-> {},  \* the BagitOverview
              cut |-> FALSE,                  \* history: a result was cut short
              why |-> None]                   \* what an error page says

StatisticsInit == req = NoRequest

Proceed(next) == req' = next /\ UNCHANGED faults
Failed(why) == [req EXCEPT !.pc = "failed", !.why = why]
Query(name) == req.pc = name

\* The query fails.
QueryFails == Fault("query") /\ req' = Failed("db")

(***************************************************************************)
(* The queries of Statistics.BagitOverview, in their order.                *)
(***************************************************************************)
OrderHealthLast == <<"costs", "content", "bagit", "ingest", "health", "checks">>
Order == <<"health", "costs", "content", "bagit", "ingest", "checks">>
After(query) == Order[1 + CHOOSE k \in 1 .. Len(Order) - 1 : Order[k] = query]

(***************************************************************************)
(* The addresses.  A number in a table of the answer is a link.            *)
(***************************************************************************)
Resting == req.pc \in {"idle", "answered", "failed"}
Begin(pc, page, b, item, link) ==
    Proceed([NoRequest EXCEPT !.pc = pc, !.page = page, !.bagit = b, !.item = item,
                              !.link = link])

OverviewHandler == Resting /\ Begin("list", "overview", None, 0, FALSE)

Answered(page) == req.pc = "answered" /\ req.page = page
BagitLink(b) == Answered("overview") /\ b \in req.listed
ContentLink(b, item) == Answered("bagit") /\ req.bagit = b /\ item <= req.items

BagitHandler(b) == Resting /\ Begin(Order[1], "bagit", b, 0, BagitLink(b))
ContentHandler(b, item) ==
    Resting /\ Begin(Order[1], "content", b, item, ContentLink(b, item))

\* strconv.ParseInt refuses what was typed.
NotANumber ==
    /\ Resting
    /\ Proceed([NoRequest EXCEPT !.pc = "failed", !.why = "number"])

(***************************************************************************)
(* getHealth: of each location with a test, the status of the latest one.  *)
(***************************************************************************)
Tested(b) == {l \in Locations : test[b][l] # None}

\* The sum of the column quality, counted unit by unit.
Units == UNION {{l} \X (1 .. Quality[l]) : l \in Locations}
Total(locations) == Cardinality({u \in Units : u[1] \in locations})
QualityOf(b, seen) == Total({l \in seen : test[b][l] = "passed"})

\* Rows.Err() is not asked for: a result that the server cuts short is taken
\* for the whole.
WholeOrCut(all, next(_)) ==
    \/ Proceed(next(all))
    \/ /\ Fault("dbcut")
       /\ \E some \in SUBSET all : some # all /\ req' = [next(some) EXCEPT !.cut = TRUE]

(***************************************************************************)
(* Statistics.Overview: the join of bagit with content, then the health of *)
(* every bagit in it.  A ciphertext digest that is NULL cannot be scanned. *)
(***************************************************************************)
Listable == {b \in Bagits : Registered(b) /\ content[b] > 0}

\* GROUP BY the key of table bagit.
InOrder(some) == SelectSeq(rows, LAMBDA b : b \in some)

List(some) == [req EXCEPT !.pc = "healths", !.rest = InOrder(some), !.listed = some]

Nulls == {b \in Listable : aes[b] = NoDigest}

ListNulls == Query("list") /\ WholeOrCut(Listable, List)

CutList ==
    /\ Fault("dbcut")
    /\ \E some \in SUBSET (Listable \ Nulls) :
          some # Listable /\ req' = [List(some) EXCEPT !.cut = TRUE]

ListBagits ==
    /\ Query("list")
    /\ \/ Nulls # {} /\ Proceed(Failed("null"))
       \/ Nulls = {} /\ Proceed(List(Listable))
       \/ CutList
       \/ QueryFails

HealthOf(b, seen) ==
    [req EXCEPT !.rest = Tail(@),
                !.healthy = IF QualityOf(b, seen) >= Healthy THEN @ \cup {b} ELSE @]

NextHealth ==
    /\ Query("healths")
    /\ req.rest # <<>>
    /\ LET b == Head(req.rest) IN
       WholeOrCut(Tested(b), LAMBDA seen : HealthOf(b, seen)) \/ QueryFails

OverviewDone ==
    /\ Query("healths")
    /\ req.rest = <<>>
    /\ Proceed([req EXCEPT !.pc = "answered"])

(***************************************************************************)
(* Statistics.BagitOverview, for the page of a bagit and for that of one   *)
(* of its files.                                                           *)
(***************************************************************************)
ReadHealth ==
    /\ Query("health")
    /\ \/ WholeOrCut(Tested(req.bagit),
                     LAMBDA seen : [req EXCEPT !.pc = After("health"),
                                               !.quality = QualityOf(req.bagit, seen)])
       \/ QueryFails

Transfers(b) == {t \in Locations \X {"ok", "error"} : transfer[b][t[1]] = t[2]}

\* The sum over the transfers of a bagit; of none, there is no row to scan.
ReadCosts ==
    /\ Query("costs")
    /\ \/ Transfers(req.bagit) # {} /\ Proceed([req EXCEPT !.pc = After("costs")])
       \/ Transfers(req.bagit) = {} /\ Proceed(Failed("no row"))
       \/ QueryFails

\* The first n content rows.  Their metadata is stored as the indexer wrote it,
\* whatever it is, and decoded into fields that have types.
Contents(n) ==
    IF req.bagit \in Misshapen /\ n > 0 THEN Failed("shape")
    ELSE [req EXCEPT !.pc = After("content"), !.items = n]

ReadContent ==
    /\ Query("content")
    /\ \/ Proceed(Contents(content[req.bagit]))
       \/ /\ Fault("dbcut")
          /\ \E n \in 0 .. content[req.bagit] - 1 :
                req' = [Contents(n) EXCEPT !.cut = TRUE]
       \/ QueryFails

ReadBagit ==
    /\ Query("bagit")
    /\ \/ ~ Registered(req.bagit) /\ Proceed(Failed("no row"))
       \/ Registered(req.bagit) /\ aes[req.bagit] = NoDigest /\ Proceed(Failed("null"))
       \/ /\ Registered(req.bagit) /\ aes[req.bagit] # NoDigest
          /\ Proceed([req EXCEPT !.pc = After("bagit")])
       \/ QueryFails

ReadIngest ==
    /\ Query("ingest")
    /\ \/ WholeOrCut(Transfers(req.bagit),
                     LAMBDA some : [req EXCEPT !.pc = After("ingest"), !.ingest = some])
       \/ QueryFails

\* The tests and the mimetypes, on which nothing else on the page depends.
\* The handler of a file then looks for it among the files of the bagit.
ReadChecks ==
    /\ Query("checks")
    /\ \/ req.item > req.items /\ Proceed(Failed("no content"))
       \/ req.item <= req.items /\ Proceed([req EXCEPT !.pc = "answered"])
       \/ QueryFails

Visit ==
    \/ OverviewHandler \/ NotANumber
    \/ \E b \in Bagits : BagitHandler(b)
    \/ \E b \in Bagits, item \in 1 .. NumContent : ContentHandler(b, item)
    \/ ListBagits \/ NextHealth \/ OverviewDone
    \/ ReadHealth \/ ReadCosts \/ ReadContent \/ ReadBagit \/ ReadIngest \/ ReadChecks
=============================================================================
