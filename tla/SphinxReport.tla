---------------------------- MODULE SphinxReport ----------------------------
(***************************************************************************)
(* Ingest.Report, the action "report" of cmd/main: a process that writes   *)
(* keys.txt, the index, the table of the bagits and one page per bagit     *)
(* from the database and the key directory, without a transaction and      *)
(* while a run may change both.  It loops over the bagits once for each of *)
(* the four.                                                               *)
(***************************************************************************)
EXTENDS Archive

CONSTANT MaxReports  \* bound: how many reports are begun in one behaviour

ASSUME ReportsAssumption == MaxReports \in Nat

VARIABLES
    job,    \* memory of the process, with the fields of `run`
    draft,  \* what it has collected for the file it writes next
    out,    \* the files of the last report, finished or not
    since   \* history: what held when the last report began

reports == <<job, draft, out, since>>

Pager == INSTANCE BagitPages WITH run <- job

Nothing == [b \in {} |-> None]
BlankPage == [files |-> 0, tests |-> {}, transfers |-> {}]

ReportInit ==
    /\ job = Idle
    /\ draft = Nothing
    /\ out = [keys |-> Nothing, table |-> Nothing, pages |-> Nothing, done |-> {}]
    /\ since = [n |-> 0, settled |-> {}]

\* A step of the report that changes nothing but its own memory.
Proceed(next) == Pager!Goto(next) /\ UNCHANGED <<run, out, since>>
Die == Pager!Abort /\ draft' = Nothing /\ UNCHANGED <<run, out, since>>
DiesOf(kind) == Pager!Fails(kind) /\ draft' = Nothing /\ UNCHANGED <<run, out, since>>

Inside(phase) == job.phase = phase
InLoop(phase) == Pager!HasBagit(phase)
Enter(pc) == [job EXCEPT !.pc = pc, !.page = Tail(@), !.cur = Head(job.page).name,
                         !.locs = job.known]
Leave == [job EXCEPT !.pc = "next", !.cur = None, !.left = 0]

Put(files, b, value) == [x \in DOMAIN files \cup {b} |-> IF x = b THEN value ELSE files[x]]
Truncate(files, b) == [x \in DOMAIN files \ {b} |-> files[x]]

(***************************************************************************)
(* NewIngest, the main project, and the O_TRUNC of keys.txt.               *)
(***************************************************************************)
Settled == {b \in Bagits : \A l \in Locations : transfer[b][l] = "ok" /\ test[b][l] # None}

BeginReport(locations, checksum) ==
    /\ InitLoc \in locations
    /\ job' = [Idle EXCEPT !.pc = "sphinx", !.phase = "keys", !.known = locations,
                           !.checksum = checksum]
    /\ out' = [out EXCEPT !.done = {}]
    /\ since' = [n |-> since.n + 1, settled |-> Settled]

StartReport ==
    /\ job.pc = "idle"
    /\ since.n < MaxReports
    /\ \/ NoFault /\ BeginReport(Locations, TRUE)
       \/ Fault("dbcut") /\ BeginReport(Locations, FALSE)
       \/ Fault("dbcut") /\ \E some \in SUBSET Locations : BeginReport(some, TRUE)
    /\ UNCHANGED <<disk, db, run, draft>>

\* createSphinx copies the files of an empty project over those of an earlier
\* report, the index of the bagit's page included.
CreateSphinx(next) == Pager!Goto(next) /\ UNCHANGED <<run, since>>

OpenKeys ==
    /\ job.pc = "sphinx"
    /\ CreateSphinx([job EXCEPT !.pc = "count"])
    /\ out' = [out EXCEPT !.keys = Nothing]
    /\ UNCHANGED draft

\* The pages of all four loops.
ReportPage ==
    /\ Pager!CountRows \/ Pager!ReadPage \/ Pager!EndOfPage
    /\ draft' = IF job'.pc = "idle" THEN Nothing ELSE draft
    /\ UNCHANGED <<run, out, since>>

\* The loop of a phase is over: its file is written, the next one is opened.
Written(phase) == Pager!PagesDone /\ Inside(phase) /\ NoFault /\ UNCHANGED <<disk, db, run, since>>
NextLoop(phase) == [Idle EXCEPT !.pc = "count", !.phase = phase, !.known = job.known,
                                !.checksum = job.checksum]

(***************************************************************************)
(* ReportKeys.  GetIV and GetKey read nothing when the file is missing or  *)
(* unreadable, and part of it while a run is writing it.                   *)
(***************************************************************************)
Read(files, b, writing) ==
    {files[b]} \cup (IF run.cur = b /\ run.pc = writing THEN {Torn} ELSE {})

ReadIVOfFirst ==
    /\ InLoop("keys")
    /\ \E iv \in Read(ivFile, rows[1], "setiv") :
          Proceed([Enter("key") EXCEPT !.iv = iv])
    /\ UNCHANGED draft

ReadIV ==
    /\ InLoop("keys")
    /\ \/ \E iv \in Read(ivFile, Head(job.page).name, "setiv") :
             Proceed([Enter("key") EXCEPT !.iv = iv])
       \/ /\ Fault("keyread")
          /\ job' = Enter("key")
          /\ UNCHANGED <<disk, db, run, out, since>>
    /\ UNCHANGED draft

ReadKey ==
    /\ job.pc = "key"
    /\ \/ NoFault /\ \E key \in Read(keyFile, job.cur, "setkey") :
            draft' = Put(draft, job.cur, [key |-> key, iv |-> job.iv])
       \/ Fault("keyread") /\ draft' = Put(draft, job.cur, [key |-> Missing, iv |-> job.iv])
    /\ job' = [Leave EXCEPT !.iv = Missing]
    /\ UNCHANGED <<disk, db, run, out, since>>

\* ReportIndex and ReportBagits refuse to begin without the test "checksum".
KeysDone ==
    /\ Written("keys")
    /\ out' = [out EXCEPT !.keys = draft, !.done = @ \cup {"keys"}]
    /\ job' = IF job.checksum THEN NextLoop("index") ELSE Idle
    /\ draft' = Nothing

(***************************************************************************)
(* ReportIndex asks for the tests of every bagit, goes on when there is no *)
(* answer, and its template does not print the number it counts.           *)
(***************************************************************************)
IndexBagit == InLoop("index") /\ Proceed([job EXCEPT !.page = Tail(@)]) /\ UNCHANGED draft

IndexDone ==
    /\ Written("index")
    /\ out' = [out EXCEPT !.table = Nothing]
    /\ job' = NextLoop("bagits")
    /\ UNCHANGED draft

(***************************************************************************)
(* ReportBagits counts the latest test at each location.  Where there is   *)
(* none, or the query fails, the loop over the locations ends.             *)
(***************************************************************************)
BeginTestsAfresh ==
    /\ InLoop("bagits")
    /\ Proceed(Enter("last"))
    /\ draft' = Put(Nothing, Head(job.page).name, {})

BeginTests ==
    /\ InLoop("bagits")
    /\ Proceed(Enter("last"))
    /\ draft' = Put(draft, Head(job.page).name, {})

CountTest(l) ==
    /\ test[job.cur][l] # None
    /\ Proceed([job EXCEPT !.locs = @ \ {l}])
    /\ draft' = [draft EXCEPT ![job.cur] = @ \cup {[loc |-> l, status |-> test[job.cur][l]]}]

NoTest(l) ==
    /\ (test[job.cur][l] = None /\ NoFault) \/ Fault("dbread")
    /\ job' = [job EXCEPT !.locs = {}]
    /\ UNCHANGED <<disk, db, run, draft, out, since>>

LastTest(l) == job.pc = "last" /\ l \in job.locs /\ (CountTest(l) \/ NoTest(l))

TestsDone == job.pc = "last" /\ job.locs = {} /\ Proceed(Leave) /\ UNCHANGED draft

TableDone ==
    /\ Written("bagits")
    /\ out' = [out EXCEPT !.table = draft, !.done = @ \cup {"table"}]
    /\ job' = NextLoop("pages")
    /\ draft' = Nothing

(***************************************************************************)
(* ReportBagit: the content rows, counted once and read in pages, and the  *)
(* latest test and the transfer of each location, which are two queries.   *)
(* A location without a transfer is a nil pointer.                         *)
(***************************************************************************)
BeginPage ==
    /\ InLoop("pages")
    /\ CreateSphinx(Enter("contents"))
    /\ out' = [out EXCEPT !.pages = Truncate(@, Head(job.page).name)]
    /\ draft' = BlankPage

CountContents ==
    /\ job.pc = "contents"
    /\ \/ Proceed([job EXCEPT !.pc = "page", !.left = content[job.cur]]) /\ UNCHANGED draft
       \/ DiesOf("dbread")

MoreContentsButOne == draft.files + 1 < job.left
MoreContents == draft.files < job.left

\* Content rows are only ever added, so all pages but the last are full.
LoadContents ==
    /\ job.pc = "page"
    /\ MoreContents
    /\ \/ /\ Proceed(job)
          /\ draft' = [draft EXCEPT !.files =
                         IF @ + PageSize < content[job.cur] THEN @ + PageSize
                                                            ELSE content[job.cur]]
       \/ DiesOf("dbread")

LoadTests(l) ==
    /\ job.pc = "page"
    /\ ~ MoreContents
    /\ l \in job.locs
    /\ \/ /\ Proceed([job EXCEPT !.pc = "transfer", !.locs = @ \ {l}, !.loc = l])
          /\ draft' = [draft EXCEPT !.tests = @ \cup {[loc |-> l, status |-> test[job.cur][l]]}]
       \/ DiesOf("dbread")

LoadTransfer ==
    /\ job.pc = "transfer"
    /\ \/ /\ Proceed([job EXCEPT !.pc = "page", !.loc = None])
          /\ draft' = [draft EXCEPT !.transfers =
                         @ \cup {[loc |-> job.loc, status |-> transfer[job.cur][job.loc]]}]
       \/ DiesOf("dbread")

Render ==
    /\ job.pc = "page"
    /\ ~ MoreContents
    /\ job.locs = {}
    /\ IF \E t \in draft.transfers : t.status = None
       THEN Die
       ELSE /\ Pager!Goto(Leave)
            /\ out' = [out EXCEPT !.pages = Put(@, job.cur, draft)]
            /\ draft' = Nothing
            /\ UNCHANGED <<run, since>>

ReportDone ==
    /\ Written("pages")
    /\ out' = [out EXCEPT !.done = @ \cup {"pages"}]
    /\ job' = Idle
    /\ UNCHANGED draft

\* The process is killed, or fails to open or write one of its files.
CrashReport == job.pc # "idle" /\ DiesOf("report")

ReportStep ==
    \/ StartReport \/ OpenKeys \/ ReportPage
    \/ ReadIV \/ ReadKey \/ KeysDone
    \/ IndexBagit \/ IndexDone
    \/ BeginTests \/ (\E l \in Locations : LastTest(l)) \/ TestsDone \/ TableDone
    \/ BeginPage \/ CountContents \/ LoadContents
    \/ (\E l \in Locations : LoadTests(l)) \/ LoadTransfer \/ Render \/ ReportDone
    \/ CrashReport
=============================================================================
