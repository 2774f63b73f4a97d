# tbbs, the boring bagit store: a TLA+ model of its archive

`tbbs` (Go) takes zipped bagits from one folder, enters them in a MySQL database,
copies them to several storage locations, encrypted where the location asks for it,
and reads every copy back from time to time to compare its checksum. A second program
serves reports of that database over http. This directory models both: the program `cmd/main` with the
actions `ingest` and `report`, what they leave on disk and in the database, how it goes on from there after
every kind of failure and beside a second run; and the report server, its pages, its requests and its end.

## 1. Inventory

| component | source | state | operations | status |
|---|---|---|---|---|
| start and main loop | `cmd/main/main.go`, `ingest.go` 41-106, 168-201 | locations, tests (memory) | `NewIngest`, then `Ingest`, `Transfer`, `Check`; the first error is `logger.Fatalf` | modelled, without configuration and tunnels |
| ingest walk | `ingest.go` 545-711 | tables `bagit`, `content`, the initial row of `bagit_location` | walk, deep check, INSERTs | modelled |
| paging | `ingest.go` 110-153 | one page of copies of rows (memory) | `BagitLoadAll` with a callback | modelled |
| transfer | `ingest.go` 515-543, `ingestBagitLocation.go` | files at the locations, `bagit_location`, `bagit.sha512_aes` | `Exists`, `Transfer`, `Store` | modelled |
| keys and encryption | `ingestBagit.go` 55-87, `ingestBagitLocation.go` 57-90 | `<name>.key`, `<name>.iv` in the key directory | `createEncrypt`, `GetKey`, `SetKey`, `GetIV`, `SetIV` | modelled |
| fixity check | `ingest.go` 398-407, 713-738, `ingestBagitTestLocation.go` | `bagit_test_location` | `Check`, `Test` | modelled |
| overlapping runs | `cmd/main/main.go` 113-131; nothing in the code prevents them | all of the above | two processes of the action `ingest` | modelled |
| sphinx reports | `ingestReport.go` 427-848, `ingestBagit.go` 89-203 | `keys.txt`, the reStructuredText files | action `report`: `ReportKeys`, `ReportIndex`, `ReportBagits`, `ReportBagit` | modelled |
| table layout | `rstTable.go`, `ingestReport.go` 27-319 | none | `splitLine`, `linebreak`, `RSTTable` | modelled, without `chunks` |
| statistics | `pkg/report/statistics.go` | none, reads the tables | `Overview`, `BagitOverview` | modelled |
| report server | `pkg/report/server*.go`, `cmd/report/main.go` | template map, http server, two goroutines and one per request | handlers, `InitTemplates`, start, `Shutdown` | modelled, without configuration and tunnels |
| helpers | `pkg/report/helper.go` | none | `FormatInt`, `StructToMap` | `FormatInt` modelled |
| unused API | `transferStore`, `locationStore`, `testLoad`, `bagitContentStore`, `ExistsAt`; `RSTTable.DrawTable` with `ColWidth`, `RowHeight` | | no caller | not modelled: dead, and partly not executable (a table and a `returning` clause the schema does not have); the table drawing, which is executable, is in `Layout` |
| configuration, embedded and vendored files | `config.go`, `embed.go`, `report/` | | | not modelled |

**How they interact.** One run is strictly sequential. `Ingest` writes the bagit row
and the row of the initial location; `Transfer` and `Check` read them page by page,
each bagit as a copy made when its page was read. All that one phase tells the next goes
through the database and the files, and all that one run tells the next does too: the
process keeps nothing. Cron, an operator or a crash decide when a run begins and ends.
A report is a process of its own, started independently: it only reads the tables and the key directory, in four loops
over the bagits, each a series of queries without a transaction. So is the report server, which only reads the tables;
its requests share nothing but the map of the templates.

**What makes it hard.** There is no transaction, no lock and no cleaning up: a run
can die between any two statements, and the next has to get on with what it finds.
Many errors are dropped or mistaken for "does not exist". The order of the
locations is that of a Go map. Zips arrive while runs are going on, files decay, and test
results grow old. A second run may be started while the first is copying: there is no lock, and the two share key
files, targets and rows. The report server ends by three goroutines that race for the end of the process.

**What makes each part correct**: the walk - what it skips is completely
entered; paging - no bagit is left out of a phase; transfer - an `ok` row means a
complete copy with the recorded digest, for good; keys - no ciphertext without its key;
check - only what was archived passes, what decays is reported; reports - nothing is left
out that was archived before the report began; pages - what is called healthy is archived, what is listed can be opened;
server - it ends when it is told to and not before; layout - no word and no digit is lost; all of it - every zip gets everywhere.

## 2. Modules

| module | models |
|---|---|
| `Archive` | constants and their assumptions, the files, tables and process memory, `Init`, the ways a step can fail |
| `BagitPages` | `BagitLoadAll`, used by two phases of a run and the four loops of a report |
| `IngestWalk` | phase 1, `Ingest.Ingest` |
| `TransferPhase` | phase 2, `Ingest.Transfer`, `IngestBagitLocation.Transfer`, `createEncrypt` |
| `FixityCheck` | phase 3, `Ingest.Check`, `IngestBagitTestLocation.Test` |
| `IngestRun` | start of a run, crash, surroundings, `Next`, fairness, all properties |
| `Preservation` | the abstract promise: bagits, copies that are sound, decayed or locked, archived, examined, certified; `IngestRun` implements it (`Preserves`) |
| `OverlappingRun` | a run beside another: its own steps, and those that meet a key file or a target the other has open |
| `TwoRuns` | two instances of `OverlappingRun`, each the `other` of the other, over one archive |
| `SphinxReport` | the action `report`; its pager is `INSTANCE BagitPages WITH run <- job` |
| `ReportRun` | `IngestRun` and `SphinxReport` over one archive, the properties of reports |
| `Statistics` | the handlers of the report server and the queries of `Overview` and `BagitOverview`, one step per query |
| `WebRun` | `IngestRun` and `Statistics` over one archive, the properties of pages |
| `ReportServer` | the process of the report server: start, listener, signal, shutdown, requests, templates |
| `Layout` | `splitLine`, `linebreak`, `RSTTable`, `FormatInt` as operators, and the tables and numbers they are tried on |
| `MCIngestRun`, `MCTwoRuns`, `MCReportRun`, `MCWebRun`, `MCReportServer`, `MCLayout` | model values, symmetry and bounds of the TLC runs |
| `ArchiveProofs`, `PageProofs`, `CheckProofs` | theorems about `IngestRun`, each module on top of those before it |
| `ReportProofs`, `WebProofs`, `TwoRunsProofs`, `ServerProofs`, `LayoutProofs` | theorems about `ReportRun`, `WebRun`, `TwoRuns`, `ReportServer` and `Layout` |

**State.** `file[b][l]` is the file of bagit `b` at location `l` (the zip itself at the
initial location), abstracted to whether it is absent, partial or whole, the key and iv
its bytes are encrypted with, and a version that changes when they decay. Equal
bytes are equal records, so a SHA-512 digest is represented by the bytes it identifies
(collisions are left out), and decryption needs no model: a ciphertext carries the key
it was made with. `keyFile`, `ivFile` are the key directory; `rows`, `sha`, `aes`,
`content`, `transfer`, `test` the tables; `fresh` says whether a passed test is younger
than the interval of its location, which is all `bagitTestLocationNeeded` asks. `run` is the memory of
the one process: `pc` names the next call that reads or changes shared state, the other
fields are the local variables and fields that live across such calls.

**Steps.** An action is the code between two calls to the file system or the database,
with the first of them. So a crash, a deposit or a decay can come between any
two of them. Pure code between them (building paths, the progress bar, the messages)
is part of the step. Errors: `Abort` ends the process without a change (an error
that follows from the state), `Fails(kind)` does so because a call failed, `ErrorRow`
stores the status `error` first, as most error paths of the copy do.

A report has the same kind of memory in `job` (its phases are "keys", "index", "bagits", "pages"), `draft` for what
it has collected for the file it writes next, and `out` for the files: `out.done` names those the last report has finished.
`since` is a history variable: the bagits that were archived and tested everywhere when that report began.

A page of the server is made in `req`, the request that is answered, one query after the other. `req.link` and `req.cut`
are history: whether the address was a link on the page before, and whether a result was cut short. In `ReportServer`
the variable `srv` is the process with its goroutines, `handler[r]` a request, `tplMap` the map of the templates, of which
one entry is enough; the queries are one step that may take for ever. The tables do not appear there, and the goroutines not in
`Statistics`: requests share no state but the templates.

In `TwoRuns` the memories are `run` and `second`. A write of a key file or of a target is more than a step there: while one
process is in `os.WriteFile` the other can read an empty key, and a target that both have open, or one that another stream was
written to since it was truncated, ends as a mixture (`MixedCopy`), while each process knows the digest of its own stream only.

In `Layout` a text is the sequence of the lengths of its words: `splitLine` and `linebreak` look at nothing else. The loops of the code
are recursive functions over such sequences, which take the last element off: `LinesOf` is `splitLine` up to the cut, `Kept` the lines it returns.
What the sphinx pages show are `DrawTableList`, a list of lists with one item a cell (`Data` at width 0), and, in the page of a file, `linebreak`. A table with
drawn columns (`DrawTable`, `ColWidth`, `RowHeight`, `splitLine` at the width of a column) is shown on no page: no template and no other code calls it.
`CellsFit` and `NothingIsLost` are about that part of the API only.

**Failures** are kinds a configuration switches on: `crash` (the process dies,
also inside `os.WriteFile`), `io` (opening, reading, copying a file fails), `dbread`
and `dbwrite` (a statement fails), `dbcut` (the server ends a result early, and
`rows.Err()` is not asked), `keyread` and `keywrite` (the key directory), `rot` (a zip
in the initial location changes), `decay` (a copy does), `query` (a query of the report server fails), `report` (a report is killed or cannot write one of its files).

**Abstractions to know of.**
- Walk visits the zips in any order (the code: lexical), the locations come in any order (the code: a Go map).
- `file` and `sftp` locations behave alike: both truncate, copy and fail with the same
  error row. Every other scheme is `Unsupported`. The initial location is a `file` url, the only scheme `Transfer` can read.
- The deep check accepts the zip as deposited and nothing else; its temporary
  folder and badger database can fail (`io`), and leave nothing the program reads again.
- A bagit is its base name. Zips in subfolders are modelled (`Nested`), two zips of the same
  base name are not.
- A half-written key or iv is unusable; the partial key that happens to be a valid shorter AES key is left out.
- Two runs overlap without any other failure, and only the tests of the locations in `Aging` grow old.
- Of a web page, the model keeps the bagits, the health, the files and the transfers; sizes, prices, dates are left out,
  of the metadata of a file all but whether it can be read back (`Misshapen`), and so is the list of tests, which nothing else on the page depends on.
- `quality` and the bound 1.0 of a healthy bagit are counted in halves, so that two locations are needed for health and one is not enough.
- MySQL returns `LIMIT` pages in the order of the primary key.
- A crash is one of the process: what was written stays.
- Of a report, the model keeps the keys, the test result counted for each location, the transfers and the number of
  files on a page; of all tests a page lists, the latest. `ReportIndex` asks the same questions as `ReportBagits`, survives
  the same failures and its template prints none of the answers, so its callback is one step.
  Prices, dates, the metadata of a file and the templates are left out.

## 3. What is checked

Every configuration lists its constants. `MaxFaults` bounds how many failures one
behaviour has, `MaxReports` how many reports are begun, `MaxEdits` how often a template is edited, `MaxRows` the rows of a table.
`reports` has a CONSTRAINT, `HasContents`: its report begins when a bagit is settled (before that only the second half of
`PagesTellArchive` asks anything of it), and no test is repeated for its age. Nothing else is bounded: the state space is finite.

| run | instance | faults | shows |
|---|---|---|---|
| `core` | 1 zip, 1 plain and 2 encrypted locations | 2 of crash, io, dbwrite, keywrite, decay | `TypeOK`, `KeyArchived`, `OkMeansWritten`, `PassedMeansArchived`, `ArchivedIsFinal`, and the refinement `Preserves` |
| `vaults` | 2 zips on one page, 2 encrypted locations | 2 of crash, io | `OkMeansRecorded`: the digest recorded from the first ciphertext is that of every copy with an `ok` row, though pages hold copies of the bagit rows and runs die between the UPDATE and the row; `CheckedIsTransferred` |
| `progress` | 2 zips, pages of one | 1 of io, dbread, dbcut | `EventuallyArchived`, `IngestedIsComplete` |
| `decay` | 1 zip, 1 plain and 1 encrypted location | 3 of rot, decay, io, dbread | `DamageIsReported`: a copy that is not the recorded one, because it decayed or because a row could not be read and a decayed zip was written over it, is reported or made good; `ArchivedAsRecorded`: no copy gets its `ok` row for bytes with another digest than the recorded one |
| `overlap` | 1 zip, 1 encrypted location, 2 runs at a time | none | `EnteredOnce`: the unique key ends the slower of two walks before it adds anything; `HarmIsReported`: what two runs do to an archived copy is made good or fails a test |
| `reports` | 2 zips, 2 keys and 2 ivs, pages of one, one report at any moment | 1 of report, crash | `KeysTxtDecrypts`, `TableIsComplete`, `PagesTellArchive`: what was archived when the report began is in every file it finishes, while runs insert, encrypt, copy and test between any two of its queries |
| `web` | 2 zips, one in a subfolder and with metadata that cannot be read back, a location with an unknown scheme, any sequence of pages | 2 of dbcut, query | `PassedMeansArchived` where the transfer cannot succeed and short results let a run reach its check phase anyway; `HealthIsBacked`, `LinksLead` |
| `server` | 2 connections, 2 edits, both values of `-dev` | start, listen, parse | `EndsOnDemand`, `AloneIsFresh`, `SignalEnds` |
| `layout` | 2 columns, one of them `Unsplit`, 2 rows of 10 texts, page width 12; numbers of 1 to 7 digits, groups of 0 to 4 | | `CellsFit`, `NothingIsLost`, `ListIsUniform`, `BrokenLinesFit`, `NumbersAreGrouped` |

Two faults are the interesting number: the first leaves something behind, the
second strikes while the next run deals with it; in `decay` a third can hide what they did from a test. Two encrypted locations are needed
for the shared digest (the first sets it, the second compares), two keys for a key that
is replaced, two zips and both page sizes for the border of a page, two processes for every race of section 1, two rows for
a column that is measured by one row and drawn for another, seven digits for groups that are full and groups that are not.
The texts of `layout` are those on both sides of every comparison of `splitLine` and `linebreak` at a width of 6:
empty, fitting, one too long, with a long word first and last, with blanks in a row.
`Bagits`, `Keys`, `IVs` and the vaults are symmetric in the runs without temporal properties that name
them one by one.

**Fairness** (`FairSpec`): cron starts a run after the last has ended
(`WF(StartRun)`), a started process goes on until it ends or dies (`WF(Step)`: it has
no locks and no waiting of its own), an upload that has begun is finished, and time
passes (`WF(Expire)`). Nothing is assumed of failures but that they are finitely many. No strong
fairness is needed: the locations a run has not reached are reached by the next.
Of two runs (`TwoFairSpec`) each is started again and goes on by itself, as separate processes are. Of the server
(`FairSpec` of `ReportServer`) the goroutines of the process are scheduled; visitors need not come, and a query need
not be answered, which is what `SignalEnds` is about.

**Known disagreements**, each a run that TLC must refute, with a `finding` in
`PROJECT.json` that quotes the code:

| run | property | what happens |
|---|---|---|
| `crash_in_ingest` | `IngestedIsComplete` | a crash after the first INSERT leaves a bagit that is "already ingested" but has no initial row; the next `Transfer` panics |
| `lost_key` | `PassedMeansDecryptable` | two runs find no key and both write one; the copy made with the first passes its tests and cannot be decrypted |
| `undrained` | `RequestsAreDrained` | `Shutdown` makes `ListenAndServe` return, and `log.Fatalf` ends the process while requests are answered |

Others of the kind have no run. A checksum mismatch is reported by wrapping a nil error, so it counts as a success and the
check phase begins without the copy (`ingestBagitLocation.go` 234, 239: `CheckedIsTransferred` fails when a zip rots in `vaults`). The ciphertext of
a zip that decayed after its ingest sets the recorded digest and passes for ever (228). Any read error of a key file counts as
"no key", and the key is overwritten (`ingestBagit.go` 57: `KeyArchived` fails with `keyread`). The first location without a test ends the loop over the
locations, and a failed test elsewhere is not in the table of a report (`ingestReport.go` 628). One bagit whose ciphertext digest is still NULL makes the whole
overview an error page (`statistics.go` 171), though the template expects empty digests (`overview.gohtml` 51). One content row whose metadata
does not fit the types of `Indexer` (an exif value is free, a clamav result that is no string is not) makes the page of its bagit and of all its files an error page (84: `Contents`). A bagit without content
rows is not on the overview (162), `Files` of a bagit page is never filled and so its number always 0, and `TplBagitEntry.Title` has no title for the column
`testsmessage`. A signal between the start of the two goroutines can meet a nil `http.Server` (`server.go` 206: `NoServerYet`). `OkMeansRecorded` fails as soon as `dbwrite` is switched on in `vaults`,
because the result of the UPDATE of the digest is dropped (`ingestBagitLocation.go` 231). `OkMeansWritten` fails as soon as `dbread` is
switched on in `core`: any error of `Exists` counts as "not there", and the archived copy is truncated (`ingest.go` 530).
A zip from a subfolder gets an `ok` row for the root of the initial location, where it is not (`ingest.go` 655). A report
panics at the first bagit that is not at every location yet (`ingestReport.go` 546).

## 4. What is proved

For every set of bagits, locations, keys and requests, every page size, and any number of
failures, from the assumptions in `Archive` (the initial location is a plain one that exists, sentinel
values are not keys or names, `PageSize > 0`), `Statistics` (table location is finite and its qualities are counted
in whole units), `ReportServer` and `Layout` (a table has a column, and at most as many as the page is wide, 100 in the code; a text is any
sequence of word lengths; a number has a digit). A hypothesis of a theorem names the failures that are
*not* switched on; all others may happen, any number of times and at any step.

| theorem | states | without |
|---|---|---|
| `TypeCorrect` | `Spec => []TypeOK` | |
| `KeyCorrect` | `Spec => []KeyArchived` | `keyread` |
| `WrittenCorrect` | `Spec => []OkMeansWritten` | `dbread` |
| `FinalCorrect` | `Spec => ArchivedIsFinal` | `dbread` |
| `IngestedCorrect` | `Spec => []IngestedIsComplete` | `crash`, `dbwrite` |
| `RecordedCorrect` | `Spec => []OkMeansRecorded` | `dbwrite`, `dbread`, `rot`, `decay`; no zip in a subfolder |
| `ComparedCorrect` | `Spec => ArchivedAsRecorded` | `dbwrite` |
| `CheckedCorrect` | `Spec => []CheckedIsTransferred` | `dbcut`, `rot`, `keyread`; more than the initial location |
| `PassedCorrect` | `Spec => []PassedMeansArchived` | `dbcut`, `dbread`; more than the initial location |
| `PreservationCorrect` | `Spec => Preserves`, the refinement of `Preservation` | `dbcut`, `dbread`, `rot`, `keyread` |
| `KeysTxtCorrect` | `SpecBoth => []KeysTxtDecrypts`, a report beside a run | `dbcut`, `keyread` |
| `TableCorrect` | `SpecBoth => []TableIsComplete` | `dbcut`, `dbread` |
| `PagesCorrect` | `SpecBoth => []PagesTellArchive` | `dbcut`, `dbread` |
| `EnteredCorrect` | `TwoSpec => []EnteredOnce`, two overlapping runs | `dbwrite` |
| `LinksCorrect` | `WebSpec => []LinksLead`, whose exceptions are a failing query and metadata that cannot be decoded | |
| `HealthCorrect` | `WebSpec => []HealthIsBacked`, for any qualities | `dbcut`, `dbread` |
| `EndCorrect`, `FreshCorrect` | `ReportServer`: `[]EndsOnDemand`, `[]AloneIsFresh` | |
| `CellsFitTheirColumns`, `NothingLostInTables`, `ListsAreUniform` | `Layout`: `[]CellsFit`, `[]NothingIsLost`, `[]ListIsUniform`, for any columns, texts, rows and page width | |
| `LinesBreakWell` | `Layout`: `[]BrokenLinesFit` | |
| `NumbersCorrect` | `Layout`: `[]NumbersAreGrouped`, for any number of digits and size of a group | |

**Why each hypothesis.** TLC refutes each property as soon as one of its hypotheses is dropped and the others stay, on one zip, at
most two encrypted locations and at most two failures. An error of `Exists` counts as "not there" (`dbread`), so an archived copy is truncated;
an unreadable key counts as "no key" (`keyread`) and is replaced; the dropped UPDATE of the digest (`dbwrite`) leaves a row without it, beside an `ok` row of the next statement, and a
dropped INSERT a bagit without content; a crash between the INSERTs of a bagit leaves it half entered; of a zip that decays (`rot`)
other bytes are sent than were recorded; a result that ends early (`dbcut`) hides bagits and locations, so the loop of the
transfers ends before all are made. A zip in a subfolder gets an `ok` row for a place where it is not. With the initial
location alone nothing is copied, and a crash in the walk leaves a bagit that the checks meet without its row. A report prints
nothing for a key file it cannot read (`keyread`), misses the bagits of a page that ends early (`dbcut`), and counts no tests after a query that
failed (`dbread`). `PagesCorrect` needs no second location: a page that lacks a transfer is not written, the report dies of it.
A page of the server calls healthy what it does not show as archived when a copy whose process died before its row is tested all the same, after a
result that ended early (`dbcut`, with `crash`), or when `Transfer` makes an error of a row it cannot read (`dbread`, with `io`). The run `web` has `dbcut`
without `crash` and passes.

**The inductive invariants**, none of which is the property alone:

- `TypeInv` (`ArchiveProofs`): `TypeOK` and `Holds`, which says at which points of the program a bagit and a location are
  in hand; without it `file[run.cur][run.loc]` has no type.
- `KeyInv`: the digest a run holds in memory, the one on a page and the one in the database, and every key and iv
  in hand, agree with the key directory, and a key file is missing while there is no ciphertext to lose. This is the reason
  that the order key, iv, target is safe under crashes between any two of them, also inside a write.
- `WrittenInv`: what is registered has a whole zip (the deep check), and the location in hand has no `ok` row: `Exists` is
  asked long before the target is truncated, and nothing in between may invalidate its answer. `ArchivedIsFinal` follows:
  outside of the initial location a step of the program changes only the row and the file in hand.
- `PageInv` (needs no hypothesis): no bagit has two rows, a page has each bagit once with the digest of the table, and the digest in
  hand is the one of the table unless its UPDATE has failed. Pages are copies that live across many transfers; this is why they do not go stale.
- `CompleteInv`: a bagit is completely entered or the process is about to do that, with so many content rows to go.
- `RecordedInv`: between the digest of a stream and its row the file in hand stays what was hashed.
- `Compared`: a stream that is verified has a digest, and one whose row comes next has the recorded digest; with `InHand` (in `PageInv`), by which the
  digest in hand is the one of the table, decay needs no exclusion. This is what is left of `OkMeansRecorded` when files decay and rows cannot be read.
- `NothingNewer` (no hypothesis): what decays is newer than any digest, in a table or in memory. So bytes that once differ from their digest never agree with it again.
- `StreamInv`: without `rot` and `keyread` every stream of a bagit to an encrypted location is the same ciphertext,
  and every other one is the zip. So the comparison of digests in `Transfer` never fails.
- `PagerInv`: the rows up to `start` are settled, on the page or in hand; the locations a bagit has behind it are done. So the
  check phase begins only when every bagit is everywhere.
- The end of `CheckProofs` maps each step of the code to `Enter`, `Write`, `Archive`, `Decay`, `Examine`, `Certify`, `Abandon` or a
  stutter, one lemma for each abstract step and one for each phase. `BytesAreValues` shows what makes it a refinement: what a
  copy is worth depends on its bytes alone, the keys it needs being always there.
- `ReportInv` (`ReportProofs`): a bagit that was settled when the report began is collected, on the page, in a row still ahead or in
  hand (`Placed`). Counting the rows once is enough, as rows are only added (`RowsGrow`). What the report reads of such a bagit no run changes
  any more: it has its row and all its content because it was tested (`TestedInv`), and its key files were written whole before its copies
  were made and are never opened for writing again (`KeptInv`, `KeysStay`), so a report does not meet a key that is being written.
- `TellInv`: a passed test a page shows has the `ok` row next to it, lacks the row and will end the report, or is about to get it. A test is read before
  its row, so that `PassedMeansArchived` and `OkStays` bridge the two queries.
- `EntryInv` (`TwoRunsProofs`): a bagit with a row is completely entered, or exactly one of the two processes is at it and the bagit
  is entered but for the content rows that process has left (`Own` is what a process keeps to by itself, `EntryInv` relates the two). The
  tables decide who enters a bagit: the second INSERT of the same name fails on the unique key, and that process ends. Each step of the walk
  is one of `Inserts`, `Initials`, `Adds`, `Finishes` or keeps `Apart`; this is proved for either instance of `OverlappingRun` and the rest is symmetric.
- `WebInv`: a bagit that is listed has its row, a digest and the row of a transfer, a linked file is among the content rows, and a request in
  progress has found so much of it as its next query relies on; `RowsAreKept`: no step of a run takes any of that back. A bagit has
  content rows only after the row of its initial location (`BackedInv`), so the order of the INSERTs in `Ingest` is what the costs query of a page rests on.
- `HealthInv`: the quality that was read is at most that of the completed transfers, as long as these are still to be asked for, and then
  that of the transfers on the page. `PassedMeansArchived` gives it when the tests are read, `OkStays` keeps it while a run goes on, and
  the order of the two queries does the rest. With the initial location alone `PassedMeansArchived` is not to be had; there the
  row that the queries before have found, which is never an error (`InitRowInv`), is worth all the quality there is. The sum of the qualities is the
  `Cardinality` of a set of units, for which monotony needs no induction (`TotalGrows`).
- `ServerProofs`: how far the shutdown has come says that a signal was sent; a request that was never joined by another is the
  only one in flight, so what it has stored in the map is what it fetches from it.
- `Formatting` (`LayoutProofs`): after `full` groups and `k` digits of the next, `j` is as far from the end of the result as those and their
  marks are long, and all behind it is written. So the loop ends at the place behind the sign, neither at the one before it nor with a mark in front,
  because the number of marks is counted with `digits - 1`.
- Of the tables the state is only that they hold rows of texts (`Table`); the rest is said of the functions. Lines cut from a text have its
  words (`SplitLineKeepsWords`, `LinebreakFits`), and a line is no longer than where it was cut unless it is one word (`LinesFit`). That is why a
  column fits what is drawn in it, although it was measured with lines cut elsewhere: a line that does not fit is one word, and one of the measured
  lines has this word too (`CellFits`).

The inductions over sequences in `LayoutProofs` do without the theorems of the library that take an operator: a property is the set of the sequences
that have it (`SeqInductionSet`), from the least member of a set of numbers (`NatLeast`), which the well-founded order of the naturals gives. That the recursive
functions of `Layout` meet their equations is proved as well, not assumed: `SeqRecursion` builds the function from its finite runs.

**Only model-checked**: liveness (`EventuallyArchived`, `DamageIsReported`, `HarmIsReported`, `SignalEnds`), where the prover has neither
fairness nor ENABLED; and `PassedMeansArchived` and `HealthIsBacked` with `dbcut`, as in `web`, where the theorems do not apply. No module uses RECURSIVE.

## 5. Not modelled

- The configuration files, ssh tunnels, loggers and the connection pool: read once, or without a state the properties tell apart; that a
  start can fail because of them is `StartRun` and `StartFails`.
- `transferStore`, `locationStore`, `testLoad`, `bagitContentStore`, `IngestBagitContent.Store`, `BagitExistsAt`, `getSums`: no caller, and partly not executable.
- `chunks` and `StructToMap`: pure functions over runes and reflected structs; the other formats of the templates likewise.
- Two zips of the same base name, `LIMIT` without an order, loss of power after an `ok` row: listed as hazards, each with its reason.

## 6. Plan

1. Done: the archive, the three phases, `IngestRun`, two overlapping runs, the abstract promise, the sphinx reports, the pages and
   the process of the report server, the layout, the runs above, the first theorems.
2. Done: every safety property of a run that passes has a theorem, and so has the refinement of `IngestRun`. Left to TLC is liveness.
