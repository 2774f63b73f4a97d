---------------------------- MODULE ReportProofs ----------------------------
(***************************************************************************)
(* What a finished report says of the bagits that were archived and tested *)
(* when it began: the loop over the pages reaches each of them, and what   *)
(* it reads of them no run changes any more.                               *)
(***************************************************************************)
EXTENDS ReportRun, CheckProofs

(***************************************************************************)
(* The archive.  A copy in an encrypted location has its key and iv, and a *)
(* bagit that was ever tested is entered completely.                       *)
(***************************************************************************)
KeyKept(b) == {keyFile[b], ivFile[b]} \cap {Missing, Torn} = {}
WithKeyPcs == {"create", "copy", "verify", "store"}

KeptInv ==
    /\ \A b \in Bagits, l \in Encrypted : transfer[b][l] = "ok" => KeyKept(b)
    /\ run.pc \in WithKeyPcs /\ run.loc \in Encrypted => KeyKept(run.cur)

TestedInv ==
    /\ \A b \in Bagits, l \in Locations : test[b][l] # None => Registered(b)
    /\ run.pc \in EnterPcs => \A l \in Locations : test[run.cur][l] = None

\* Rows are only added to table bagit, and a bagit that was tested stays as it is.
RowsGrow ==
    /\ Len(rows) <= Len(rows')
    /\ \A k \in 1 .. Len(rows) : rows'[k] = rows[k]
Steady ==
    \A b \in Bagits, l \in Locations :
        test[b][l] # None => test'[b][l] # None /\ content'[b] = content[b]

LEMMA RowsStay ==
    ASSUME RowsGrow, rows \in Seq(Bagits), rows' \in Seq(Bagits), NEW b, Registered(b)
    PROVE  Registered(b)'
<1>1. PICK k \in 1 .. Len(rows) : rows[k] = b
  BY DEF Registered
<1>2. Len(rows) \in Nat /\ Len(rows') \in Nat
  BY LenProperties
<1>3. k \in 1 .. Len(rows') /\ rows'[k] = b
  BY <1>1, <1>2 DEF RowsGrow
<1> QED BY <1>3 DEF Registered

\* Only AddContent adds content, and only to a bagit that the walk has in hand.
LEMMA IngestKeepsTested ==
    ASSUME TypeInv, TestedInv, IngestStep
    PROVE  TestedInv' /\ RowsGrow /\ Steady
<1>1. /\ rows \in Seq(Bagits) /\ Len(rows) \in Nat
      /\ content \in [Bagits -> Nat]
      /\ run.pc \in EnterPcs => run.cur \in Bagits
  BY LenProperties DEF TypeInv, TypeOK, TablesOK, Holds, AtBagit, EnterPcs
<1> USE DEF EnterPcs
\* A step that leaves the tables alone.
<1>2. ASSUME UNCHANGED <<rows, content, test>>,
             run'.pc \in EnterPcs => \A l \in Locations : test[run'.cur][l] = None
      PROVE  TestedInv' /\ RowsGrow /\ Steady
  BY <1>1, <1>2 DEF TestedInv, RowsGrow, Steady, Registered
<1>3. Ends => run'.pc \notin EnterPcs /\ UNCHANGED <<rows, content, test>>
  BY DEF Ends, Idle
<1>4. ASSUME run.pc \in EnterPcs, run'.cur = run.cur, UNCHANGED <<rows, content, test>>
      PROVE  TestedInv' /\ RowsGrow /\ Steady
  BY <1>2, <1>4 DEF TestedInv
<1>5. ASSUME NEW b \in Bagits, WalkZip(b) PROVE TestedInv' /\ RowsGrow /\ Steady
  <2>1. UNCHANGED <<rows, content, test>> /\ run.pc = "walk"
    BY <1>5, WalkZipFrame DEF db
  <2>2. ASSUME ~ Registered(b), run'.pc = "sum", run'.cur = b
        PROVE  \A l \in Locations : test[run'.cur][l] = None
    BY <2>2 DEF TestedInv
  <2> QED BY <1>2, <1>3, <1>5, <2>1, <2>2, WalkZipFrame
<1>6. CASE SumZip
  BY <1>2, <1>3, <1>4, <1>6, SumZipFrame DEF SameBagit, db
<1>7. CASE InsertBagit
  <2>1. ASSUME run.pc = "insert", run'.cur = run.cur, rows' = Append(rows, run.cur),
               UNCHANGED <<content, test>>
        PROVE  TestedInv' /\ RowsGrow /\ Steady
    <3>1. RowsGrow /\ rows' \in Seq(Bagits)
      BY <1>1, <2>1 DEF RowsGrow
    <3>2. \A b : Registered(b) => Registered(b)'
      BY <1>1, <3>1, RowsStay
    <3>3. TestedInv' /\ Steady
      BY <2>1, <3>2 DEF TestedInv, Steady
    <3> QED BY <3>1, <3>3
  <2> QED BY <1>2, <1>3, <1>7, <2>1, InsertBagitFrame DEF SameBagit
<1>8. CASE StoreInitLocation
  BY <1>2, <1>3, <1>4, <1>8, StoreInitFrame DEF SameBagit
<1>9. CASE AddContent
  <2>1. /\ run.pc = "content" /\ run'.pc = "content" /\ run'.cur = run.cur
        /\ UNCHANGED <<rows, test>>
        /\ content' = [content EXCEPT ![run.cur] = @ + 1] \/ UNCHANGED content
    BY <1>9, AddContentFrame DEF SameBagit
  <2>2. \A b \in Bagits : b # run.cur => content'[b] = content[b]
    BY <1>1, <2>1
  <2>3. TestedInv' /\ Steady
    BY <1>1, <2>1, <2>2 DEF TestedInv, Steady, Registered
  <2>4. RowsGrow
    BY <1>1, <2>1 DEF RowsGrow
  <2> QED BY <2>3, <2>4
<1>10. CASE ZipDone
  BY <1>2, <1>10, ZipDoneFrame DEF db
<1>11. CASE WalkDone
  BY <1>2, <1>11, EnterPhaseFrame DEF WalkDone, Begins, db
<1> QED BY <1>5, <1>6, <1>7, <1>8, <1>9, <1>10, <1>11 DEF IngestStep

LEMMA NextKeepsTested ==
    ASSUME TypeInv, WrittenInv, PageInv, TestedInv, [Next]_vars
    PROVE  TestedInv' /\ RowsGrow /\ Steady
<1>1. rows \in Seq(Bagits) /\ Len(rows) \in Nat
  BY LenProperties DEF TypeInv, TypeOK, TablesOK
<1>2. ASSUME UNCHANGED <<rows, content, test>>, run' = run \/ run'.pc \notin EnterPcs
      PROVE  TestedInv' /\ RowsGrow /\ Steady
  BY <1>1, <1>2 DEF TestedInv, RowsGrow, Steady, Registered
<1>3. CASE StartRun \/ PageStep \/ TransferStep \/ CheckStep
  <2>1. UNCHANGED <<rows, content>> /\ run'.pc \notin EnterPcs
    BY <1>3, EntersNothing
  <2>2. CASE UNCHANGED test
    BY <1>2, <2>1, <2>2
  <2>3. CASE run.pc = "result" /\ test' = [test EXCEPT ![run.cur][run.loc] = Verdict]
    <3>1. run.cur \in InRows
      BY <2>3 DEF PageInv, InHand, PagePcs, CheckPcs
    <3>2. \A b \in Bagits, l \in Locations :
             test'[b][l] = test[b][l] \/ (b = run.cur /\ test'[b][l] = Verdict)
      BY <2>3 DEF TypeInv, TypeOK, StatusOK
    <3>3. Verdict # None
      BY DEF Verdict, None
    <3>4. TestedInv' /\ Steady
      BY <2>1, <3>1, <3>2, <3>3 DEF TestedInv, Steady, Registered, InRows
    <3> QED BY <1>1, <2>1, <3>4 DEF RowsGrow
  <2> QED BY <1>3, <2>2, <2>3, OnlyResultsAreStored DEF Next, Step
<1>4. CASE Crash \/ Environment \/ UNCHANGED vars
  <2>1. UNCHANGED <<rows, content, test>> /\ (run' = run \/ run' = Idle)
    BY <1>4 DEF Crash, Fails, Exit, Environment, BeginUpload, EndUpload, Damage, Expire, vars, db
  <2> QED BY <1>2, <2>1 DEF Idle, EnterPcs
<1> QED BY <1>3, <1>4, IngestKeepsTested DEF Next, Step

\* A key and an iv that were once written are never replaced.
LEMMA KeysStay ==
    ASSUME "keyread" \notin FaultKinds, TypeInv, KeyInv, [Next]_vars, NEW b \in Bagits, KeyKept(b)
    PROVE  keyFile'[b] = keyFile[b] /\ ivFile'[b] = ivFile[b] /\ KeyKept(b)'
<1>1. SUFFICES keyFile'[b] = keyFile[b] /\ ivFile'[b] = ivFile[b]
  BY DEF KeyKept
<1>2. CASE SetKey
  <2>1. keyFile[run.cur] = Missing
    BY <1>2 DEF SetKey, KeyInv, KeyHeld
  <2>2. b # run.cur
    BY <2>1 DEF KeyKept
  <2>3. ivFile' = ivFile /\ (keyFile' = keyFile \/ \E k : keyFile' = [keyFile EXCEPT ![run.cur] = k])
    BY <1>2 DEF SetKey, WriteKey, TearKey, Fails, disk
  <2> QED BY <2>2, <2>3 DEF TypeInv, TypeOK, DiskOK
<1>3. CASE SetIV
  <2>1. ivFile[run.cur] = Missing
    BY <1>3 DEF SetIV, KeyInv, KeyHeld
  <2>2. b # run.cur
    BY <2>1 DEF KeyKept
  <2>3. keyFile' = keyFile /\ (ivFile' = ivFile \/ \E i : ivFile' = [ivFile EXCEPT ![run.cur] = i])
    BY <1>3 DEF SetIV, WriteIV, TearIV, Fails, disk
  <2> QED BY <2>2, <2>3 DEF TypeInv, TypeOK, DiskOK
<1>4. CASE UNCHANGED vars \/ StartRun \/ IngestStep \/ PageStep \/ CheckStep \/ Crash \/ Environment
  BY <1>4, StartFrame, IngestFrame, PageFrame, CheckFrame, FailsFrame
     DEF Crash, Environment, BeginUpload, EndUpload, Damage, Expire, vars, disk
<1>5. CASE LoadSource \/ TransferDone \/ \E l \in Locations : NextTarget(l)
  BY <1>5 DEF LoadSource, BeginBagit, TransferDone, EndBagit, NextTarget, SkipTarget, PickTarget,
              Goto, Fails, disk
<1>6. CASE OpenSource \/ GetKey \/ GetIV \/ NewCipher
  BY <1>6 DEF OpenSource, GetKey, GetIV, NewCipher, ErrorRow, Goto, Abort, Fails, disk
<1>7. CASE CreateTarget \/ CopyStream \/ VerifyStream \/ StoreOk
  BY <1>7 DEF CreateTarget, CopyStream, WriteTarget, VerifyStream, RecordDigest, CompareDigest,
              StoreOk, OkRow, ErrorRow, Goto, Abort, Fails, disk
<1> QED BY <1>2, <1>3, <1>4, <1>5, <1>6, <1>7 DEF Next, Step, TransferStep

LEMMA TransferKeepsKept ==
    ASSUME "keyread" \notin FaultKinds, TypeInv, KeyInv, KeptInv, TransferStep
    PROVE  KeptInv'
<1>1. \A b \in Bagits : KeyKept(b) => KeyKept(b)'
  BY KeysStay DEF Next, Step
<1>2. run.pc \in RowPcs => run.cur \in Bagits /\ run.loc \in Locations
  BY DEF TypeInv, Holds, AtLocation, RowPcs
<1> USE DEF WithKeyPcs, RowPcs
\* A step that makes no "ok" row.
<1>3. ASSUME \A b \in Bagits, l \in Locations : transfer'[b][l] = "ok" => transfer[b][l] = "ok",
             \/ run'.pc \notin WithKeyPcs
             \/ run.pc \in WithKeyPcs /\ run'.cur = run.cur /\ run'.loc = run.loc
             \/ run'.loc \notin Encrypted
      PROVE  KeptInv'
  BY <1>1, <1>2, <1>3, LocationsAssumption DEF KeptInv
<1>4. Ends => KeptInv'
  <2>1. Ends => run'.pc = "idle"
    BY DEF Ends, Idle
  <2> QED BY <1>3, <2>1 DEF Ends
<1>5. CASE LoadSource \/ TransferDone
  BY <1>3, <1>4, <1>5, LoadSourceFrame, EndBagitFrame DEF TransferDone, db
<1>6. ASSUME NEW l \in Locations, NextTarget(l) PROVE KeptInv'
  BY <1>3, <1>6, NextTargetFrame DEF db
<1>7. CASE OpenSource
  BY <1>3, <1>4, <1>7, OpenSourceFrame DEF SameLocation, db
<1>8. CASE GetKey \/ SetKey \/ GetIV \/ SetIV
  <2> USE DEF TypeInv, TypeOK, RunState
  <2>1. run.pc \in {"getkey", "setkey", "getiv", "setiv"}
    BY <1>8 DEF GetKey, SetKey, GetIV, SetIV
  <2>2. Exit => run'.pc = "idle"
    BY DEF Exit, Idle
  <2>3. GetKey \/ GetIV => run'.pc \in {"setkey", "getiv", "setiv", "cipher"}
    BY DEF GetKey, GetIV, Goto
  <2>4. SetKey \/ SetIV => run'.pc \in {"idle", "getiv", "cipher"}
    BY <2>2 DEF SetKey, WriteKey, TearKey, SetIV, WriteIV, TearIV, Fails
  <2> QED BY <1>3, <1>4, <1>8, <2>1, <2>3, <2>4, KeyStepFrame DEF SameLocation, db
<1>9. CASE NewCipher
  <2>1. CASE Ends
    BY <1>4, <2>1
  <2>2. CASE Goto([run EXCEPT !.pc = "create"]) /\ run.key # Torn /\ run.iv # Torn
    <3>1. /\ run.pc = "cipher" /\ run'.cur = run.cur /\ run'.loc = run.loc
          /\ UNCHANGED <<keyFile, ivFile, transfer>>
      BY <1>9, <2>2 DEF NewCipher, Goto, TypeInv, TypeOK, RunState, disk, db
    <3>2. KeyKept(run.cur)
      BY <2>2, <3>1 DEF KeyInv, KeyHeld, KeyKept
    <3> QED BY <3>1, <3>2 DEF KeptInv, KeyKept
  <2>3. run.pc = "cipher"
    BY <1>9 DEF NewCipher
  <2> QED BY <1>9, <2>1, <2>2, <2>3, EndsOf DEF NewCipher
<1>10. CASE CreateTarget \/ CopyStream
  BY <1>3, <1>4, <1>10, CreateTargetFrame, CopyStreamFrame DEF SameLocation, SameBagit, db
<1>11. CASE VerifyStream
  BY <1>3, <1>11, VerifyStreamFrame DEF SameBagit
<1>12. CASE StoreOk
  <2>1. ASSUME run.pc = "store", run'.pc = "target",
               transfer' = [transfer EXCEPT ![run.cur][run.loc] = "ok"]
        PROVE  KeptInv'
    <3>1. \A b \in Bagits, l \in Locations :
             transfer'[b][l] = "ok" => transfer[b][l] = "ok" \/ (b = run.cur /\ l = run.loc)
      BY <1>2, <2>1 DEF TypeInv, TypeOK, StatusOK
    <3> QED BY <1>1, <1>2, <2>1, <3>1, LocationsAssumption DEF KeptInv
  <2> QED BY <1>4, <1>12, <2>1, StoreOkFrame
<1> QED BY <1>5, <1>6, <1>7, <1>8, <1>9, <1>10, <1>11, <1>12 DEF TransferStep

LEMMA NextKeepsKept ==
    ASSUME "keyread" \notin FaultKinds, TypeInv, KeyInv, KeptInv, [Next]_vars
    PROVE  KeptInv'
<1>1. \A b \in Bagits : KeyKept(b) => KeyKept(b)'
  BY KeysStay
<1>2. run.pc \in RowPcs => run.cur \in Bagits
  BY DEF TypeInv, Holds, AtLocation, RowPcs
<1>3. ASSUME UNCHANGED transfer, run' = run \/ run'.pc \notin WithKeyPcs
      PROVE  KeptInv'
  BY <1>1, <1>2, <1>3, LocationsAssumption DEF KeptInv, WithKeyPcs, RowPcs
<1>4. CASE UNCHANGED vars \/ StartRun \/ PageStep \/ CheckStep \/ Crash \/ Environment
  BY <1>3, <1>4, StartFrame, PageFrame, CheckFrame, FailsFrame
     DEF Crash, Environment, BeginUpload, EndUpload, Damage, Expire, vars, db, WithKeyPcs
<1>5. CASE IngestStep
  <2>1. run'.pc \notin WithKeyPcs /\ run.pc \notin RowPcs
    BY <1>5, IngestFrame
       DEF IngestStep, WalkZip, SumZip, InsertBagit, StoreInitLocation, AddContent, ZipDone, WalkDone,
           WithKeyPcs, RowPcs
  <2>2. \A b \in Bagits, l \in Encrypted : transfer'[b][l] = transfer[b][l]
    BY <1>5, <2>1, IngestOnlyInHand, LocationsAssumption DEF OnlyInHand
  <2> QED BY <1>1, <2>1, <2>2 DEF KeptInv
<1> QED BY <1>4, <1>5, TransferKeepsKept DEF Next, Step

LEMMA InitFacts == Init => TestedInv /\ KeptInv
BY LocationsAssumption DEF Init, Idle, TestedInv, KeptInv, EnterPcs, WithKeyPcs, None

(***************************************************************************)
(* The report: the settled bagits, those of them a phase has collected,    *)
(* and where the others are.                                               *)
(***************************************************************************)
KeysReadable == "keyread" \notin FaultKinds /\ Encrypted # {}

SinceInv ==
    \A b \in since.settled :
        /\ b \in Bagits /\ Registered(b)
        /\ \A l \in Locations : test[b][l] # None
        /\ KeysReadable => KeyKept(b)

HasKeys(files, b) ==
    KeysReadable => b \in DOMAIN files /\ files[b] = [key |-> keyFile[b], iv |-> ivFile[b]]
LocsOf(tests) == {t.loc : t \in tests}
HasTests(files, b) ==
    "dbread" \notin FaultKinds => b \in DOMAIN files /\ LocsOf(files[b]) = Locations
HasFiles(files, b) == b \in DOMAIN files /\ files[b].files = content[b]

Collected(b) ==
    /\ job.phase = "keys" => HasKeys(draft, b)
    /\ job.phase = "bagits" => HasTests(draft, b)
    /\ job.phase = "pages" => HasFiles(out.pages, b)

OfPagePcs == {"contents", "page", "transfer"}
HandPcs == {"key", "last"} \cup OfPagePcs
LoopPcs == {"load", "next"} \cup HandPcs

Waiting == {job.page[i].name : i \in 1 .. Len(job.page)}
Ahead == {rows[k] : k \in {i \in 1 .. Len(rows) : job.start < i /\ i <= job.n}}

\* No settled bagit is behind the loop without being collected.
Placed(b) == Collected(b) \/ b \in Waiting \cup Ahead \/ (job.pc \in HandPcs /\ b = job.cur)
LoopInv == job.pc \in LoopPcs => \A b \in since.settled : Placed(b)

JobInv ==
    /\ DOMAIN job = DOMAIN Idle
    /\ job.page \in Pages
    /\ job.start \in Nat /\ job.n \in Nat
    /\ job.pc \in {"sphinx", "count", "load"} => job.page = <<>>
    /\ job.pc \in HandPcs => job.cur \in Bagits
    /\ job.pc # "idle" => job.phase \in {"keys", "index", "bagits", "pages"} /\ job.known = Locations
    /\ job.pc \in {"sphinx", "key"} => job.phase = "keys"
    /\ job.pc = "last" => job.phase = "bagits"
    /\ job.pc \in OfPagePcs => job.phase = "pages"
    /\ job.pc \in {"last"} \cup OfPagePcs => job.locs \subseteq Locations
    /\ job.pc = "transfer" => job.loc \in Locations

\* What is collected of the bagit in hand.
HandInv ==
    /\ job.pc = "key" /\ KeysReadable /\ job.cur \in since.settled => job.iv = ivFile[job.cur]
    /\ job.pc = "last" => job.cur \in DOMAIN draft
    /\ job.pc = "last" /\ "dbread" \notin FaultKinds /\ job.cur \in since.settled =>
           LocsOf(draft[job.cur]) \cup job.locs = Locations
    /\ job.pc \in OfPagePcs => DOMAIN draft = DOMAIN BlankPage /\ draft.files \in Nat
    /\ job.pc = "contents" => draft.files = 0
    /\ job.pc \in {"page", "transfer"} /\ job.cur \in since.settled =>
           job.left = content[job.cur] /\ draft.files <= content[job.cur]

\* What the finished files hold, and that the one a phase writes is none of them.
DoneInv ==
    /\ "keys" \in out.done => \A b \in since.settled : HasKeys(out.keys, b)
    /\ "table" \in out.done => \A b \in since.settled : HasTests(out.table, b)
    /\ "pages" \in out.done => \A b \in since.settled : HasFiles(out.pages, b)
    /\ job.pc # "idle" => /\ job.phase = "keys" => out.done = {}
                          /\ job.phase \in {"index", "bagits"} => out.done \subseteq {"keys"}
                          /\ job.phase = "pages" => out.done \subseteq {"keys", "table"}
    /\ DOMAIN out = {"keys", "table", "pages", "done"}

ReportInv == SinceInv /\ LoopInv /\ JobInv /\ HandInv /\ DoneInv

\* A passed test that is on a page, or will be, has the ok row next to it.
Shown(page, l) == [loc |-> l, status |-> "passed"] \in page.tests
Backed(page, l) == [loc |-> l, status |-> "ok"] \in page.transfers
Lacking(page, l) == [loc |-> l, status |-> None] \in page.transfers

TellInv ==
    /\ \A b \in DOMAIN out.pages, l \in Locations : Shown(out.pages[b], l) => Backed(out.pages[b], l)
    /\ job.pc \in OfPagePcs =>
          \A l \in Locations : Shown(draft, l) =>
              /\ transfer[job.cur][l] = "ok" \/ l = InitLoc
              /\ Backed(draft, l) \/ Lacking(draft, l) \/ (job.pc = "transfer" /\ job.loc = l)

(***************************************************************************)
(* A run goes on while a report is made.                                   *)
(***************************************************************************)
LEMMA RunKeepsReport ==
    ASSUME ReportInv, RowsGrow, Steady, TypeInv, TypeInv', UNCHANGED reports,
           "keyread" \notin FaultKinds =>
               \A b \in Bagits : KeyKept(b) =>
                   keyFile'[b] = keyFile[b] /\ ivFile'[b] = ivFile[b] /\ KeyKept(b)'
    PROVE  ReportInv'
<1>1. rows \in Seq(Bagits) /\ rows' \in Seq(Bagits) /\ Len(rows) \in Nat /\ Len(rows') \in Nat
  BY LenProperties DEF TypeInv, TypeOK, TablesOK
<1>2. UNCHANGED <<job, draft, out, since>>
  BY DEF reports
<1>3. \A b \in since.settled :
         /\ b \in Bagits /\ content'[b] = content[b]
         /\ KeysReadable => keyFile'[b] = keyFile[b] /\ ivFile'[b] = ivFile[b] /\ KeyKept(b)'
  BY LocationsAssumption DEF ReportInv, SinceInv, Steady, KeysReadable
<1>4. SinceInv'
  <2>1. \A b \in since.settled : Registered(b)'
    BY <1>1, RowsStay DEF ReportInv, SinceInv
  <2> QED BY <1>2, <1>3, <2>1 DEF ReportInv, SinceInv, Steady, KeysReadable
<1>5. \A b \in since.settled : Collected(b) => Collected(b)'
  BY <1>2, <1>3 DEF Collected, HasKeys, HasTests, HasFiles
<1>6. Ahead \subseteq Ahead' /\ Waiting' = Waiting
  <2>1. \A k \in 1 .. Len(rows) : k \in 1 .. Len(rows') /\ rows'[k] = rows[k]
    BY <1>1 DEF RowsGrow
  <2> QED BY <1>2, <2>1 DEF Ahead, Waiting
<1>7. LoopInv'
  BY <1>2, <1>5, <1>6 DEF ReportInv, LoopInv, Placed
<1>8. JobInv'
  BY <1>2 DEF ReportInv, JobInv
<1>9. HandInv'
  BY <1>2, <1>3 DEF ReportInv, HandInv
<1>10. DoneInv'
  BY <1>2, <1>3 DEF ReportInv, DoneInv, HasKeys, HasTests, HasFiles
<1> QED BY <1>4, <1>7, <1>8, <1>9, <1>10 DEF ReportInv

(***************************************************************************)
(* A step of the report leaves the archive alone.                          *)
(***************************************************************************)
LEMMA ReportOnlyReads ==
    ASSUME ReportStep
    PROVE  OnlyReads
<1> USE DEF OnlyReads, Proceed, Die, DiesOf, Pager!Goto, Pager!Abort, Pager!Fails, Pager!Fault, Pager!NoFault,
            Pager!disk, Pager!db, Fault, NoFault
<1>1. CASE StartReport \/ OpenKeys \/ ReadIV \/ ReadKey \/ KeysDone \/ IndexBagit \/ IndexDone
  BY <1>1 DEF StartReport, OpenKeys, CreateSphinx, ReadIV, ReadKey, KeysDone, IndexBagit, IndexDone,
              Written, disk, db
<1>2. CASE ReportPage
  BY <1>2 DEF ReportPage, Pager!CountRows, Pager!ReadPage, Pager!CutPage, Pager!EndOfPage, disk, db
<1>3. CASE BeginTests \/ (\E l \in Locations : LastTest(l)) \/ TestsDone \/ TableDone
  BY <1>3 DEF BeginTests, LastTest, CountTest, NoTest, TestsDone, TableDone, Written, disk, db
<1>4. CASE BeginPage \/ CountContents \/ LoadContents \/ (\E l \in Locations : LoadTests(l))
           \/ LoadTransfer \/ Render \/ ReportDone \/ CrashReport
  BY <1>4 DEF BeginPage, CreateSphinx, CountContents, LoadContents, LoadTests, LoadTransfer, Render,
              ReportDone, CrashReport, Written, disk, db
<1> QED BY <1>1, <1>2, <1>3, <1>4 DEF ReportStep

(***************************************************************************)
(* The loop over the pages.                                                *)
(***************************************************************************)
\* What a step inside of a phase leaves as it is.
SamePhase ==
    /\ DOMAIN job' = DOMAIN job /\ job'.phase = job.phase /\ job'.known = job.known
    /\ UNCHANGED <<disk, db, since>>
SamePage ==
    /\ SamePhase
    /\ job'.start = job.start /\ job'.n = job.n /\ job'.page = job.page

LEMMA SinceStays ==
    ASSUME SinceInv, UNCHANGED <<disk, db, since>>
    PROVE  SinceInv'
BY DEF SinceInv, KeyKept, Registered, disk, db

\* The bagit in hand stays in hand.
LEMMA InsideKeepsLoop ==
    ASSUME LoopInv, SamePage, job'.cur = job.cur, job.pc \in HandPcs, job'.pc \in HandPcs,
           \A b \in since.settled : b # job.cur /\ Collected(b) => Collected(b)'
    PROVE  LoopInv'
<1>1. Waiting' = Waiting /\ Ahead' = Ahead
  BY DEF SamePage, SamePhase, Waiting, Ahead, db
<1>2. \A b \in since.settled : Placed(b)
  BY DEF LoopInv, LoopPcs
<1>3. \A b \in since.settled : Placed(b)'
  BY <1>1, <1>2 DEF Placed
<1> QED BY <1>3 DEF LoopInv, SamePage, SamePhase

\* The callback is entered for the next bagit of the page ...
LEMMA EnterKeepsLoop ==
    ASSUME LoopInv, SamePhase, job'.start = job.start, job'.n = job.n,
           job.page \in Pages, job.page # <<>>, job'.page = Tail(job.page),
           job.pc = "next",
           (job'.pc \in HandPcs /\ job'.cur = Head(job.page).name) \/ job.phase = "index",
           \A b \in since.settled : b # Head(job.page).name /\ Collected(b) => Collected(b)'
    PROVE  LoopInv' /\ job'.page \in Pages /\ Head(job.page).name \in Bagits
<1> DEFINE Items == [name : Bagits, aes : Content]
<1>1. job.page \in Seq(Items)
  BY DEF Pages
<1>2. Tail(job.page) \in Seq(Items) /\ Head(job.page) \in Items
  BY <1>1, SeqTail, TailItems
<1>3. Waiting \subseteq {Head(job.page).name} \cup Waiting'
  BY <1>1, TailItems DEF Waiting
<1>4. Ahead' = Ahead
  BY DEF SamePhase, Ahead, db
<1>5. \A b \in since.settled : Placed(b)
  BY DEF LoopInv, LoopPcs
<1>6. \A b \in since.settled : Placed(b)'
  <2>1. CASE job.phase = "index"
    <3>1. \A b \in since.settled : Collected(b)'
      BY <2>1 DEF SamePhase, Collected
    <3> QED BY <3>1 DEF Placed
  <2>2. CASE job'.pc \in HandPcs /\ job'.cur = Head(job.page).name
    BY <1>3, <1>4, <1>5, <2>2 DEF Placed, HandPcs, OfPagePcs
  <2> QED BY <2>1, <2>2
<1> QED BY <1>2, <1>6 DEF LoopInv, SamePhase, Pages

\* ... and returns.
LEMMA LeaveKeepsLoop ==
    ASSUME LoopInv, SamePage, job.pc \in HandPcs, job'.pc = "next",
           \A b \in since.settled : (b = job.cur \/ Collected(b)) => Collected(b)'
    PROVE  LoopInv'
<1>1. Waiting' = Waiting /\ Ahead' = Ahead
  BY DEF SamePage, SamePhase, Waiting, Ahead, db
<1>2. \A b \in since.settled : Placed(b)
  BY DEF LoopInv, LoopPcs
<1>3. \A b \in since.settled : Placed(b)'
  BY <1>1, <1>2 DEF Placed
<1> QED BY <1>3 DEF LoopInv, SamePage, SamePhase

\* A loop is over when there is no row and no page left.
LEMMA LoopEnds ==
    ASSUME ReportInv, job.pc = "load", job.start >= job.n, rows \in Seq(Bagits)
    PROVE  \A b \in since.settled : Collected(b)
<1>1. job.page = <<>> /\ job.start \in Nat /\ job.n \in Nat /\ Len(rows) \in Nat
  BY LenProperties DEF ReportInv, JobInv
<1>2. Waiting = {} /\ Ahead = {}
  BY <1>1 DEF Waiting, Ahead
<1> QED BY <1>2 DEF ReportInv, LoopInv, Placed, LoopPcs, HandPcs, OfPagePcs

\* The process ends, or a phase of it begins: nothing is on a page.
Fresh == DOMAIN job' = DOMAIN job /\ job'.page = <<>> /\ job'.start = 0 /\ job'.n = 0

LEMMA PhaseBegins ==
    ASSUME ReportInv, Fresh, UNCHANGED <<disk, db, since>>, DoneInv',
           \/ job'.pc = "idle"
           \/ /\ job'.pc = "count" /\ job'.phase \in {"keys", "index", "bagits", "pages"}
              /\ job'.known = Locations
    PROVE  ReportInv'
<1>1. <<>> \in Pages
  BY DEF Pages
<1>2. JobInv' /\ HandInv'
  BY <1>1 DEF Fresh, ReportInv, JobInv, HandInv, HandPcs, OfPagePcs
<1>3. LoopInv'
  BY DEF LoopInv, LoopPcs, HandPcs, OfPagePcs
<1> QED BY <1>2, <1>3, SinceStays DEF ReportInv

LEMMA DyingKeeps ==
    ASSUME ReportInv, job' = Idle, UNCHANGED <<disk, db, out, since>>
    PROVE  ReportInv'
<1>1. Fresh /\ job'.pc = "idle"
  BY DEF ReportInv, JobInv, Fresh, Idle
<1>2. DoneInv'
  BY <1>1 DEF ReportInv, DoneInv, HasKeys, HasTests, HasFiles, disk, db
<1> QED BY <1>1, <1>2, PhaseBegins

LEMMA PagerIdle == Pager!Idle = Idle
BY DEF Pager!Idle, Idle, Pager!None, None, Pager!Missing, Missing, Pager!NoDigest, NoDigest,
       Pager!Absent, Absent

\* Nothing is written in a step inside of a phase.
LEMMA FilesStay ==
    ASSUME ReportInv, SamePhase, job.pc # "idle", UNCHANGED out
    PROVE  DoneInv'
<1>1. UNCHANGED <<keyFile, ivFile, content, since>> /\ job'.phase = job.phase
  BY DEF SamePhase, disk, db
<1>2. DoneInv
  BY DEF ReportInv
<1> QED BY <1>1, <1>2 DEF DoneInv, HasKeys, HasTests, HasFiles

LEMMA ReadPageKeepsPlaced ==
    ASSUME ReportInv, TablesOK, SamePhase, UNCHANGED <<draft, out>>,
           job.pc = "load", job'.start = job.start + PageSize, job'.n = job.n,
           job'.page = Page(job.start)
    PROVE  job'.page \in Pages /\ \A b \in since.settled : Placed(b)'
<1>1. job.page = <<>> /\ job.start \in Nat /\ job.n \in Nat /\ Len(rows) \in Nat
  BY LenProperties DEF ReportInv, JobInv, TablesOK
<1>2. job'.page \in Pages
  <2>1. Page(job.start) \in Seq([name : InRows, aes : Content])
    BY <1>1, PageItems
  <2>2. Page(job.start) \in Seq([name : Bagits, aes : Content])
    BY <1>1, PageOf DEF TablesOK
  <2> QED BY <2>2 DEF Pages
<1>3. UNCHANGED <<rows, keyFile, ivFile, content>>
  BY DEF SamePhase, disk, db
<1>4. Waiting = {}
  BY <1>1 DEF Waiting
<1>5. \A b \in since.settled : Collected(b) => Collected(b)'
  BY <1>3 DEF SamePhase, Collected, HasKeys, HasTests, HasFiles
<1>6. Ahead \subseteq Waiting' \cup Ahead'
  <2>1. SUFFICES ASSUME NEW k \in 1 .. Len(rows), job.start < k, k <= job.n
                 PROVE  rows[k] \in Waiting' \cup Ahead'
    BY DEF Ahead
  <2>2. CASE k <= job.start + PageSize
    <3>1. PICK i \in 1 .. Len(Page(job.start)) : Page(job.start)[i].name = rows[k]
      BY <1>1, <2>1, <2>2, PageItems
    <3> QED BY <3>1 DEF Waiting
  <2>3. CASE ~ (k <= job.start + PageSize)
    <3>1. job'.start < k /\ k <= job'.n
      BY <1>1, <2>1, <2>3, BoundsAssumption
    <3> QED BY <1>3, <3>1 DEF Ahead
  <2> QED BY <2>2, <2>3
<1>7. \A b \in since.settled : Collected(b) \/ b \in Ahead
  BY <1>4 DEF ReportInv, LoopInv, Placed, LoopPcs, HandPcs, OfPagePcs
<1> QED BY <1>2, <1>5, <1>6, <1>7 DEF Placed

LEMMA PagingKeeps ==
    ASSUME "dbcut" \notin FaultKinds, TypeInv, ReportInv, ReportPage
    PROVE  ReportInv'
<1>1. /\ UNCHANGED <<disk, db, out, since>> /\ DOMAIN job = DOMAIN Idle
      /\ job.start \in Nat /\ job.n \in Nat /\ job.page \in Pages
      /\ rows \in Seq(Bagits) /\ Len(rows) \in Nat /\ TablesOK
      /\ job'.pc # "idle" => UNCHANGED draft
  BY ReportOnlyReads, LenProperties
     DEF OnlyReads, ReportPage, ReportStep, ReportInv, JobInv, TypeInv, TypeOK, TablesOK
<1> USE PagerIdle DEF Pager!Goto, Pager!Fails, Pager!Exit, Pager!Fault
\* The page that comes next is the process's own; nothing else changes.
<1>2. ASSUME SamePhase, job.pc # "idle", job'.pc \in {"load", "next"}, UNCHANGED draft,
             job'.page \in Pages, job'.start \in Nat, job'.n \in Nat,
             job'.pc = "load" => job'.page = <<>>, \A b \in since.settled : Placed(b)'
      PROVE  ReportInv'
  <2>1. JobInv' /\ HandInv'
    BY <1>2 DEF ReportInv, JobInv, HandInv, SamePhase, HandPcs, OfPagePcs
  <2>2. LoopInv'
    BY <1>2 DEF LoopInv, SamePhase
  <2>3. SinceInv'
    BY <1>1, SinceStays DEF ReportInv
  <2>4. DoneInv'
    BY <1>1, <1>2, FilesStay
  <2> QED BY <2>1, <2>2, <2>3, <2>4 DEF ReportInv
<1>3. CASE Pager!CountRows
  <2>1. CASE job' = [job EXCEPT !.pc = "load", !.n = Len(rows), !.start = 0]
    <3>1. /\ job.pc = "count" /\ job'.pc = "load" /\ job'.n = Len(rows) /\ job'.start = 0
          /\ SamePhase /\ job'.page = job.page
      BY <1>1, <1>3, <2>1 DEF Pager!CountRows, SamePhase
    <3>2. \A b \in since.settled : \E k \in 1 .. Len(rows) : rows[k] = b
      BY DEF ReportInv, SinceInv, Registered
    <3>3. \A b \in since.settled : b \in Ahead'
      BY <1>1, <3>1, <3>2 DEF Ahead, SamePhase, db
    <3> QED BY <1>1, <1>2, <3>1, <3>3 DEF Placed, ReportInv, JobInv
  <2>2. CASE job' = Idle
    BY <1>1, <2>2, DyingKeeps
  <2> QED BY <1>3, <2>1, <2>2 DEF Pager!CountRows
<1>4. CASE Pager!ReadPage
  <2>1. Pager!Page(job.start) = Page(job.start)
    BY DEF Pager!Page, Page, Pager!LastOfPage, LastOfPage
  <2>2. CASE job' = Pager!WithPage(Page(job.start))
    <3>1. /\ job.pc = "load" /\ job'.pc = "next" /\ job'.n = job.n
          /\ job'.start = job.start + PageSize /\ SamePhase /\ job'.page = Page(job.start)
      BY <1>1, <1>4, <2>2 DEF Pager!ReadPage, Pager!WithPage, SamePhase
    <3>2. UNCHANGED draft
      BY <1>1, <3>1
    <3> QED BY <1>1, <1>2, <3>1, <3>2, ReadPageKeepsPlaced, BoundsAssumption
  <2>3. CASE job' = Idle
    BY <1>1, <2>3, DyingKeeps
  <2> QED BY <1>4, <2>1, <2>2, <2>3 DEF Pager!ReadPage, Pager!CutPage
<1>5. CASE Pager!EndOfPage
  <2>1. /\ job.pc = "next" /\ job.page = <<>> /\ job'.pc = "load" /\ SamePage
    BY <1>1, <1>5 DEF Pager!EndOfPage, SamePage, SamePhase
  <2>2. UNCHANGED draft
    BY <1>1, <2>1
  <2>3. \A b \in since.settled : Placed(b)'
    <3>1. Waiting' = Waiting /\ Ahead' = Ahead
      BY <2>1 DEF SamePage, SamePhase, Waiting, Ahead, db
    <3>2. \A b \in since.settled : Collected(b) => Collected(b)'
      BY <1>1, <2>1, <2>2 DEF SamePage, SamePhase, Collected, HasKeys, HasTests, HasFiles, disk, db
    <3> QED BY <2>1, <3>1, <3>2 DEF ReportInv, LoopInv, Placed, LoopPcs, HandPcs, OfPagePcs
  <2> QED BY <1>1, <1>2, <2>1, <2>2, <2>3 DEF SamePage, ReportInv, JobInv
<1> QED BY <1>3, <1>4, <1>5 DEF ReportPage

(***************************************************************************)
(* The parts of a report, step by step.                                    *)
(***************************************************************************)
LEMMA DiesKeep ==
    ASSUME ReportInv, Die \/ \E kind : DiesOf(kind)
    PROVE  ReportInv'
BY DyingKeeps, PagerIdle DEF Die, DiesOf, Pager!Abort, Pager!Fails, Pager!Exit, Pager!disk, Pager!db,
                             disk, db

\* A step inside of a phase that writes none of the files.
LEMMA StaysInside ==
    ASSUME ReportInv, SamePhase, job.pc # "idle", UNCHANGED out, LoopInv', JobInv', HandInv'
    PROVE  ReportInv'
BY FilesStay, SinceStays DEF ReportInv, SamePhase

LEMMA LoopBegins ==
    ASSUME NEW p
    PROVE  /\ DOMAIN NextLoop(p) = DOMAIN Idle
           /\ NextLoop(p).pc = "count" /\ NextLoop(p).phase = p /\ NextLoop(p).known = job.known
           /\ NextLoop(p).page = <<>> /\ NextLoop(p).start = 0 /\ NextLoop(p).n = 0
BY DEF NextLoop, Idle

LEMMA IdleJob == Idle.pc = "idle" /\ Idle.page = <<>> /\ Idle.start = 0 /\ Idle.n = 0
BY DEF Idle

\* A phase is over and has its file: what is in it is all that was settled.
LEMMA PhaseEnds ==
    ASSUME TypeInv, ReportInv, NEW phase, Written(phase), job' = Idle \/ \E p : job' = NextLoop(p)
    PROVE  /\ Fresh /\ UNCHANGED <<disk, db, since>> /\ job.phase = phase /\ job.pc = "load"
           /\ job'.pc = "count" => job'.known = Locations
           /\ \A b \in since.settled : Collected(b)
<1>1. /\ job.pc = "load" /\ job.start >= job.n /\ job.phase = phase
      /\ UNCHANGED <<disk, db, since>>
  BY DEF Written, Inside, Pager!PagesDone
<1>2. Fresh
  BY LoopBegins, IdleJob DEF Fresh, ReportInv, JobInv
<1>3. job'.pc = "count" => job'.known = Locations
  BY <1>1, LoopBegins, IdleJob DEF ReportInv, JobInv
<1> QED BY <1>1, <1>2, <1>3, LoopEnds DEF TypeInv, TypeOK, TablesOK

LEMMA StartKeeps ==
    ASSUME "dbcut" \notin FaultKinds, TypeInv, TestedInv, KeysReadable => KeptInv, ReportInv,
           StartReport
    PROVE  ReportInv'
<1>1. PICK checksum : BeginReport(Locations, checksum)
  BY DEF StartReport, Fault
<1>2. /\ job' = [Idle EXCEPT !.pc = "sphinx", !.phase = "keys", !.known = Locations,
                              !.checksum = checksum]
      /\ out' = [out EXCEPT !.done = {}]
  BY <1>1 DEF BeginReport
<1>3. since'.settled = Settled
  BY <1>1 DEF BeginReport
<1>4. UNCHANGED <<disk, db>>
  BY DEF StartReport
<1>5. /\ job'.pc = "sphinx" /\ job'.phase = "keys" /\ job'.known = Locations
      /\ DOMAIN job' = DOMAIN Idle /\ job'.page = <<>> /\ job'.start = 0 /\ job'.n = 0
  BY <1>2 DEF Idle
<1>6. SinceInv'
  <2>1. \A b \in Settled :
           /\ b \in Bagits /\ Registered(b)
           /\ \A l \in Locations : test[b][l] # None
           /\ KeysReadable => KeyKept(b)
    BY LocationsAssumption DEF Settled, TestedInv, KeysReadable, KeptInv
  <2> QED BY <1>3, <1>4, <2>1 DEF SinceInv, Registered, KeyKept, disk, db
<1>7. JobInv'
  <2>1. <<>> \in Pages
    BY DEF Pages
  <2> QED BY <1>5, <2>1 DEF JobInv, HandPcs, OfPagePcs
<1>8. LoopInv' /\ HandInv'
  BY <1>5 DEF LoopInv, HandInv, LoopPcs, HandPcs, OfPagePcs
<1>9. DoneInv'
  BY <1>2, <1>5 DEF ReportInv, DoneInv
<1> QED BY <1>6, <1>7, <1>8, <1>9 DEF ReportInv

LEMMA OpenKeysKeeps == ASSUME ReportInv, OpenKeys PROVE ReportInv'
<1>1. /\ job.pc = "sphinx" /\ job' = [job EXCEPT !.pc = "count"]
      /\ out' = [out EXCEPT !.keys = Nothing] /\ UNCHANGED <<disk, db, draft, since>>
  BY DEF OpenKeys, CreateSphinx, Pager!Goto, Pager!disk, Pager!db, disk, db
<1>2. /\ job'.pc = "count" /\ DOMAIN job' = DOMAIN Idle /\ job'.phase = job.phase
      /\ job'.page = <<>> /\ job'.start = job.start /\ job'.n = job.n /\ job'.known = job.known
      /\ job.phase = "keys" /\ out.done = {}
  BY <1>1 DEF ReportInv, JobInv, DoneInv
<1>3. JobInv' /\ LoopInv' /\ HandInv'
  BY <1>1, <1>2 DEF ReportInv, JobInv, LoopInv, HandInv, LoopPcs, HandPcs, OfPagePcs
<1>4. DoneInv'
  BY <1>1, <1>2 DEF ReportInv, DoneInv
<1> QED BY <1>1, <1>3, <1>4, SinceStays DEF ReportInv

(***************************************************************************)
(* keys.txt                                                                *)
(***************************************************************************)
LEMMA PutKeeps ==
    ASSUME NEW files, NEW b, NEW value
    PROVE  /\ b \in DOMAIN Put(files, b, value) /\ Put(files, b, value)[b] = value
           /\ \A c \in DOMAIN files : /\ c \in DOMAIN Put(files, b, value)
                                      /\ c # b => Put(files, b, value)[c] = files[c]
BY DEF Put

LEMMA ReadIVKeeps ==
    ASSUME TypeInv, KeysReadable => KeyInv, ReportInv, ReadIV
    PROVE  ReportInv'
<1> DEFINE b == Head(job.page).name
<1>1. /\ job.pc = "next" /\ job.phase = "keys" /\ job.page # <<>> /\ job.page \in Pages
      /\ UNCHANGED <<disk, db, draft, out, since>>
      /\ \/ \E iv \in Read(ivFile, b, "setiv") : job' = [Enter("key") EXCEPT !.iv = iv]
         \/ "keyread" \in FaultKinds /\ job' = Enter("key")
  BY DEF ReadIV, InLoop, Pager!HasBagit, Proceed, Pager!Goto, Pager!disk, Pager!db, Fault,
         disk, db, ReportInv, JobInv
<1>2. /\ job'.pc = "key" /\ job'.cur = b /\ job'.page = Tail(job.page) /\ SamePhase
      /\ job'.start = job.start /\ job'.n = job.n
      /\ KeysReadable => job'.iv \in Read(ivFile, b, "setiv")
      /\ DOMAIN job' = DOMAIN Idle
  BY <1>1 DEF Enter, SamePhase, ReportInv, JobInv, KeysReadable, Idle
<1>3. \A c \in since.settled : Collected(c) => Collected(c)'
  BY <1>1, <1>2 DEF Collected, HasKeys, SamePhase, disk, db
<1>4. LoopInv' /\ job'.page \in Pages /\ b \in Bagits
  BY <1>1, <1>2, <1>3, EnterKeepsLoop DEF ReportInv, HandPcs, OfPagePcs
<1>5. JobInv'
  BY <1>1, <1>2, <1>4 DEF ReportInv, JobInv, SamePhase, HandPcs, OfPagePcs
<1>6. KeysReadable /\ b \in since.settled => job'.iv = ivFile[b]
  <2>1. KeysReadable /\ b \in since.settled => KeyKept(b)
    BY DEF ReportInv, SinceInv
  <2> QED BY <1>2, <2>1 DEF Read, KeyKept, KeyInv, KeyHeld
<1>7. HandInv'
  BY <1>1, <1>2, <1>6 DEF HandInv, OfPagePcs, disk
<1> QED BY <1>1, <1>2, <1>4, <1>5, <1>7, StaysInside

LEMMA ReadKeyKeeps ==
    ASSUME TypeInv, KeysReadable => KeyInv, ReportInv, ReadKey
    PROVE  ReportInv'
<1>1. /\ job.pc = "key" /\ job' = [Leave EXCEPT !.iv = Missing]
      /\ UNCHANGED <<disk, db, out, since>> /\ job.phase = "keys"
      /\ \E key : /\ draft' = Put(draft, job.cur, [key |-> key, iv |-> job.iv])
                  /\ KeysReadable => key \in Read(keyFile, job.cur, "setkey")
  BY DEF ReadKey, Fault, KeysReadable, ReportInv, JobInv
<1>2. /\ job'.pc = "next" /\ job'.phase = "keys" /\ SamePage /\ job'.page = job.page
      /\ job'.start = job.start /\ job'.n = job.n /\ DOMAIN job' = DOMAIN Idle
  BY <1>1 DEF Leave, SamePage, SamePhase, ReportInv, JobInv
<1>3. PICK key : /\ draft' = Put(draft, job.cur, [key |-> key, iv |-> job.iv])
                 /\ KeysReadable => key \in Read(keyFile, job.cur, "setkey")
  BY <1>1
<1>4. \A b \in since.settled : b = job.cur \/ Collected(b) => Collected(b)'
  <2>1. KeysReadable /\ job.cur \in since.settled =>
            key = keyFile[job.cur] /\ job.iv = ivFile[job.cur]
    <3>1. KeysReadable /\ job.cur \in since.settled => KeyKept(job.cur) /\ job.iv = ivFile[job.cur]
      BY <1>1 DEF ReportInv, SinceInv, HandInv
    <3> QED BY <1>3, <3>1 DEF Read, KeyKept, KeyInv, KeyHeld
  <2>2. \A b \in since.settled :
           b = job.cur \/ HasKeys(draft, b) => HasKeys(Put(draft, job.cur, [key |-> key, iv |-> job.iv]), b)
    BY <2>1, PutKeeps DEF HasKeys
  <2> QED BY <1>1, <1>2, <1>3, <2>2 DEF Collected, HasKeys, disk
<1>5. LoopInv'
  BY <1>1, <1>2, <1>4, LeaveKeepsLoop DEF ReportInv, HandPcs
<1>6. JobInv'
  BY <1>1, <1>2 DEF ReportInv, JobInv, SamePage, SamePhase, HandPcs, OfPagePcs
<1>7. HandInv'
  BY <1>2 DEF HandInv, OfPagePcs
<1> QED BY <1>1, <1>2, <1>5, <1>6, <1>7, StaysInside DEF SamePage

LEMMA KeysDoneKeeps == ASSUME TypeInv, ReportInv, KeysDone PROVE ReportInv'
<1>1. /\ out' = [out EXCEPT !.keys = draft, !.done = @ \cup {"keys"}]
      /\ job' = Idle \/ job' = NextLoop("index")
  BY DEF KeysDone
<1>2. /\ Fresh /\ UNCHANGED <<disk, db, since>> /\ job.phase = "keys" /\ job.pc = "load"
      /\ job'.pc = "count" => job'.known = Locations
      /\ \A b \in since.settled : HasKeys(draft, b)
  BY <1>1, PhaseEnds DEF KeysDone, Collected
<1>3. job'.pc = "idle" \/ (job'.pc = "count" /\ job'.phase = "index")
  BY <1>1, LoopBegins, IdleJob
<1>4. DoneInv'
  <2>1. out.done = {}
    BY <1>2 DEF ReportInv, DoneInv
  <2>2. out'.done = {"keys"} /\ out'.keys = draft /\ DOMAIN out' = DOMAIN out
    BY <1>1, <2>1 DEF ReportInv, DoneInv
  <2> QED BY <1>2, <1>3, <2>2 DEF ReportInv, DoneInv, HasKeys, disk
<1> QED BY <1>2, <1>3, <1>4, PhaseBegins

(***************************************************************************)
(* The index and the table.                                                *)
(***************************************************************************)
LEMMA IndexBagitKeeps == ASSUME ReportInv, IndexBagit PROVE ReportInv'
<1>1. /\ job.pc = "next" /\ job.phase = "index" /\ job.page # <<>> /\ job.page \in Pages
      /\ UNCHANGED <<disk, db, draft, out, since>> /\ job' = [job EXCEPT !.page = Tail(@)]
  BY DEF IndexBagit, InLoop, Pager!HasBagit, Proceed, Pager!Goto, Pager!disk, Pager!db,
         disk, db, ReportInv, JobInv
<1>2. /\ job'.pc = "next" /\ job'.phase = "index" /\ job'.page = Tail(job.page) /\ SamePhase
      /\ job'.start = job.start /\ job'.n = job.n /\ DOMAIN job' = DOMAIN Idle
  BY <1>1 DEF SamePhase, ReportInv, JobInv
<1>3. \A b \in since.settled : Collected(b) => Collected(b)'
  BY <1>1, <1>2 DEF Collected
<1>4. LoopInv' /\ job'.page \in Pages
  BY <1>1, <1>2, <1>3, EnterKeepsLoop DEF ReportInv
<1>5. JobInv'
  BY <1>1, <1>2, <1>4 DEF ReportInv, JobInv, SamePhase, HandPcs, OfPagePcs
<1>6. HandInv'
  BY <1>2 DEF HandInv, OfPagePcs
<1> QED BY <1>1, <1>2, <1>4, <1>5, <1>6, StaysInside

LEMMA IndexDoneKeeps == ASSUME TypeInv, ReportInv, IndexDone PROVE ReportInv'
<1>1. out' = [out EXCEPT !.table = Nothing] /\ job' = NextLoop("bagits")
  BY DEF IndexDone
<1>2. /\ Fresh /\ UNCHANGED <<disk, db, since>> /\ job.phase = "index" /\ job.pc = "load"
      /\ job'.pc = "count" /\ job'.known = Locations /\ job'.phase = "bagits"
  BY <1>1, PhaseEnds, LoopBegins DEF IndexDone
<1>3. DoneInv'
  <2>1. out.done \subseteq {"keys"}
    BY <1>2 DEF ReportInv, DoneInv
  <2>2. out'.done = out.done /\ out'.keys = out.keys /\ DOMAIN out' = DOMAIN out
    BY <1>1 DEF ReportInv, DoneInv
  <2> QED BY <1>2, <2>1, <2>2 DEF ReportInv, DoneInv, HasKeys, disk
<1> QED BY <1>2, <1>3, PhaseBegins

LEMMA BeginTestsKeeps == ASSUME ReportInv, BeginTests PROVE ReportInv'
<1> DEFINE b == Head(job.page).name
<1>1. /\ job.pc = "next" /\ job.phase = "bagits" /\ job.page # <<>> /\ job.page \in Pages
      /\ UNCHANGED <<disk, db, out, since>> /\ job' = Enter("last")
      /\ draft' = Put(draft, b, {})
  BY DEF BeginTests, InLoop, Pager!HasBagit, Proceed, Pager!Goto, Pager!disk, Pager!db,
         disk, db, ReportInv, JobInv
<1>2. /\ job'.pc = "last" /\ job'.cur = b /\ job'.page = Tail(job.page) /\ SamePhase
      /\ job'.start = job.start /\ job'.n = job.n /\ DOMAIN job' = DOMAIN Idle
      /\ job'.locs = Locations
  BY <1>1 DEF Enter, SamePhase, ReportInv, JobInv
<1>3. \A c \in since.settled : c # b /\ Collected(c) => Collected(c)'
  <2>1. \A c \in since.settled : c # b /\ HasTests(draft, c) => HasTests(draft', c)
    BY <1>1, PutKeeps DEF HasTests
  <2> QED BY <1>1, <1>2, <2>1 DEF Collected, HasTests, SamePhase
<1>4. LoopInv' /\ job'.page \in Pages /\ b \in Bagits
  BY <1>1, <1>2, <1>3, EnterKeepsLoop DEF ReportInv, HandPcs
<1>5. JobInv'
  BY <1>1, <1>2, <1>4 DEF ReportInv, JobInv, SamePhase, HandPcs, OfPagePcs
<1>6. HandInv'
  <2>1. b \in DOMAIN draft' /\ draft'[b] = {}
    BY <1>1, PutKeeps
  <2>2. LocsOf(draft'[b]) = {}
    BY <2>1 DEF LocsOf
  <2> QED BY <1>2, <2>1, <2>2 DEF HandInv, OfPagePcs
<1> QED BY <1>1, <1>2, <1>4, <1>5, <1>6, StaysInside

\* A location is counted, or the loop over the locations ends: for a settled
\* bagit only because the query has failed.
LEMMA LastTestKeeps ==
    ASSUME ReportInv, NEW l \in Locations, LastTest(l)
    PROVE  ReportInv'
<1>1. /\ job.pc = "last" /\ job.phase = "bagits" /\ l \in job.locs /\ job.locs \subseteq Locations
      /\ job.cur \in DOMAIN draft /\ UNCHANGED <<disk, db, out, since>>
  BY DEF LastTest, CountTest, NoTest, Proceed, Pager!Goto, Pager!disk, Pager!db, disk, db,
         ReportInv, JobInv, HandInv
<1>2. ASSUME \E locs \in SUBSET Locations : job' = [job EXCEPT !.locs = locs],
             DOMAIN draft' = DOMAIN draft,
             \A b \in DOMAIN draft : b # job.cur => draft'[b] = draft[b],
             "dbread" \notin FaultKinds /\ job.cur \in since.settled =>
                 LocsOf(draft'[job.cur]) \cup job'.locs = Locations
      PROVE  ReportInv'
  <2>1. /\ job'.pc = "last" /\ job'.cur = job.cur /\ SamePage /\ job'.page = job.page
        /\ job'.start = job.start /\ job'.n = job.n /\ DOMAIN job' = DOMAIN Idle
        /\ job'.locs \subseteq Locations
    BY <1>1, <1>2 DEF SamePage, SamePhase, ReportInv, JobInv
  <2>2. \A b \in since.settled : b # job.cur /\ Collected(b) => Collected(b)'
    BY <1>1, <1>2, <2>1 DEF Collected, HasTests, SamePage, SamePhase
  <2>3. LoopInv'
    BY <1>1, <2>1, <2>2, InsideKeepsLoop DEF ReportInv, HandPcs
  <2>4. JobInv'
    BY <1>1, <2>1 DEF ReportInv, JobInv, SamePage, SamePhase, HandPcs, OfPagePcs
  <2>5. HandInv'
    BY <1>1, <1>2, <2>1 DEF HandInv, OfPagePcs
  <2> QED BY <1>1, <2>1, <2>3, <2>4, <2>5, StaysInside DEF SamePage
<1>3. CASE CountTest(l)
  <2>1. /\ job' = [job EXCEPT !.locs = @ \ {l}]
        /\ draft' = [draft EXCEPT ![job.cur] = @ \cup {[loc |-> l, status |-> test[job.cur][l]]}]
    BY <1>3 DEF CountTest, Proceed, Pager!Goto
  <2>2. /\ draft'[job.cur] = draft[job.cur] \cup {[loc |-> l, status |-> test[job.cur][l]]}
        /\ DOMAIN draft' = DOMAIN draft
        /\ \A b \in DOMAIN draft : b # job.cur => draft'[b] = draft[b]
    BY <1>1, <2>1
  <2>3. LocsOf(draft'[job.cur]) = LocsOf(draft[job.cur]) \cup {l}
    <3> DEFINE t == [loc |-> l, status |-> test[job.cur][l]]
    <3>1. draft'[job.cur] = draft[job.cur] \cup {t} /\ t.loc = l
      BY <2>2
    <3> HIDE DEF t
    <3> QED BY <3>1 DEF LocsOf
  <2>4. job' = [job EXCEPT !.locs = job.locs \ {l}] /\ job'.locs = job.locs \ {l}
    BY <2>1 DEF ReportInv, JobInv, Idle
  <2>5. "dbread" \notin FaultKinds /\ job.cur \in since.settled =>
            LocsOf(draft[job.cur]) \cup job.locs = Locations
    BY <1>1 DEF ReportInv, HandInv
  <2> QED BY <1>1, <1>2, <2>2, <2>3, <2>4, <2>5
<1>4. CASE NoTest(l)
  <2>1. /\ job' = [job EXCEPT !.locs = {}] /\ draft' = draft
        /\ test[job.cur][l] = None \/ "dbread" \in FaultKinds
    BY <1>4 DEF NoTest, Fault
  <2>2. job.cur \in since.settled => test[job.cur][l] # None
    BY DEF ReportInv, SinceInv
  <2> QED BY <1>2, <2>1, <2>2
<1> QED BY <1>3, <1>4 DEF LastTest

LEMMA TestsDoneKeeps == ASSUME ReportInv, TestsDone PROVE ReportInv'
<1>1. /\ job.pc = "last" /\ job.phase = "bagits" /\ job.locs = {} /\ job' = Leave
      /\ UNCHANGED <<disk, db, draft, out, since>>
  BY DEF TestsDone, Proceed, Pager!Goto, Pager!disk, Pager!db, disk, db, ReportInv, JobInv
<1>2. /\ job'.pc = "next" /\ job'.phase = "bagits" /\ SamePage /\ job'.page = job.page
      /\ job'.start = job.start /\ job'.n = job.n /\ DOMAIN job' = DOMAIN Idle
  BY <1>1 DEF Leave, SamePage, SamePhase, ReportInv, JobInv
<1>3. \A b \in since.settled : b = job.cur \/ Collected(b) => Collected(b)'
  BY <1>1, <1>2 DEF Collected, HasTests, ReportInv, HandInv
<1>4. LoopInv'
  BY <1>1, <1>2, <1>3, LeaveKeepsLoop DEF ReportInv, HandPcs
<1>5. JobInv'
  BY <1>1, <1>2 DEF ReportInv, JobInv, SamePage, SamePhase, HandPcs, OfPagePcs
<1>6. HandInv'
  BY <1>2 DEF HandInv, OfPagePcs
<1> QED BY <1>1, <1>2, <1>4, <1>5, <1>6, StaysInside DEF SamePage

LEMMA TableDoneKeeps == ASSUME TypeInv, ReportInv, TableDone PROVE ReportInv'
<1>1. /\ out' = [out EXCEPT !.table = draft, !.done = @ \cup {"table"}]
      /\ job' = NextLoop("pages")
  BY DEF TableDone
<1>2. /\ Fresh /\ UNCHANGED <<disk, db, since>> /\ job.phase = "bagits" /\ job.pc = "load"
      /\ job'.pc = "count" /\ job'.known = Locations /\ job'.phase = "pages"
      /\ \A b \in since.settled : HasTests(draft, b)
  BY <1>1, PhaseEnds, LoopBegins DEF TableDone, Collected
<1>3. DoneInv'
  <2>1. out.done \subseteq {"keys"}
    BY <1>2 DEF ReportInv, DoneInv
  <2>2. /\ out'.done = out.done \cup {"table"} /\ out'.keys = out.keys /\ out'.table = draft
        /\ DOMAIN out' = DOMAIN out
    BY <1>1 DEF ReportInv, DoneInv
  <2> QED BY <1>2, <2>1, <2>2 DEF ReportInv, DoneInv, HasKeys, HasTests, disk
<1> QED BY <1>2, <1>3, PhaseBegins

(***************************************************************************)
(* The pages.                                                              *)
(***************************************************************************)
LEMMA BeginPageKeeps == ASSUME ReportInv, BeginPage PROVE ReportInv'
<1> DEFINE b == Head(job.page).name
<1>1. /\ job.pc = "next" /\ job.phase = "pages" /\ job.page # <<>> /\ job.page \in Pages
      /\ UNCHANGED <<disk, db, since>> /\ job' = Enter("contents")
      /\ draft' = BlankPage
  BY DEF BeginPage, CreateSphinx, InLoop, Pager!HasBagit, Pager!Goto, Pager!disk, Pager!db,
         disk, db, ReportInv, JobInv
<1>2. /\ job'.pc = "contents" /\ job'.cur = b /\ job'.page = Tail(job.page) /\ SamePhase
      /\ job'.start = job.start /\ job'.n = job.n /\ DOMAIN job' = DOMAIN Idle
      /\ job'.locs = Locations /\ job'.phase = "pages"
  BY <1>1 DEF Enter, SamePhase, ReportInv, JobInv
<1>3. /\ out.done \subseteq {"keys", "table"} /\ DOMAIN out = {"keys", "table", "pages", "done"}
      /\ out' = [out EXCEPT !.pages = Truncate(@, b)]
  BY <1>1 DEF ReportInv, DoneInv, BeginPage
<1>4. /\ out'.pages = Truncate(out.pages, b) /\ out'.done = out.done /\ DOMAIN out' = DOMAIN out
      /\ out'.keys = out.keys /\ out'.table = out.table
  BY <1>3
<1>5. \A c \in since.settled : c # b /\ Collected(c) => Collected(c)'
  <2>1. \A c \in since.settled : c # b /\ HasFiles(out.pages, c) => HasFiles(Truncate(out.pages, b), c)
    BY DEF HasFiles, Truncate
  <2> QED BY <1>1, <1>2, <1>4, <2>1 DEF Collected, HasFiles, SamePhase, db
<1>6. LoopInv' /\ job'.page \in Pages /\ b \in Bagits
  BY <1>1, <1>2, <1>5, EnterKeepsLoop DEF ReportInv, HandPcs, OfPagePcs
<1>7. JobInv'
  BY <1>1, <1>2, <1>6 DEF ReportInv, JobInv, SamePhase, HandPcs, OfPagePcs
<1>8. HandInv'
  BY <1>1, <1>2 DEF HandInv, BlankPage
<1>9. DoneInv'
  BY <1>1, <1>2, <1>3, <1>4 DEF ReportInv, DoneInv, HasKeys, HasTests, disk
<1> QED BY <1>1, <1>6, <1>7, <1>8, <1>9, SinceStays DEF ReportInv

\* A step in the page of the bagit in hand.
LEMMA PageStepKeeps ==
    ASSUME ReportInv, UNCHANGED <<disk, db, out, since>>,
           job.pc \in OfPagePcs, job'.pc \in {"page", "transfer"}, SamePage, job'.cur = job.cur,
           job'.locs \subseteq Locations, job'.pc = "transfer" => job'.loc \in Locations,
           DOMAIN draft' = DOMAIN BlankPage, draft'.files \in Nat,
           job.cur \in since.settled => job'.left = content[job.cur] /\ draft'.files <= content[job.cur]
    PROVE  ReportInv'
<1>1. job.phase = "pages" /\ DOMAIN job = DOMAIN Idle
  BY DEF ReportInv, JobInv
<1>2. \A b \in since.settled : b # job.cur /\ Collected(b) => Collected(b)'
  BY <1>1 DEF Collected, HasFiles, SamePage, SamePhase, db
<1>3. LoopInv'
  BY <1>2, InsideKeepsLoop DEF ReportInv, HandPcs, OfPagePcs
<1>4. JobInv'
  BY <1>1 DEF ReportInv, JobInv, SamePage, SamePhase, HandPcs, OfPagePcs
<1>5. HandInv'
  BY DEF HandInv, OfPagePcs, SamePage, SamePhase, db
<1> QED BY <1>3, <1>4, <1>5, StaysInside DEF SamePage, OfPagePcs

LEMMA CountContentsKeeps == ASSUME TypeInv, ReportInv, CountContents PROVE ReportInv'
<1>1. CASE Proceed([job EXCEPT !.pc = "page", !.left = content[job.cur]]) /\ UNCHANGED draft
  <2>1. /\ job.pc = "contents" /\ job' = [job EXCEPT !.pc = "page", !.left = content[job.cur]]
        /\ UNCHANGED <<disk, db, draft, out, since>> /\ DOMAIN job = DOMAIN Idle
    BY <1>1 DEF CountContents, Proceed, Pager!Goto, Pager!disk, Pager!db, disk, db, ReportInv, JobInv
  <2>2. /\ job'.pc = "page" /\ job'.left = content[job.cur] /\ job'.cur = job.cur
        /\ SamePage /\ job'.locs = job.locs
    BY <2>1 DEF SamePage, SamePhase, Idle
  <2>3. /\ DOMAIN draft' = DOMAIN BlankPage /\ draft'.files = 0
        /\ job'.locs \subseteq Locations
    BY <2>1, <2>2 DEF ReportInv, HandInv, JobInv, OfPagePcs
  <2>4. job.cur \in since.settled => 0 <= content[job.cur]
    BY DEF TypeInv, TypeOK, TablesOK, ReportInv, SinceInv
  <2> QED BY <2>1, <2>2, <2>3, <2>4, PageStepKeeps DEF OfPagePcs
<1> QED BY <1>1, DiesKeep DEF CountContents

LEMMA LoadContentsKeeps == ASSUME TypeInv, ReportInv, LoadContents PROVE ReportInv'
<1>1. CASE Proceed(job) /\ draft' = [draft EXCEPT !.files =
                                       IF @ + PageSize < content[job.cur] THEN @ + PageSize
                                                                          ELSE content[job.cur]]
  <2>1. /\ job.pc = "page" /\ job' = job /\ UNCHANGED <<disk, db, out, since>>
        /\ DOMAIN draft = DOMAIN BlankPage /\ draft.files \in Nat
        /\ job.cur \in Bagits /\ job.locs \subseteq Locations
    BY <1>1 DEF LoadContents, Proceed, Pager!Goto, Pager!disk, Pager!db, disk, db, ReportInv,
                JobInv, HandInv, HandPcs, OfPagePcs
  <2>2. content[job.cur] \in Nat /\ PageSize \in Nat
    BY <2>1, BoundsAssumption DEF TypeInv, TypeOK, TablesOK
  <2>3. /\ DOMAIN draft' = DOMAIN BlankPage /\ draft'.files \in Nat
        /\ draft'.files <= content[job.cur]
    BY <1>1, <2>1, <2>2 DEF BlankPage
  <2>4. job.cur \in since.settled => job.left = content[job.cur]
    BY <2>1 DEF ReportInv, HandInv
  <2> QED BY <2>1, <2>3, <2>4, PageStepKeeps DEF SamePage, SamePhase, OfPagePcs
<1> QED BY <1>1, DiesKeep DEF LoadContents

LEMMA LoadTestsKeeps ==
    ASSUME ReportInv, NEW l \in Locations, LoadTests(l)
    PROVE  ReportInv'
<1>1. CASE /\ Proceed([job EXCEPT !.pc = "transfer", !.locs = @ \ {l}, !.loc = l])
           /\ draft' = [draft EXCEPT !.tests = @ \cup {[loc |-> l, status |-> test[job.cur][l]]}]
  <2>1. /\ job.pc = "page" /\ UNCHANGED <<disk, db, out, since>>
        /\ DOMAIN draft = DOMAIN BlankPage /\ draft.files \in Nat
        /\ job' = [job EXCEPT !.pc = "transfer", !.locs = @ \ {l}, !.loc = l]
        /\ job.locs \subseteq Locations /\ DOMAIN job = DOMAIN Idle
    BY <1>1 DEF LoadTests, Proceed, Pager!Goto, Pager!disk, Pager!db, disk, db, ReportInv,
                JobInv, HandInv, OfPagePcs
  <2>2. /\ job'.pc = "transfer" /\ job'.loc = l /\ job'.locs = job.locs \ {l}
        /\ job'.left = job.left /\ job'.cur = job.cur /\ SamePage
    BY <2>1 DEF SamePage, SamePhase, Idle
  <2>3. DOMAIN draft' = DOMAIN BlankPage /\ draft'.files = draft.files
    BY <1>1, <2>1 DEF BlankPage
  <2>4. job.cur \in since.settled => job.left = content[job.cur] /\ draft.files <= content[job.cur]
    BY <2>1 DEF ReportInv, HandInv
  <2> QED BY <2>1, <2>2, <2>3, <2>4, PageStepKeeps DEF OfPagePcs
<1> QED BY <1>1, DiesKeep DEF LoadTests

LEMMA LoadTransferKeeps == ASSUME ReportInv, LoadTransfer PROVE ReportInv'
<1>1. CASE /\ Proceed([job EXCEPT !.pc = "page", !.loc = None])
           /\ draft' = [draft EXCEPT !.transfers =
                          @ \cup {[loc |-> job.loc, status |-> transfer[job.cur][job.loc]]}]
  <2>1. /\ job.pc = "transfer" /\ UNCHANGED <<disk, db, out, since>>
        /\ DOMAIN draft = DOMAIN BlankPage /\ draft.files \in Nat
        /\ job' = [job EXCEPT !.pc = "page", !.loc = None]
        /\ job.locs \subseteq Locations /\ DOMAIN job = DOMAIN Idle
    BY <1>1 DEF LoadTransfer, Proceed, Pager!Goto, Pager!disk, Pager!db, disk, db, ReportInv,
                JobInv, HandInv, OfPagePcs
  <2>2. /\ job'.pc = "page" /\ job'.locs = job.locs
        /\ job'.left = job.left /\ job'.cur = job.cur /\ SamePage
    BY <2>1 DEF SamePage, SamePhase, Idle
  <2>3. DOMAIN draft' = DOMAIN BlankPage /\ draft'.files = draft.files
    BY <1>1, <2>1 DEF BlankPage
  <2>4. job.cur \in since.settled => job.left = content[job.cur] /\ draft.files <= content[job.cur]
    BY <2>1 DEF ReportInv, HandInv
  <2> QED BY <2>1, <2>2, <2>3, <2>4, PageStepKeeps DEF OfPagePcs
<1> QED BY <1>1, DiesKeep DEF LoadTransfer

LEMMA RenderKeeps == ASSUME TypeInv, ReportInv, Render PROVE ReportInv'
<1>1. /\ job.pc = "page" /\ ~ MoreContents /\ job.phase = "pages"
      /\ out.done \subseteq {"keys", "table"} /\ DOMAIN out = {"keys", "table", "pages", "done"}
      /\ job.cur \in Bagits /\ draft.files \in Nat
  BY DEF Render, ReportInv, JobInv, HandInv, DoneInv, HandPcs, OfPagePcs
<1>2. CASE Pager!Goto(Leave) /\ out' = [out EXCEPT !.pages = Put(@, job.cur, draft)]
           /\ UNCHANGED <<run, since>>
  <2>1. job' = Leave /\ UNCHANGED <<disk, db, since>>
    BY <1>2 DEF Pager!Goto, Pager!disk, Pager!db, disk, db
  <2>2. /\ job'.pc = "next" /\ job'.phase = "pages" /\ SamePage /\ job'.page = job.page
        /\ job'.start = job.start /\ job'.n = job.n /\ DOMAIN job' = DOMAIN Idle
    BY <1>1, <2>1 DEF Leave, SamePage, SamePhase, ReportInv, JobInv
  <2>3. /\ out'.pages = Put(out.pages, job.cur, draft) /\ out'.done = out.done
        /\ out'.keys = out.keys /\ out'.table = out.table /\ DOMAIN out' = DOMAIN out
    BY <1>1, <1>2
  <2>4. \A b \in since.settled : b = job.cur \/ Collected(b) => Collected(b)'
    <3>1. job.cur \in since.settled => draft.files = content[job.cur]
      <4>1. job.cur \in since.settled => job.left = content[job.cur] /\ draft.files <= content[job.cur]
        BY <1>1 DEF ReportInv, HandInv
      <4>2. content[job.cur] \in Nat
        BY <1>1 DEF TypeInv, TypeOK, TablesOK
      <4> QED BY <1>1, <4>1, <4>2 DEF MoreContents
    <3>2. \A b \in since.settled :
             b = job.cur \/ HasFiles(out.pages, b) => HasFiles(Put(out.pages, job.cur, draft), b)
      BY <3>1, PutKeeps DEF HasFiles
    <3> QED BY <1>1, <2>1, <2>2, <2>3, <3>2 DEF Collected, HasFiles, db
  <2>5. LoopInv'
    BY <1>1, <2>2, <2>4, LeaveKeepsLoop DEF ReportInv, HandPcs, OfPagePcs
  <2>6. JobInv'
    BY <1>1, <2>2 DEF ReportInv, JobInv, SamePage, SamePhase, HandPcs, OfPagePcs
  <2>7. HandInv'
    BY <2>2 DEF HandInv, OfPagePcs
  <2>8. DoneInv'
    BY <1>1, <2>1, <2>2, <2>3 DEF ReportInv, DoneInv, HasKeys, HasTests, disk
  <2> QED BY <2>1, <2>5, <2>6, <2>7, <2>8, SinceStays DEF ReportInv
<1> QED BY <1>2, DiesKeep DEF Render

LEMMA ReportDoneKeeps == ASSUME TypeInv, ReportInv, ReportDone PROVE ReportInv'
<1>1. out' = [out EXCEPT !.done = @ \cup {"pages"}] /\ job' = Idle
  BY DEF ReportDone
<1>2. /\ Fresh /\ UNCHANGED <<disk, db, since>> /\ job.phase = "pages"
      /\ job'.pc = "idle"
      /\ \A b \in since.settled : HasFiles(out.pages, b)
  BY <1>1, PhaseEnds, IdleJob DEF ReportDone, Collected
<1>3. DoneInv'
  <2>1. /\ out'.done = out.done \cup {"pages"} /\ out'.keys = out.keys /\ out'.table = out.table
        /\ out'.pages = out.pages /\ DOMAIN out' = DOMAIN out
    BY <1>1 DEF ReportInv, DoneInv
  <2> QED BY <1>2, <2>1 DEF ReportInv, DoneInv, HasKeys, HasTests, HasFiles, disk, db
<1> QED BY <1>2, <1>3, PhaseBegins

LEMMA StepKeepsReport ==
    ASSUME "dbcut" \notin FaultKinds, TypeInv, TestedInv, KeysReadable => KeyInv /\ KeptInv,
           ReportInv, ReportStep
    PROVE  ReportInv'
<1>1. CASE StartReport \/ OpenKeys \/ ReportPage \/ CrashReport
  BY <1>1, StartKeeps, OpenKeysKeeps, PagingKeeps, DiesKeep DEF CrashReport
<1>2. CASE ReadIV \/ ReadKey \/ KeysDone \/ IndexBagit \/ IndexDone
  BY <1>2, ReadIVKeeps, ReadKeyKeeps, KeysDoneKeeps, IndexBagitKeeps, IndexDoneKeeps
<1>3. CASE BeginTests \/ (\E l \in Locations : LastTest(l)) \/ TestsDone \/ TableDone
  BY <1>3, BeginTestsKeeps, LastTestKeeps, TestsDoneKeeps, TableDoneKeeps
<1>4. CASE BeginPage \/ CountContents \/ LoadContents \/ (\E l \in Locations : LoadTests(l))
           \/ LoadTransfer \/ Render \/ ReportDone
  BY <1>4, BeginPageKeeps, CountContentsKeeps, LoadContentsKeeps, LoadTestsKeeps,
     LoadTransferKeeps, RenderKeeps, ReportDoneKeeps
<1> QED BY <1>1, <1>2, <1>3, <1>4 DEF ReportStep

(***************************************************************************)
(* A passed test on a page has the ok row next to it: the test is read     *)
(* before the row, and neither is taken back in between.                   *)
(***************************************************************************)
LEMMA RunKeepsTell ==
    ASSUME "dbread" \notin FaultKinds, TypeInv, WrittenInv, JobInv, TellInv, [Next]_vars,
           UNCHANGED reports
    PROVE  TellInv'
<1>1. \A b \in Bagits, l \in Locations : transfer[b][l] = "ok" => transfer'[b][l] = "ok"
  BY OkStays
<1>2. job.pc \in OfPagePcs => job.cur \in Bagits
  BY DEF JobInv, HandPcs
<1> QED BY <1>1, <1>2 DEF TellInv, reports

LEMMA OutsideOfPages ==
    ASSUME ReportInv, ReportStep
    PROVE  \/ out'.pages = out.pages /\ job'.pc \notin OfPagePcs
           \/ BeginPage \/ CountContents \/ LoadContents \/ (\E l \in Locations : LoadTests(l))
           \/ LoadTransfer \/ Render
<1>1. "pc" \in DOMAIN job /\ DOMAIN out = {"keys", "table", "pages", "done"}
  BY DEF ReportInv, JobInv, DoneInv, Idle
<1> USE DEF OfPagePcs
<1>2. ASSUME Die \/ \E kind : DiesOf(kind) PROVE out' = out /\ job'.pc \notin OfPagePcs
  BY <1>2, PagerIdle, IdleJob DEF Die, DiesOf, Pager!Abort, Pager!Fails, Pager!Exit
<1>3. CASE StartReport
  <2>1. PICK locations, checksum : BeginReport(locations, checksum)
    BY <1>3 DEF StartReport
  <2>2. job'.pc = "sphinx" /\ out'.pages = out.pages
    BY <1>1, <2>1 DEF BeginReport, Idle
  <2> QED BY <2>2
<1>4. CASE OpenKeys
  BY <1>1, <1>4 DEF OpenKeys, CreateSphinx, Pager!Goto
<1>5. CASE ReportPage
  BY <1>1, <1>5, PagerIdle, IdleJob
     DEF ReportPage, Pager!CountRows, Pager!ReadPage, Pager!CutPage, Pager!WithPage, Pager!EndOfPage,
         Pager!Goto, Pager!Fails, Pager!Exit
<1>6. CASE ReadIV \/ ReadKey \/ IndexBagit
  BY <1>1, <1>6 DEF ReadIV, ReadKey, IndexBagit, InLoop, Pager!HasBagit, Proceed, Pager!Goto, Enter, Leave
<1>7. CASE KeysDone \/ IndexDone \/ TableDone \/ ReportDone
  BY <1>1, <1>7, LoopBegins, IdleJob DEF KeysDone, IndexDone, TableDone, ReportDone
<1>8. CASE BeginTests \/ TestsDone
  BY <1>1, <1>8 DEF BeginTests, TestsDone, Proceed, Pager!Goto, Enter, Leave
<1>9. ASSUME NEW l \in Locations, LastTest(l)
      PROVE  out'.pages = out.pages /\ job'.pc \notin OfPagePcs
  BY <1>1, <1>9 DEF LastTest, CountTest, NoTest, Proceed, Pager!Goto
<1>10. CASE CrashReport
  BY <1>2, <1>10 DEF CrashReport
<1> QED BY <1>3, <1>4, <1>5, <1>6, <1>7, <1>8, <1>9, <1>10 DEF ReportStep

LEMMA StepKeepsTell ==
    ASSUME TypeInv, ReportInv, InitRowInv, Locations # {InitLoc} => PassedMeansArchived,
           TellInv, ReportStep
    PROVE  TellInv'
<1>1. /\ UNCHANGED <<transfer, test>> /\ DOMAIN job = DOMAIN Idle
      /\ DOMAIN out = {"keys", "table", "pages", "done"}
      /\ job.pc \in OfPagePcs => job.cur \in Bagits /\ DOMAIN draft = DOMAIN BlankPage
  BY ReportOnlyReads
     DEF OnlyReads, ReportInv, JobInv, HandInv, DoneInv, HandPcs, db
<1>2. CASE out'.pages = out.pages /\ job'.pc \notin OfPagePcs
  BY <1>2 DEF TellInv
<1>3. ASSUME Die \/ \E kind : DiesOf(kind) PROVE TellInv'
  <2>1. out' = out /\ job'.pc \notin OfPagePcs
    BY <1>3, PagerIdle, IdleJob DEF Die, DiesOf, Pager!Abort, Pager!Fails, Pager!Exit, OfPagePcs
  <2> QED BY <2>1 DEF TellInv
<1>4. CASE BeginPage
  <2>1. /\ out'.pages = Truncate(out.pages, Head(job.page).name)
        /\ draft' = BlankPage
    BY <1>1, <1>4 DEF BeginPage
  <2>2. \A b \in DOMAIN out'.pages : b \in DOMAIN out.pages /\ out'.pages[b] = out.pages[b]
    BY <2>1 DEF Truncate
  <2>3. \A l : ~ Shown(draft', l)
    BY <2>1 DEF Shown, BlankPage
  <2> QED BY <2>2, <2>3 DEF TellInv
\* The page goes on with the tests and transfers it has.
<1>5. ASSUME UNCHANGED <<out>>, job.pc \in OfPagePcs \ {"transfer"}, job'.cur = job.cur,
             draft'.tests = draft.tests, draft'.transfers = draft.transfers
      PROVE  TellInv'
  BY <1>1, <1>5 DEF TellInv, Shown, Backed, Lacking
<1>6. CASE CountContents
  <2>1. CASE Proceed([job EXCEPT !.pc = "page", !.left = content[job.cur]]) /\ UNCHANGED draft
    BY <1>1, <1>5, <1>6, <2>1 DEF CountContents, Proceed, Pager!Goto, OfPagePcs
  <2> QED BY <1>3, <1>6, <2>1 DEF CountContents
<1>7. CASE LoadContents
  <2>1. CASE Proceed(job) /\ \E n : draft' = [draft EXCEPT !.files = n]
    <3>1. job.pc = "page" /\ job' = job /\ UNCHANGED out
      BY <1>7, <2>1 DEF LoadContents, Proceed, Pager!Goto
    <3>2. draft'.tests = draft.tests /\ draft'.transfers = draft.transfers
      BY <1>1, <2>1, <3>1 DEF OfPagePcs, BlankPage
    <3> QED BY <1>5, <3>1, <3>2 DEF OfPagePcs
  <2> QED BY <1>3, <1>7, <2>1 DEF LoadContents
<1>8. ASSUME NEW l \in Locations, LoadTests(l) PROVE TellInv'
  <2>1. CASE /\ Proceed([job EXCEPT !.pc = "transfer", !.locs = @ \ {l}, !.loc = l])
             /\ draft' = [draft EXCEPT !.tests = @ \cup {[loc |-> l, status |-> test[job.cur][l]]}]
    <3>1. job.pc = "page" /\ job.cur \in Bagits /\ DOMAIN draft = DOMAIN BlankPage /\ UNCHANGED out
      BY <1>1, <1>8, <2>1 DEF LoadTests, Proceed, OfPagePcs
    <3>2. job'.pc = "transfer" /\ job'.loc = l /\ job'.cur = job.cur
      BY <1>1, <2>1 DEF Proceed, Pager!Goto, Idle
    <3>3. /\ draft'.tests = draft.tests \cup {[loc |-> l, status |-> test[job.cur][l]]}
          /\ draft'.transfers = draft.transfers
      BY <2>1, <3>1 DEF BlankPage
    <3>4. test[job.cur][l] = "passed" => transfer[job.cur][l] = "ok" \/ l = InitLoc
      BY <3>1, LocationsAssumption DEF PassedMeansArchived
    <3>5. \A m \in Locations : Shown(draft', m) =>
             Shown(draft, m) \/ (m = l /\ test[job.cur][l] = "passed")
      BY <3>3 DEF Shown
    <3>6. \A m : (Backed(draft', m) <=> Backed(draft, m)) /\ (Lacking(draft', m) <=> Lacking(draft, m))
      BY <3>3 DEF Backed, Lacking
    <3> QED BY <1>1, <3>1, <3>2, <3>4, <3>5, <3>6 DEF TellInv, OfPagePcs
  <2> QED BY <1>3, <1>8, <2>1 DEF LoadTests
<1>9. CASE LoadTransfer
  <2>1. CASE /\ Proceed([job EXCEPT !.pc = "page", !.loc = None])
             /\ draft' = [draft EXCEPT !.transfers =
                            @ \cup {[loc |-> job.loc, status |-> transfer[job.cur][job.loc]]}]
    <3>1. /\ job.pc = "transfer" /\ job.cur \in Bagits /\ DOMAIN draft = DOMAIN BlankPage
          /\ UNCHANGED out /\ job.loc \in Locations
      BY <1>1, <1>9, <2>1 DEF LoadTransfer, Proceed, OfPagePcs, ReportInv, JobInv
    <3>2. job'.pc = "page" /\ job'.cur = job.cur
      BY <1>1, <2>1 DEF Proceed, Pager!Goto, Idle
    <3>3. /\ draft'.transfers =
                draft.transfers \cup {[loc |-> job.loc, status |-> transfer[job.cur][job.loc]]}
          /\ draft'.tests = draft.tests
      BY <2>1, <3>1 DEF BlankPage
    <3>4. transfer[job.cur][InitLoc] \in {None, "ok"}
      BY <3>1, LocationsAssumption DEF InitRowInv, TypeInv, TypeOK, StatusOK
    <3>5. \A m \in Locations : Shown(draft', m) <=> Shown(draft, m)
      BY <3>3 DEF Shown
    <3>6. \A m : /\ Backed(draft, m) => Backed(draft', m)
                 /\ Lacking(draft, m) => Lacking(draft', m)
      BY <3>3 DEF Backed, Lacking
    <3>7. /\ transfer[job.cur][job.loc] = "ok" => Backed(draft', job.loc)
          /\ transfer[job.cur][job.loc] = None => Lacking(draft', job.loc)
      BY <3>3 DEF Backed, Lacking
    <3> QED BY <1>1, <3>1, <3>2, <3>4, <3>5, <3>6, <3>7 DEF TellInv, OfPagePcs
  <2> QED BY <1>3, <1>9, <2>1 DEF LoadTransfer
\* A page that lacks a row is not written.
<1>10. CASE Render
  <2>1. CASE /\ ~ \E t \in draft.transfers : t.status = None
             /\ Pager!Goto(Leave) /\ out' = [out EXCEPT !.pages = Put(@, job.cur, draft)]
    <3>1. /\ job.pc = "page" /\ job'.pc = "next"
          /\ out'.pages = Put(out.pages, job.cur, draft)
      BY <1>1, <1>10, <2>1 DEF Render, Pager!Goto, Leave
    <3>2. \A l : ~ Lacking(draft, l)
      BY <2>1 DEF Lacking
    <3>3. \A l \in Locations : Shown(draft, l) => Backed(draft, l)
      BY <3>1, <3>2 DEF TellInv, OfPagePcs
    <3>4. \A b \in DOMAIN out'.pages :
             out'.pages[b] = draft \/ (b \in DOMAIN out.pages /\ out'.pages[b] = out.pages[b])
      BY <3>1 DEF Put
    <3> QED BY <3>1, <3>3, <3>4 DEF TellInv, OfPagePcs
  <2> QED BY <1>3, <1>10, <2>1 DEF Render
<1> QED BY <1>2, <1>4, <1>6, <1>7, <1>8, <1>9, <1>10, OutsideOfPages

(***************************************************************************)
(* A run and a report together.                                            *)
(***************************************************************************)
KeysInv == "keyread" \notin FaultKinds => KeyInv /\ KeptInv
BothInv == TypeInv /\ WrittenInv /\ PageInv /\ TestedInv /\ KeysInv /\ ReportInv

PagesInv == BothInv /\ (Locations # {InitLoc} => RunInv) /\ InitRowInv /\ TellInv

LEMMA ReportKeepsArchive ==
    ASSUME TypeInv, ReportStep
    PROVE  OnlyReads /\ (TestedInv => TestedInv') /\ (KeysInv => KeysInv')
<1>1. OnlyReads /\ UNCHANGED <<disk, db, run>>
  BY ReportOnlyReads DEF OnlyReads
<1>2. TestedInv => TestedInv'
  BY <1>1 DEF TestedInv, Registered, db
<1>3. KeptInv => KeptInv'
  BY <1>1 DEF KeptInv, KeyKept, disk, db
<1> QED BY <1>1, <1>2, <1>3, ReadingKeepsArchive DEF KeysInv

LEMMA InitReport == InitBoth => ReportInv /\ TellInv /\ InitRowInv
<1> SUFFICES ASSUME InitBoth PROVE ReportInv /\ TellInv /\ InitRowInv
  OBVIOUS
<1>1. /\ job = Idle /\ out = [keys |-> Nothing, table |-> Nothing, pages |-> Nothing, done |-> {}]
      /\ since.settled = {}
  BY DEF InitBoth, ReportInit
<1>2. job.pc = "idle" /\ job.page = <<>> /\ job.start = 0 /\ job.n = 0 /\ DOMAIN job = DOMAIN Idle
  BY <1>1, IdleJob
<1>3. SinceInv /\ DoneInv
  BY <1>1, <1>2 DEF SinceInv, DoneInv
<1>4. LoopInv /\ HandInv
  BY <1>2 DEF LoopInv, HandInv, LoopPcs, HandPcs, OfPagePcs
<1>5. JobInv
  BY <1>2 DEF JobInv, Pages, HandPcs, OfPagePcs
<1>6. TellInv
  BY <1>1, <1>2 DEF TellInv, Nothing, OfPagePcs
<1>7. InitRowInv
  BY LocationsAssumption DEF InitBoth, Init, InitRowInv, None
<1> QED BY <1>3, <1>4, <1>5, <1>6, <1>7 DEF ReportInv

LEMMA InitBothInv == InitBoth => BothInv
BY InitReport, InitType, InitWritten, InitPage, InitFacts, InitKey DEF InitBoth, BothInv, KeysInv

LEMMA InitPagesInv == InitBoth => PagesInv
BY InitBothInv, InitReport, InitRun DEF InitBoth, PagesInv

LEMMA NextKeepsBoth ==
    ASSUME "dbcut" \notin FaultKinds, BothInv, [NextBoth]_<<vars, reports>>
    PROVE  BothInv'
<1>1. CASE ReportStep
  <2>1. ReportInv'
    BY <1>1, StepKeepsReport DEF BothInv, KeysInv, KeysReadable
  <2> QED BY <1>1, <2>1, ReadingKeepsArchive, ReportKeepsArchive DEF BothInv
<1>2. CASE [Next]_vars /\ UNCHANGED reports
  <2>1. TypeInv' /\ WrittenInv' /\ PageInv'
    BY <1>2, NextType, NextKeepsWritten, NextKeepsPage DEF BothInv
  <2>2. TestedInv' /\ RowsGrow /\ Steady
    BY <1>2, NextKeepsTested DEF BothInv
  <2>3. KeysInv'
    BY <1>2, NextKeepsKey, NextKeepsKept DEF BothInv, KeysInv
  <2>4. "keyread" \notin FaultKinds =>
            \A b \in Bagits : KeyKept(b) =>
                keyFile'[b] = keyFile[b] /\ ivFile'[b] = ivFile[b] /\ KeyKept(b)'
    BY <1>2, KeysStay DEF BothInv, KeysInv
  <2>5. ReportInv'
    BY <1>2, <2>1, <2>2, <2>4, RunKeepsReport DEF BothInv
  <2> QED BY <2>1, <2>2, <2>3, <2>5 DEF BothInv
<1> QED BY <1>1, <1>2 DEF NextBoth, IngestGoesOn

LEMMA NextKeepsPages ==
    ASSUME FaultKinds \cap {"dbcut", "dbread"} = {}, PagesInv, [NextBoth]_<<vars, reports>>
    PROVE  PagesInv'
<1>1. BothInv'
  BY NextKeepsBoth DEF PagesInv
<1>2. CASE ReportStep
  <2>1. TellInv'
    BY <1>2, StepKeepsTell DEF PagesInv, BothInv, RunInv
  <2> QED BY <1>1, <1>2, <2>1, ReadingKeepsArchive, ReportKeepsArchive DEF PagesInv, BothInv
<1>3. CASE [Next]_vars /\ UNCHANGED reports
  <2>1. InitRowInv' /\ TellInv'
    BY <1>3, NextKeepsInitRow, RunKeepsTell DEF PagesInv, BothInv, ReportInv
  <2>2. Locations # {InitLoc} => RunInv'
    BY <1>3, NextKeepsRun DEF PagesInv, BothInv
  <2> QED BY <1>1, <2>1, <2>2 DEF PagesInv
<1> QED BY <1>2, <1>3 DEF NextBoth, IngestGoesOn

\* A keys.txt that was finished opens every copy that was archived and tested
\* when the report began, whatever failed and whenever the processes died: the
\* loop reaches the bagit on one page or another, though a run inserts rows
\* meanwhile, and its two key files are never written again.
THEOREM KeysTxtCorrect ==
    ASSUME FaultKinds \cap {"dbcut", "keyread"} = {}
    PROVE  SpecBoth => []KeysTxtDecrypts
<1>1. BothInv /\ [NextBoth]_<<vars, reports>> => BothInv'
  BY NextKeepsBoth
<1>2. BothInv => KeysTxtDecrypts
  <2> SUFFICES ASSUME BothInv, "keys" \in out.done, NEW b \in since.settled,
                      NEW l \in Encrypted, file[b][l].key # Missing
               PROVE  /\ b \in DOMAIN out.keys
                      /\ out.keys[b] = [key |-> file[b][l].key, iv |-> file[b][l].iv]
    BY DEF KeysTxtDecrypts
  <2>1. b \in DOMAIN out.keys /\ out.keys[b] = [key |-> keyFile[b], iv |-> ivFile[b]]
    BY DEF BothInv, ReportInv, DoneInv, HasKeys, KeysReadable
  <2>2. b \in Bagits
    BY DEF BothInv, ReportInv, SinceInv
  <2>3. keyFile[b] = file[b][l].key /\ ivFile[b] = file[b][l].iv
    BY <2>2 DEF BothInv, KeysInv, KeyInv, Ciphers, MadeWith
  <2> QED BY <2>1, <2>3
<1> QED BY <1>1, <1>2, InitBothInv, PTL DEF SpecBoth

\* The table of a finished report counts a test at every location for what was
\* tested everywhere when it began, as long as the queries answer: a query that
\* fails ends the count of a bagit without an error.
THEOREM TableCorrect ==
    ASSUME FaultKinds \cap {"dbcut", "dbread"} = {}
    PROVE  SpecBoth => []TableIsComplete
<1>1. BothInv /\ [NextBoth]_<<vars, reports>> => BothInv'
  BY NextKeepsBoth
<1>2. BothInv => TableIsComplete
  BY DEF BothInv, ReportInv, DoneInv, HasTests, LocsOf, TableIsComplete
<1> QED BY <1>1, <1>2, InitBothInv, PTL DEF SpecBoth

\* The pages of a finished report list all files of what was settled when it
\* began, and no page, finished or left by a report that died, shows a passed
\* test without the completed transfer, though they are two queries and a run
\* is writing both tables.
THEOREM PagesCorrect ==
    ASSUME FaultKinds \cap {"dbcut", "dbread"} = {}
    PROVE  SpecBoth => []PagesTellArchive
<1>1. PagesInv /\ [NextBoth]_<<vars, reports>> => PagesInv'
  BY NextKeepsPages
<1>2. PagesInv => PagesTellArchive
  BY DEF PagesInv, BothInv, ReportInv, DoneInv, HasFiles, TellInv, Shown, Backed, PagesTellArchive
<1> QED BY <1>1, <1>2, InitPagesInv, PTL DEF SpecBoth
=============================================================================
