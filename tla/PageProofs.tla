----------------------------- MODULE PageProofs -----------------------------
(***************************************************************************)
(* What the loops over table bagit rely on: a bagit has one row, a page    *)
(* names it once, and the copy of the row on the page is still that of the *)
(* table when the callback is entered.  From it follows that an "ok" row   *)
(* stands next to the bytes whose digest is recorded.                      *)
(***************************************************************************)
EXTENDS ArchiveProofs

(***************************************************************************)
(* The steps of a run, told by what they do to the memory of the process.  *)
(***************************************************************************)
WalkPcs  == {"walk", "sum", "insert", "init", "content"}
CheckPcs == {"test", "read", "result"}
PagePcs  == RowPcs \cup {"target"} \cup CheckPcs

SameLoop ==
    /\ run'.phase = run.phase /\ run'.known = run.known /\ run'.checksum = run.checksum
    /\ run'.start = run.start /\ run'.n = run.n

SameBagit ==
    /\ SameLoop
    /\ run'.page = run.page /\ run'.cur = run.cur /\ run'.source = run.source

SameLocation ==
    /\ SameBagit
    /\ run'.aes = run.aes /\ run'.locs = run.locs /\ run'.loc = run.loc

\* The run ends; all it can leave behind is a row that says "error", and what
\* it has made of the key files.
Ends ==
    /\ run' = Idle
    /\ UNCHANGED <<file, rows, sha, aes, content, test, fresh>>
    /\ \A b \in Bagits, l \in Locations :
          \/ UNCHANGED transfer[b][l]
          \/ /\ run.pc \in RowPcs /\ b = run.cur /\ l = run.loc
             /\ transfer'[b][l] = "error"

LEMMA EndsOf ==
    ASSUME TypeInv
    PROVE  /\ Abort => Ends
           /\ \A kind : Fails(kind) => Ends
           /\ run.pc \in RowPcs /\ ErrorRow => Ends
<1>1. Abort => Ends
  BY DEF Abort, Exit, Ends, disk, db
<1>2. \A kind : Fails(kind) => Ends
  BY DEF Fails, Exit, Ends, disk, db
<1>3. ASSUME run.pc \in RowPcs, ErrorRow PROVE Ends
  <2>1. run.cur \in Bagits /\ run.loc \in Locations
    BY <1>3 DEF TypeInv, Holds, AtLocation, RowPcs
  <2>2. SetRow("error") \/ UNCHANGED transfer
    BY <1>3 DEF ErrorRow
  <2>3. \A b \in Bagits, l \in Locations :
           \/ UNCHANGED transfer[b][l]
           \/ b = run.cur /\ l = run.loc /\ transfer'[b][l] = "error"
    BY <2>1, <2>2 DEF SetRow, TypeInv, TypeOK, StatusOK
  <2> QED BY <1>3, <2>3 DEF ErrorRow, Exit, Ends, disk
<1> QED BY <1>1, <1>2, <1>3

LEMMA LoadSourceFrame ==
    ASSUME TypeInv, LoadSource
    PROVE  \/ Ends
           \/ /\ run.pc = "next" /\ run.phase = "transfer" /\ run.page # <<>>
              /\ run'.pc = "target" /\ run'.page = Tail(run.page) /\ SameLoop
              /\ run'.cur = Head(run.page).name /\ run'.aes = Head(run.page).aes
              /\ run'.source = (transfer[run'.cur][InitLoc] # None)
              /\ run'.locs = run.known \ {InitLoc}
              /\ run'.key = run.key /\ run'.iv = run.iv /\ run'.loc = run.loc
              /\ UNCHANGED <<disk, db, faults>>
<1>1. CASE Fails("dbread")
  BY <1>1, EndsOf
<1> DEFINE src == transfer[Head(run.page).name][InitLoc] # None
<1>2. CASE BeginBagit("target", src, run.known \ {InitLoc})
  <2>1. HasBagit("transfer")
    BY DEF LoadSource
  <2> HIDE DEF src
  <2>2. /\ run'.pc = "target" /\ run'.page = Tail(run.page) /\ SameLoop
        /\ run'.cur = Head(run.page).name /\ run'.aes = Head(run.page).aes
        /\ run'.source = src
        /\ run'.locs = run.known \ {InitLoc}
        /\ run'.key = run.key /\ run'.iv = run.iv /\ run'.loc = run.loc
        /\ UNCHANGED <<disk, db, faults>>
    BY <1>2 DEF BeginBagit, Goto, NoFault, TypeInv, TypeOK, RunState, SameLoop
  <2> QED BY <2>1, <2>2 DEF HasBagit, src
<1> QED BY <1>1, <1>2 DEF LoadSource

LEMMA EndBagitFrame ==
    ASSUME TypeInv, EndBagit
    PROVE  /\ run'.pc = "next" /\ run'.page = run.page /\ SameLoop
           /\ run'.cur = None /\ run'.aes = NoDigest
           /\ run'.key = run.key /\ run'.iv = run.iv /\ run'.loc = run.loc
           /\ UNCHANGED <<disk, db, faults>>
BY DEF EndBagit, Goto, NoFault, TypeInv, TypeOK, RunState, SameLoop

LEMMA NextTargetFrame ==
    ASSUME TypeInv, NEW l \in Locations, NextTarget(l)
    PROVE  /\ run.pc = "target" /\ l \in run.locs
           /\ SameBagit /\ run'.aes = run.aes /\ run'.locs = run.locs \ {l}
           /\ run'.key = run.key /\ run'.iv = run.iv
           /\ UNCHANGED <<disk, db>>
           /\ \/ /\ run'.pc = "target" /\ run'.loc = run.loc
                 /\ transfer[run.cur][l] = "ok"
              \/ /\ run'.pc = "open" /\ run'.loc = l
                 /\ "dbread" \notin FaultKinds => transfer[run.cur][l] # "ok"
<1> USE DEF TypeInv, TypeOK, RunState, SameBagit, SameLoop
<1>1. run.pc = "target" /\ l \in run.locs
  BY DEF NextTarget
<1>2. CASE SkipTarget(l)
  BY <1>1, <1>2 DEF SkipTarget, Goto, Exists
<1>3. CASE PickTarget(l)
  BY <1>1, <1>3 DEF PickTarget, Fault, Exists
<1> QED BY <1>2, <1>3 DEF NextTarget

LEMMA OpenSourceFrame ==
    ASSUME TypeInv, OpenSource
    PROVE  /\ run.pc = "open"
           /\ \/ Ends
              \/ /\ run.source /\ At(run.cur, InitLoc) # Absent
                 /\ run'.pc = (IF run.loc \in Encrypted THEN "getkey" ELSE "create")
                 /\ SameLocation /\ run'.key = run.key /\ run'.iv = run.iv
                 /\ UNCHANGED <<disk, db, faults>>
<1>1. run.pc = "open" /\ run.pc \in RowPcs
  BY DEF OpenSource, RowPcs
<1>2. CASE /\ run.source
           /\ At(run.cur, InitLoc) # Absent
           /\ Goto([run EXCEPT !.pc = IF run.loc \in Encrypted THEN "getkey" ELSE "create"])
  BY <1>1, <1>2
     DEF Goto, NoFault, TypeInv, TypeOK, RunState, SameLocation, SameBagit, SameLoop
<1> QED BY <1>1, <1>2, EndsOf DEF OpenSource

LEMMA KeyStepFrame ==
    ASSUME TypeInv, GetKey \/ SetKey \/ GetIV \/ SetIV \/ NewCipher
    PROVE  /\ run.pc \in {"getkey", "setkey", "getiv", "setiv", "cipher"}
           /\ \/ Ends
              \/ /\ run'.pc \in {"setkey", "getiv", "setiv", "cipher", "create"}
                 /\ SameLocation
                 /\ UNCHANGED <<file, db>>
<1> USE DEF TypeInv, TypeOK, RunState, SameLocation, SameBagit, SameLoop
<1>1. /\ run.pc \in {"getkey", "setkey", "getiv", "setiv", "cipher"}
      /\ run.pc \in RowPcs
  BY DEF GetKey, SetKey, GetIV, SetIV, NewCipher, RowPcs
<1>2. CASE GetKey
  <2>1. CASE Goto([run EXCEPT !.pc = "getiv", !.key = keyFile[run.cur]])
    BY <1>1, <2>1 DEF Goto, disk
  <2>2. CASE run' = [run EXCEPT !.pc = "setkey"] /\ UNCHANGED <<disk, db>>
    BY <1>1, <2>2 DEF disk
  <2> QED BY <1>1, <1>2, <2>1, <2>2 DEF GetKey
<1>3. CASE SetKey
  <2>1. TearKey => Ends
    BY DEF TearKey, Exit, Ends, db
  <2>2. ASSUME NEW k \in Keys, WriteKey(k)
        PROVE  run'.pc = "getiv" /\ SameLocation /\ UNCHANGED <<file, db>>
    BY <2>2 DEF WriteKey
  <2> QED BY <1>1, <1>3, <2>1, <2>2, EndsOf DEF SetKey
<1>4. CASE GetIV
  <2>1. CASE Goto([run EXCEPT !.pc = "cipher", !.iv = ivFile[run.cur]])
    BY <1>1, <2>1 DEF Goto, disk
  <2>2. CASE run' = [run EXCEPT !.pc = "setiv"] /\ UNCHANGED <<disk, db>>
    BY <1>1, <2>2 DEF disk
  <2> QED BY <1>1, <1>4, <2>1, <2>2 DEF GetIV
<1>5. CASE SetIV
  <2>1. TearIV => Ends
    BY DEF TearIV, Exit, Ends, db
  <2>2. ASSUME NEW i \in IVs, WriteIV(i)
        PROVE  run'.pc = "cipher" /\ SameLocation /\ UNCHANGED <<file, db>>
    BY <2>2 DEF WriteIV
  <2> QED BY <1>1, <1>5, <2>1, <2>2, EndsOf DEF SetIV
<1>6. CASE NewCipher
  BY <1>1, <1>6, EndsOf DEF NewCipher, Goto, disk
<1> QED BY <1>2, <1>3, <1>4, <1>5, <1>6

LEMMA CreateTargetFrame ==
    ASSUME TypeInv, CreateTarget
    PROVE  /\ run.pc = "create"
           /\ \/ Ends
              \/ /\ run'.pc = "copy" /\ SameLocation
                 /\ run'.key = run.key /\ run'.iv = run.iv
                 /\ file' = [file EXCEPT ![run.cur][run.loc] = Partial]
                 /\ UNCHANGED <<keyFile, ivFile, db, faults>>
<1>1. run.pc = "create" /\ run.pc \in RowPcs
  BY DEF CreateTarget, RowPcs
<1>2. CASE WriteTarget(Partial, [run EXCEPT !.pc = "copy"])
  BY <1>1, <1>2
     DEF WriteTarget, NoFault, TypeInv, TypeOK, RunState, SameLocation, SameBagit, SameLoop
<1> QED BY <1>1, <1>2, EndsOf DEF CreateTarget

LEMMA CopyStreamFrame ==
    ASSUME TypeInv, CopyStream
    PROVE  /\ run.pc = "copy"
           /\ \/ Ends
              \/ /\ run'.pc = "verify" /\ SameLocation
                 /\ run'.key = run.key /\ run'.iv = run.iv /\ run'.hash = Stream
                 /\ file' = [file EXCEPT ![run.cur][run.loc] = Stream]
                 /\ UNCHANGED <<keyFile, ivFile, db, faults>>
<1> DEFINE next == [run EXCEPT !.pc = "verify", !.hash = Digest(Stream)]
<1>1. run.pc = "copy" /\ run.pc \in RowPcs
  BY DEF CopyStream, RowPcs
<1>2. CASE WriteTarget(Stream, next)
  <2>1. run' = next /\ file' = [file EXCEPT ![run.cur][run.loc] = Stream]
        /\ UNCHANGED <<keyFile, ivFile, db, faults>>
    BY <1>2 DEF WriteTarget, NoFault
  <2>2. run'.pc = "verify" /\ run'.hash = Stream /\ SameLocation
        /\ run'.key = run.key /\ run'.iv = run.iv
    BY <1>1, <2>1 DEF TypeInv, TypeOK, RunState, Digest, SameLocation, SameBagit, SameLoop
  <2> QED BY <1>1, <2>1, <2>2
<1> QED BY <1>1, <1>2, EndsOf DEF CopyStream

LEMMA VerifyStreamFrame ==
    ASSUME TypeInv, VerifyStream
    PROVE  /\ run.pc = "verify" /\ SameBagit /\ run'.locs = run.locs
           /\ UNCHANGED <<disk, rows, sha, content, transfer, test, fresh>>
           /\ \/ /\ run.loc \in Encrypted /\ run.aes = NoDigest
                 /\ run'.pc = "store" /\ run'.loc = run.loc /\ run'.hash = run.hash
                 /\ run'.aes = run.hash
                 /\ \/ aes' = [aes EXCEPT ![run.cur] = run.hash]
                    \/ "dbwrite" \in FaultKinds /\ UNCHANGED aes
              \/ /\ ~ (run.loc \in Encrypted /\ run.aes = NoDigest)
                 /\ run.hash = Expected
                 /\ run'.pc = "store" /\ run'.loc = run.loc /\ run'.hash = run.hash
                 /\ run'.aes = run.aes /\ UNCHANGED <<aes, faults>>
              \/ /\ ~ (run.loc \in Encrypted /\ run.aes = NoDigest)
                 /\ run.hash # Expected
                 /\ run'.pc = "target" /\ run'.loc = None
                 /\ run'.key = Missing /\ run'.iv = Missing
                 /\ run'.aes = run.aes /\ UNCHANGED <<aes, faults>>
<1> USE DEF TypeInv, TypeOK, RunState, SameBagit, SameLoop
<1>1. run.pc = "verify"
  BY DEF VerifyStream
<1>2. CASE RecordDigest
  BY <1>1, <1>2 DEF RecordDigest, Fault
<1>3. CASE CompareDigest
  <2>1. CASE run.hash = Expected
    BY <1>1, <1>3, <2>1 DEF CompareDigest, Goto, NoFault, db
  <2>2. CASE run.hash # Expected
    BY <1>1, <1>3, <2>2 DEF CompareDigest, Goto, NoFault, NextLocation, db
  <2> QED BY <2>1, <2>2
<1> QED BY <1>2, <1>3 DEF VerifyStream

LEMMA StoreOkFrame ==
    ASSUME TypeInv, StoreOk
    PROVE  /\ run.pc = "store"
           /\ \/ Ends
              \/ /\ run'.pc = "target" /\ SameBagit
                 /\ run'.locs = run.locs /\ run'.loc = None /\ run'.aes = run.aes
                 /\ run'.key = Missing /\ run'.iv = Missing
                 /\ transfer' = [transfer EXCEPT ![run.cur][run.loc] = "ok"]
                 /\ UNCHANGED <<disk, rows, sha, aes, content, test, fresh, faults>>
<1>1. run.pc = "store"
  BY DEF StoreOk
<1>2. CASE OkRow
  BY <1>1, <1>2 DEF OkRow, SetRow, NextLocation, NoFault, TypeInv, TypeOK, RunState,
                    SameBagit, SameLoop
<1> QED BY <1>1, <1>2, EndsOf DEF StoreOk

LEMMA BeginChecksFrame ==
    ASSUME TypeInv, BeginChecks
    PROVE  /\ run.pc = "next" /\ run.phase = "check" /\ run.page # <<>>
           /\ run'.pc = "test" /\ run'.page = Tail(run.page) /\ SameLoop
           /\ run'.cur = Head(run.page).name /\ run'.aes = Head(run.page).aes
           /\ run'.locs = run.known
           /\ UNCHANGED <<disk, db, faults>>
BY DEF BeginChecks, HasBagit, BeginBagit, Goto, NoFault, TypeInv, TypeOK, RunState, SameLoop

LEMMA NextTestFrame ==
    ASSUME TypeInv, NEW l \in Locations, NextTest(l)
    PROVE  /\ run.pc = "test"
           /\ UNCHANGED <<disk, db>>
           /\ \/ Ends
              \/ /\ SameBagit /\ run'.aes = run.aes /\ run'.locs = run.locs \ {l}
                 /\ run'.pc = "test" \/ (run'.pc = "read" /\ run'.loc = l)
<1> USE DEF TypeInv, TypeOK, RunState, SameBagit, SameLoop
<1>1. Abort \/ Fails("dbread") => Ends /\ UNCHANGED <<disk, db>>
  BY EndsOf DEF Abort, Fails
<1>2. run.pc = "test"
  BY DEF NextTest
<1>3. CASE Goto([run EXCEPT !.locs = @ \ {l}])
  BY <1>2, <1>3 DEF Goto
<1>4. CASE Goto([run EXCEPT !.pc = "read", !.locs = @ \ {l}, !.loc = l])
  BY <1>2, <1>4 DEF Goto
<1> QED BY <1>1, <1>2, <1>3, <1>4 DEF NextTest

LEMMA ReadCopyFrame ==
    ASSUME TypeInv, ReadCopy
    PROVE  /\ run.pc = "read" /\ run'.pc = "result" /\ SameLocation
           /\ run'.hash = At(run.cur, run.loc) \/ run'.hash = NoDigest
           /\ UNCHANGED <<disk, db>>
<1> USE DEF TypeInv, TypeOK, RunState, SameLocation, SameBagit, SameLoop
<1>1. CASE Goto([run EXCEPT !.pc = "result", !.hash = Digest(At(run.cur, run.loc))])
  BY <1>1 DEF ReadCopy, Goto, Digest
<1>2. CASE /\ run' = [run EXCEPT !.pc = "result", !.hash = NoDigest]
           /\ UNCHANGED <<disk, db>>
  BY <1>2 DEF ReadCopy
<1> QED BY <1>1, <1>2 DEF ReadCopy

LEMMA StoreResultFrame ==
    ASSUME TypeInv, StoreResult
    PROVE  /\ run.pc = "result"
           /\ \/ Ends
              \/ /\ run'.pc = "test" /\ SameBagit /\ run'.aes = run.aes /\ run'.locs = run.locs
                 /\ run'.loc = None
                 /\ test' = [test EXCEPT ![run.cur][run.loc] = Verdict]
                 /\ UNCHANGED <<disk, rows, sha, aes, content, transfer, faults>>
<1>1. run.pc = "result"
  BY DEF StoreResult
<1>2. CASE TestRow
  BY <1>1, <1>2 DEF TestRow, NoFault, TypeInv, TypeOK, RunState, SameBagit, SameLoop
<1> QED BY <1>1, <1>2, EndsOf DEF StoreResult

LEMMA WalkZipFrame ==
    ASSUME TypeInv, NEW b \in Bagits, WalkZip(b)
    PROVE  /\ run.pc = "walk" /\ UNCHANGED <<disk, db>>
           /\ \/ Ends
              \/ run'.pc = "walk" /\ SameBagit
              \/ /\ run'.pc = "sum" /\ SameLoop /\ run'.page = run.page /\ run'.cur = b
                 /\ ~ Registered(b) /\ file[b][InitLoc] = Plain(0)
<1> USE DEF TypeInv, TypeOK, RunState, SameBagit, SameLoop
<1>1. run.pc = "walk"
  BY DEF WalkZip
<1>2. Abort \/ Fails("dbread") \/ Fails("io") => Ends /\ UNCHANGED <<disk, db>>
  BY EndsOf DEF Abort, Fails
<1>3. CASE SkipZip(b)
  BY <1>1, <1>3 DEF SkipZip, Goto
<1>4. CASE AcceptZip(b)
  BY <1>1, <1>4 DEF AcceptZip, DeepCheck, Goto
<1> QED BY <1>1, <1>2, <1>3, <1>4 DEF WalkZip, RejectZip

LEMMA SumZipFrame ==
    ASSUME TypeInv, SumZip
    PROVE  /\ run.pc = "sum" /\ UNCHANGED <<disk, db>>
           /\ \/ Ends
              \/ run'.pc = "insert" /\ SameBagit /\ run'.hash = file[run.cur][InitLoc]
<1> USE DEF TypeInv, TypeOK, RunState, SameBagit, SameLoop
<1> DEFINE next == [run EXCEPT !.pc = "insert", !.hash = Digest(file[run.cur][InitLoc])]
<1>1. run.pc = "sum"
  BY DEF SumZip
<1>2. CASE Goto(next)
  BY <1>1, <1>2 DEF Goto, Digest
<1>3. CASE Fails("io")
  BY <1>1, <1>3, EndsOf DEF Fails
<1> QED BY <1>2, <1>3 DEF SumZip

LEMMA InsertBagitFrame ==
    ASSUME TypeInv, InsertBagit
    PROVE  /\ run.pc = "insert"
           /\ \/ Ends
              \/ /\ run'.pc = "init" /\ SameBagit /\ ~ Registered(run.cur)
                 /\ rows' = Append(rows, run.cur)
                 /\ sha' = [sha EXCEPT ![run.cur] = run.hash]
                 /\ UNCHANGED <<disk, aes, content, transfer, test, fresh, faults>>
<1> USE DEF TypeInv, TypeOK, RunState, SameBagit, SameLoop
<1>1. run.pc = "insert"
  BY DEF InsertBagit
<1>2. CASE ~ Registered(run.cur) /\ InsertRow
  BY <1>1, <1>2 DEF InsertRow, NoFault
<1> QED BY <1>1, <1>2, EndsOf DEF InsertBagit, DuplicateRow

LEMMA StoreInitFrame ==
    ASSUME TypeInv, StoreInitLocation
    PROVE  /\ run.pc = "init"
           /\ \/ Ends /\ "dbwrite" \in FaultKinds
              \/ /\ run'.pc = "content" /\ SameBagit /\ run'.left = NumContent
                 /\ transfer' = [transfer EXCEPT ![run.cur][InitLoc] = "ok"]
                 /\ UNCHANGED <<disk, rows, sha, aes, content, test, fresh, faults>>
<1> USE DEF TypeInv, TypeOK, RunState, SameBagit, SameLoop
<1>1. run.pc = "init"
  BY DEF StoreInitLocation
<1>2. CASE StoreInitRow
  BY <1>1, <1>2 DEF StoreInitRow, NoFault
<1> QED BY <1>1, <1>2, EndsOf DEF StoreInitLocation, Fails, Fault

LEMMA AddContentFrame ==
    ASSUME TypeInv, AddContent
    PROVE  /\ run.pc = "content" /\ run'.pc = "content" /\ SameBagit
           /\ run.left > 0 /\ run'.left = run.left - 1
           /\ UNCHANGED <<disk, rows, sha, aes, transfer, test, fresh>>
           /\ \/ content' = [content EXCEPT ![run.cur] = @ + 1]
              \/ "dbwrite" \in FaultKinds /\ UNCHANGED content
<1> USE DEF TypeInv, TypeOK, RunState, SameBagit, SameLoop
<1>1. run' = [run EXCEPT !.left = @ - 1]
  BY DEF AddContent
<1>2. run'.pc = run.pc /\ SameBagit /\ run'.left = run.left - 1
  BY <1>1
<1> QED BY <1>2 DEF AddContent, Fault

LEMMA ZipDoneFrame ==
    ASSUME TypeInv, ZipDone
    PROVE  /\ run.pc = "content" /\ run.left = 0
           /\ run'.pc = "walk" /\ SameLoop /\ run'.page = run.page /\ run'.cur = None
           /\ UNCHANGED <<disk, db, faults>>
BY DEF ZipDone, Goto, NoFault, TypeInv, TypeOK, RunState, SameLoop

\* The memory of a phase that begins.
Begins(phase, pc) ==
    /\ run'.pc = pc /\ run'.phase = phase /\ run'.page = <<>> /\ run'.cur = None
    /\ run'.start = 0 /\ run'.loc = None /\ run'.aes = NoDigest /\ run'.hash = NoDigest
    /\ run'.key = Missing /\ run'.iv = Missing

LEMMA EnterPhaseFrame ==
    ASSUME NEW phase, NEW pc, Goto(EnterPhase(phase, pc))
    PROVE  Begins(phase, pc) /\ run'.known = run.known /\ UNCHANGED <<disk, db, faults>>
BY DEF Goto, NoFault, EnterPhase, Idle, Begins

LEMMA StartRunFrame ==
    ASSUME StartRun
    PROVE  /\ run.pc = "idle" /\ UNCHANGED <<disk, db>>
           /\ \/ run' = Idle
              \/ /\ Begins("ingest", "walk")
                 /\ run'.known = Locations \/ "dbcut" \in FaultKinds
<1>1. ASSUME NEW locations, NEW checksum, LoadAll(locations, checksum)
      PROVE  run' = Idle \/ (Begins("ingest", "walk") /\ run'.known = locations)
  BY <1>1 DEF LoadAll, Idle, Begins
<1> QED BY <1>1 DEF StartRun, Exit, Fault

LEMMA CountRowsFrame ==
    ASSUME TypeInv, CountRows
    PROVE  /\ run.pc = "count" /\ UNCHANGED <<disk, db>>
           /\ \/ Ends
              \/ /\ run'.pc = "load" /\ run'.start = 0 /\ run'.n = Len(rows)
                 /\ run'.phase = run.phase /\ run'.known = run.known /\ run'.page = run.page
                 /\ run'.key = run.key /\ run'.iv = run.iv /\ run'.loc = run.loc
<1> USE DEF TypeInv, TypeOK, RunState
<1>1. run.pc = "count"
  BY DEF CountRows
<1>2. CASE Goto([run EXCEPT !.pc = "load", !.n = Len(rows), !.start = 0])
  BY <1>1, <1>2 DEF Goto
<1>3. CASE Fails("dbread")
  BY <1>1, <1>3, EndsOf DEF Fails
<1> QED BY <1>2, <1>3 DEF CountRows

LEMMA LoadPageFrame ==
    ASSUME TypeInv, LoadPage
    PROVE  /\ run.pc = "load" /\ UNCHANGED <<disk, db>>
           /\ \/ Ends
              \/ /\ run.start < run.n
                 /\ run'.pc = "next" /\ run'.start = run.start + PageSize /\ run'.n = run.n
                 /\ run'.phase = run.phase /\ run'.known = run.known
                 /\ run'.key = run.key /\ run'.iv = run.iv /\ run'.loc = run.loc
                 /\ \/ run'.page = Page(run.start)
                    \/ /\ "dbcut" \in FaultKinds
                       /\ \E cut \in 0 .. Len(Page(run.start)) :
                             run'.page = SubSeq(Page(run.start), 1, cut)
              \/ /\ run.start >= run.n /\ run.phase = "transfer"
                 /\ Begins("check", "count") /\ run'.known = run.known
<1>1. ASSUME NEW page
      PROVE  /\ WithPage(page).pc = "next" /\ WithPage(page).start = run.start + PageSize
             /\ WithPage(page).n = run.n /\ WithPage(page).phase = run.phase
             /\ WithPage(page).known = run.known /\ WithPage(page).page = page
             /\ WithPage(page).key = run.key /\ WithPage(page).iv = run.iv
             /\ WithPage(page).loc = run.loc
  BY DEF WithPage, TypeInv, TypeOK, RunState
<1>2. CASE ReadPage
  <2>1. run.pc = "load" /\ run.start < run.n
    BY <1>2 DEF ReadPage
  <2>2. CASE Goto(WithPage(Page(run.start)))
    BY <1>1, <2>1, <2>2 DEF Goto
  <2>3. CASE CutPage
    <3>1. PICK cut \in 0 .. Len(Page(run.start)) :
               run' = WithPage(SubSeq(Page(run.start), 1, cut))
      BY <2>3 DEF CutPage
    <3>2. "dbcut" \in FaultKinds /\ UNCHANGED <<disk, db>>
      BY <2>3 DEF CutPage, Fault
    <3> QED BY <1>1, <2>1, <3>1, <3>2
  <2>4. CASE Fails("dbread")
    BY <2>1, <2>4, EndsOf DEF Fails
  <2> QED BY <1>2, <2>2, <2>3, <2>4 DEF ReadPage
<1>3. CASE PagesDone /\ Goto(NextPhase)
  <2>1. run.pc = "load" /\ run.start >= run.n /\ UNCHANGED <<disk, db>>
    BY <1>3 DEF PagesDone, Goto
  <2>2. CASE run.phase = "transfer" /\ run.checksum
    <3>1. Goto(EnterPhase("check", "count"))
      BY <1>3, <2>2 DEF NextPhase
    <3> QED BY <2>1, <2>2, <3>1, EnterPhaseFrame
  <2>3. CASE ~ (run.phase = "transfer" /\ run.checksum)
    BY <1>3, <2>1, <2>3 DEF NextPhase, Goto, Ends, disk, db
  <2> QED BY <2>2, <2>3
<1> QED BY <1>2, <1>3 DEF LoadPage

LEMMA EndOfPageFrame ==
    ASSUME TypeInv, EndOfPage
    PROVE  /\ run.pc = "next" /\ run.page = <<>>
           /\ run'.pc = "load" /\ SameLocation
           /\ run'.key = run.key /\ run'.iv = run.iv
           /\ UNCHANGED <<disk, db, faults>>
BY DEF EndOfPage, Goto, NoFault, TypeInv, TypeOK, RunState, SameLocation, SameBagit, SameLoop

(***************************************************************************)
(* The rows of table bagit, the page and the bagit in hand.                *)
(***************************************************************************)
OnPage == {run.page[i].name : i \in 1 .. Len(run.page)}

RowsOnce == \A i, j \in 1 .. Len(rows) : rows[i] = rows[j] => i = j

PhaseOf ==
    /\ run.pc = "idle" => run = Idle
    /\ run.pc \in WalkPcs => run.phase = "ingest"
    /\ run.pc \in RowPcs \cup {"target"} => run.phase = "transfer"
    /\ run.pc \in CheckPcs => run.phase = "check"
    /\ run.pc \in {"count", "load", "next"} => run.phase \in {"transfer", "check"}
    /\ run.pc \notin PagePcs \cup {"next"} => run.page = <<>>

PageCurrent ==
    /\ \A i \in 1 .. Len(run.page) : run.page[i].aes = aes[run.page[i].name]
    /\ \A i, j \in 1 .. Len(run.page) : run.page[i].name = run.page[j].name => i = j

\* The digest in hand is the one of the table, unless the UPDATE has failed.
InHand ==
    run.pc \in PagePcs =>
        /\ run.cur \in InRows
        /\ run.cur \notin OnPage
        /\ \/ run.aes = aes[run.cur]
           \/ /\ "dbwrite" \in FaultKinds /\ run.phase = "transfer"
              /\ aes[run.cur] = NoDigest

PageInv == RowsOnce /\ PhaseOf /\ PageCurrent /\ InHand

LEMMA PcClasses ==
    /\ WalkPcs \cap (PagePcs \cup {"idle", "count", "load", "next"}) = {}
    /\ PagePcs \cap {"idle", "count", "load", "next"} = {}
    /\ (RowPcs \cup {"target"}) \cap CheckPcs = {}
BY DEF WalkPcs, PagePcs, RowPcs, CheckPcs

LEMMA PageEnds ==
    ASSUME PageInv, UNCHANGED <<rows, aes>>, run' = Idle
    PROVE  PageInv'
<1>1. run'.pc = "idle" /\ run'.page = <<>>
  BY DEF Idle
<1> QED BY <1>1 DEF PageInv, RowsOnce, PhaseOf, PageCurrent, InHand, WalkPcs, PagePcs, RowPcs, CheckPcs

\* A phase begins, or a page is not loaded yet.
LEMMA PageEmpty ==
    ASSUME PageInv, UNCHANGED <<rows, aes>>, run'.page = <<>>,
           \/ run'.pc \in {"count", "load"} /\ run'.phase \in {"transfer", "check"}
           \/ run'.pc \in WalkPcs /\ run'.phase = "ingest"
    PROVE  PageInv'
BY DEF PageInv, RowsOnce, PhaseOf, PageCurrent, InHand, WalkPcs, PagePcs, RowPcs, CheckPcs

\* The bagit in hand stays in hand.
LEMMA PageInside ==
    ASSUME PageInv, UNCHANGED <<rows, aes>>, SameBagit, run'.aes = run.aes,
           \/ run.pc \in RowPcs \cup {"target"} /\ run'.pc \in RowPcs \cup {"target"}
           \/ run.pc \in CheckPcs /\ run'.pc \in CheckPcs
    PROVE  PageInv'
<1>1. InRows' = InRows /\ OnPage' = OnPage
  BY DEF InRows, Registered, SameBagit, OnPage
<1> QED BY <1>1 DEF PageInv, RowsOnce, PhaseOf, PageCurrent, InHand, SameBagit, SameLoop,
                    WalkPcs, PagePcs, RowPcs, CheckPcs

LEMMA SeqItems ==
    ASSUME NEW S, NEW s \in Seq(S)
    PROVE  \A i \in 1 .. Len(s) : s[i] \in S
BY LenProperties

LEMMA TailItems ==
    ASSUME NEW S, NEW s \in Seq(S), s # <<>>
    PROVE  /\ 1 \in 1 .. Len(s) /\ Head(s) = s[1] /\ Head(s) \in S
           /\ \A i \in 1 .. Len(Tail(s)) : i + 1 \in 1 .. Len(s) /\ i + 1 # 1 /\ Tail(s)[i] = s[i + 1]
           /\ \A i \in 1 .. Len(s) : i = 1 \/ \E j \in 1 .. Len(Tail(s)) : i = j + 1
<1>1. /\ Len(s) \in Nat \ {0} /\ Len(Tail(s)) = Len(s) - 1
      /\ \A i \in 1 .. Len(Tail(s)) : Tail(s)[i] = s[i + 1]
      /\ Head(s) = s[1] /\ Head(s) \in S
  BY HeadTailProperties, EmptySeq, LenProperties
<1>2. ASSUME NEW i \in 1 .. Len(s), i # 1
      PROVE  \E j \in 1 .. Len(Tail(s)) : i = j + 1
  <2>1. i - 1 \in 1 .. Len(Tail(s)) /\ i = (i - 1) + 1
    BY <1>1, <1>2
  <2> QED BY <2>1
<1> QED BY <1>1, <1>2

\* The bagit in hand is the first of the page.
LEMMA PageBegins ==
    ASSUME TypeInv, WrittenInv, PageInv, UNCHANGED <<rows, aes>>, run.page # <<>>, SameLoop,
           run'.page = Tail(run.page),
           run'.cur = Head(run.page).name, run'.aes = Head(run.page).aes,
           \/ run'.pc = "target" /\ run.phase = "transfer"
           \/ run'.pc = "test" /\ run.phase = "check"
    PROVE  /\ PageInv' /\ OnPage = OnPage' \cup {run'.cur}
           /\ run'.cur \in InRows /\ run'.aes = aes[run'.cur]
<1>1. run.page \in Seq([name : InRows, aes : Content])
  BY DEF WrittenInv, ZipsWhole
<1>2. /\ 1 \in 1 .. Len(run.page)
      /\ Head(run.page) = run.page[1] /\ Head(run.page) \in [name : InRows, aes : Content]
      /\ \A i \in 1 .. Len(run'.page) :
            i + 1 \in 1 .. Len(run.page) /\ i + 1 # 1 /\ run'.page[i] = run.page[i + 1]
      /\ \A i \in 1 .. Len(run.page) : i = 1 \/ \E j \in 1 .. Len(run'.page) : i = j + 1
  <2> DEFINE page == run.page
             left == run'.page
             S == [name : InRows, aes : Content]
  <2>1. page \in Seq(S) /\ page # <<>> /\ left = Tail(page)
    BY <1>1
  <2> HIDE DEF page, left, S
  <2>2. /\ 1 \in 1 .. Len(page) /\ Head(page) = page[1] /\ Head(page) \in S
        /\ \A i \in 1 .. Len(left) : i + 1 \in 1 .. Len(page) /\ i + 1 # 1 /\ left[i] = page[i + 1]
        /\ \A i \in 1 .. Len(page) : i = 1 \/ \E j \in 1 .. Len(left) : i = j + 1
    BY <2>1, TailItems
  <2> QED BY <2>2 DEF page, left, S
<1>3. InRows' = InRows /\ run'.cur \in InRows
  BY <1>2 DEF InRows, Registered
<1>5. OnPage = OnPage' \cup {run'.cur}
  BY <1>2 DEF OnPage
<1>6. PageCurrent'
  <2>1. \A i, j \in 1 .. Len(run'.page) : i + 1 = j + 1 => i = j
    OBVIOUS
  <2> QED BY <1>2, <2>1 DEF PageInv, PageCurrent
<1>7. run'.cur \notin OnPage' /\ run'.aes = aes[run'.cur]
  BY <1>2 DEF PageInv, PageCurrent, OnPage
<1>8. RowsOnce' /\ PhaseOf' /\ InHand'
  BY <1>3, <1>7, PcClasses DEF PageInv, RowsOnce, PhaseOf, InHand, SameLoop, WalkPcs, PagePcs, RowPcs, CheckPcs
<1> QED BY <1>3, <1>5, <1>6, <1>7, <1>8 DEF PageInv

\* The callback has returned, or the page has not begun.
LEMMA PageReturns ==
    ASSUME PageInv, UNCHANGED <<rows, aes>>, run'.pc = "next", run'.page = run.page,
           run'.phase = run.phase, run.phase \in {"transfer", "check"}
    PROVE  PageInv'
BY DEF PageInv, RowsOnce, PhaseOf, PageCurrent, InHand, WalkPcs, PagePcs, RowPcs, CheckPcs

LEMMA PageItems ==
    ASSUME TablesOK, NEW start \in Nat
    PROVE  /\ Page(start) \in Seq([name : InRows, aes : Content])
           /\ \A i \in 1 .. Len(Page(start)) :
                 /\ start + i \in 1 .. Len(rows)
                 /\ Page(start)[i].name = rows[start + i]
                 /\ Page(start)[i].aes = aes[rows[start + i]]
           /\ \A k \in 1 .. Len(rows) : start < k /\ k <= start + PageSize =>
                 \E i \in 1 .. Len(Page(start)) : Page(start)[i].name = rows[k]
<1> DEFINE last == LastOfPage(start)
<1>1. rows \in Seq(InRows) /\ Len(rows) \in Nat
  <2>1. rows \in [1 .. Len(rows) -> InRows] /\ Len(rows) \in Nat
    BY DEF TablesOK, InRows, Registered
  <2> QED BY <2>1, FunctionIsSeq
<1>2. Page(start) \in Seq([name : InRows, aes : Content])
  BY <1>1, PageOf DEF InRows
<1>3. /\ last \in Nat /\ last <= Len(rows)
      /\ \A k \in 1 .. Len(rows) : k <= start + PageSize => k <= last
  BY <1>1, BoundsAssumption DEF LastOfPage
<1>4. 1 .. Len(Page(start)) = 1 .. last - start
  <2>1. DOMAIN Page(start) = 1 .. last - start
    BY DEF Page
  <2> QED BY <1>2, <2>1, LenProperties
<1>5. \A i \in 1 .. Len(Page(start)) : start + i \in 1 .. Len(rows)
  BY <1>1, <1>3, <1>4
<1>6. \A i \in 1 .. Len(Page(start)) :
         Page(start)[i].name = rows[start + i] /\ Page(start)[i].aes = aes[rows[start + i]]
  BY <1>4 DEF Page
<1>7. ASSUME NEW k \in 1 .. Len(rows), start < k, k <= start + PageSize
      PROVE  \E i \in 1 .. Len(Page(start)) : Page(start)[i].name = rows[k]
  <2>1. k - start \in 1 .. Len(Page(start)) /\ start + (k - start) = k
    BY <1>1, <1>3, <1>4, <1>7
  <2> QED BY <1>6, <2>1
<1> QED BY <1>2, <1>5, <1>6, <1>7

\* What CutPage leaves of a page.
LEMMA PagePrefix ==
    ASSUME TablesOK, NEW start \in Nat, NEW page,
           \/ page = Page(start)
           \/ \E cut \in 0 .. Len(Page(start)) : page = SubSeq(Page(start), 1, cut)
    PROVE  \A i \in 1 .. Len(page) :
              /\ start + i \in 1 .. Len(rows)
              /\ page[i].name = rows[start + i]
              /\ page[i].aes = aes[rows[start + i]]
<1> DEFINE IsRow(item, k) ==
               k \in 1 .. Len(rows) /\ item.name = rows[k] /\ item.aes = aes[rows[k]]
<1>1. \A i \in 1 .. Len(Page(start)) : IsRow(Page(start)[i], start + i)
  BY PageItems
<1>2. ASSUME NEW cut \in 0 .. Len(Page(start)), page = SubSeq(Page(start), 1, cut)
      PROVE  \A i \in 1 .. Len(page) : i \in 1 .. Len(Page(start)) /\ page[i] = Page(start)[i]
  <2> DEFINE whole == Page(start)
             S == [name : InRows, aes : Content]
  <2>1. whole \in Seq(S)
    BY PageItems
  <2> HIDE DEF whole, S
  <2>2. Len(whole) \in Nat
    BY <2>1, LenProperties
  <2>3. cut \in 0 .. Len(whole)
    BY DEF whole
  <2>4. \A i \in 1 .. cut : whole[i] \in S
    BY <2>1, <2>2, <2>3, LenProperties
  <2>5. Len(SubSeq(whole, 1, cut)) = cut /\ \A i \in 1 .. cut : SubSeq(whole, 1, cut)[i] = whole[i]
    <3> DEFINE prefix == SubSeq(whole, 1, cut)
    <3>1. 1 \in Int /\ cut \in Int /\ cut - 1 + 1 = cut
      BY <2>2, <2>3
    <3>2. /\ Len(prefix) = IF 1 <= cut THEN cut - 1 + 1 ELSE 0
          /\ \A i \in 1 .. cut - 1 + 1 : prefix[i] = whole[1 + i - 1]
      BY <2>4, <3>1, SubSeqProperties
    <3> HIDE DEF prefix
    <3>3. Len(prefix) = cut
      BY <2>2, <2>3, <3>2
    <3>4. \A i \in 1 .. cut : i \in 1 .. cut - 1 + 1 /\ 1 + i - 1 = i
      BY <2>3, <3>1
    <3>5. \A i \in 1 .. cut : prefix[i] = whole[i]
      BY <3>2, <3>4
    <3> QED BY <3>3, <3>5 DEF prefix
  <2> QED BY <1>2, <2>2, <2>3, <2>5 DEF whole
<1> HIDE DEF IsRow
<1>3. \A i \in 1 .. Len(page) : IsRow(page[i], start + i)
  <2>1. CASE page = Page(start)
    BY <1>1, <2>1
  <2>2. ASSUME NEW cut \in 0 .. Len(Page(start)), page = SubSeq(Page(start), 1, cut)
        PROVE  \A i \in 1 .. Len(page) : IsRow(page[i], start + i)
    BY <1>1, <1>2, <2>2
  <2> QED BY <2>1, <2>2
<1> QED BY <1>3 DEF IsRow

LEMMA IngestKeepsPage ==
    ASSUME TypeInv, WrittenInv, PageInv, IngestStep
    PROVE  PageInv'
<1>1. ASSUME UNCHANGED <<rows, aes>>, run.pc \in WalkPcs, run'.pc \in WalkPcs, SameLoop,
             run'.page = run.page
      PROVE  PageInv'
  <2>1. run.page = <<>> /\ run.phase = "ingest"
    BY <1>1, PcClasses DEF PageInv, PhaseOf
  <2> QED BY <1>1, <2>1, PageEmpty DEF SameLoop
<1>2. Ends => PageInv'
  BY PageEnds DEF Ends
<1>3. ASSUME NEW b \in Bagits, WalkZip(b) PROVE PageInv'
  BY <1>1, <1>2, <1>3, WalkZipFrame DEF WalkPcs, SameBagit, db
<1>4. CASE SumZip
  BY <1>1, <1>2, <1>4, SumZipFrame DEF WalkPcs, SameBagit, db
<1>5. CASE InsertBagit
  <2>1. /\ run.pc = "insert" /\ run'.pc = "init" /\ SameBagit /\ ~ Registered(run.cur)
        /\ rows' = Append(rows, run.cur) /\ UNCHANGED aes
        \/ Ends
    BY <1>5, InsertBagitFrame
  <2>2. ASSUME run.pc = "insert", run'.pc = "init", SameBagit, ~ Registered(run.cur),
               rows' = Append(rows, run.cur), UNCHANGED aes
        PROVE  PageInv'
    <3>1. run.page = <<>> /\ run.phase = "ingest" /\ run'.page = <<>> /\ run'.phase = "ingest"
      BY <2>2 DEF PageInv, PhaseOf, SameBagit, SameLoop, WalkPcs, PagePcs, RowPcs, CheckPcs
    <3>2. RowsOnce'
      <4>1. rows \in Seq(Bagits) /\ run.cur \in Bagits
        BY <2>2 DEF TypeInv, TypeOK, TablesOK, Holds, AtBagit
      <4>2. \A k \in 1 .. Len(rows) : rows[k] # run.cur
        BY <2>2 DEF Registered
      <4>3. /\ Len(rows') = Len(rows) + 1 /\ rows'[Len(rows) + 1] = run.cur
            /\ \A k \in 1 .. Len(rows) : rows'[k] = rows[k]
        BY <2>2, <4>1
      <4>4. \A k \in 1 .. Len(rows') : k \in 1 .. Len(rows) \/ k = Len(rows) + 1
        BY <4>1, <4>3
      <4> QED BY <4>2, <4>3, <4>4 DEF PageInv, RowsOnce
    <3> QED BY <2>2, <3>1, <3>2
            DEF PageInv, PhaseOf, PageCurrent, InHand, WalkPcs, PagePcs, RowPcs, CheckPcs
  <2> QED BY <1>2, <2>1, <2>2
<1>6. CASE StoreInitLocation
  BY <1>1, <1>2, <1>6, StoreInitFrame DEF WalkPcs, SameBagit
<1>7. CASE AddContent
  BY <1>1, <1>7, AddContentFrame DEF WalkPcs, SameBagit
<1>8. CASE ZipDone
  BY <1>1, <1>8, ZipDoneFrame DEF WalkPcs, db
<1>9. CASE WalkDone
  BY <1>9, EnterPhaseFrame, PageEmpty DEF WalkDone, Begins, db
<1> QED BY <1>3, <1>4, <1>5, <1>6, <1>7, <1>8, <1>9 DEF IngestStep

LEMMA PageKeepsPage ==
    ASSUME TypeInv, WrittenInv, PageInv, PageStep
    PROVE  PageInv'
<1>1. Ends => PageInv'
  BY PageEnds DEF Ends
<1>2. CASE CountRows
  <2>1. run.pc = "count" => run.page = <<>> /\ run.phase \in {"transfer", "check"}
    BY PcClasses DEF PageInv, PhaseOf
  <2> QED BY <1>1, <1>2, <2>1, CountRowsFrame, PageEmpty DEF db
<1>3. CASE LoadPage
  <2>1. run.pc = "load" /\ UNCHANGED <<rows, aes>> /\ run.phase \in {"transfer", "check"}
    BY <1>3, LoadPageFrame DEF PageInv, PhaseOf, db
  <2>2. ASSUME run'.pc = "next", run'.phase = run.phase,
               \/ run'.page = Page(run.start)
               \/ \E cut \in 0 .. Len(Page(run.start)) :
                     run'.page = SubSeq(Page(run.start), 1, cut)
        PROVE  PageInv'
    <3> DEFINE page == run'.page
    <3>1. TablesOK /\ run.start \in Nat
      BY DEF TypeInv, TypeOK, RunState
    <3>2. \A i \in 1 .. Len(page) :
             /\ run.start + i \in 1 .. Len(rows)
             /\ page[i].name = rows[run.start + i]
             /\ page[i].aes = aes[rows[run.start + i]]
      <4> HIDE DEF page
      <4>1. \/ page = Page(run.start)
            \/ \E cut \in 0 .. Len(Page(run.start)) : page = SubSeq(Page(run.start), 1, cut)
        BY <2>2 DEF page
      <4> QED BY <3>1, <4>1, PagePrefix
    <3>3. \A i, j \in 1 .. Len(page) : run.start + i = run.start + j => i = j
      BY <3>1
    <3>4. PageCurrent'
      BY <2>1, <3>2, <3>3 DEF PageInv, RowsOnce, PageCurrent
    <3> QED BY <2>1, <2>2, <3>4
            DEF PageInv, RowsOnce, PhaseOf, InHand, WalkPcs, PagePcs, RowPcs, CheckPcs
  <2>3. Begins("check", "count") => PageInv'
    BY <2>1, PageEmpty DEF Begins
  <2> QED BY <1>1, <1>3, <2>2, <2>3, LoadPageFrame
<1>4. CASE EndOfPage
  <2>1. run'.pc = "load" /\ run'.page = <<>> /\ run'.phase \in {"transfer", "check"}
        /\ UNCHANGED <<rows, aes>>
    BY <1>4, EndOfPageFrame DEF SameLocation, SameBagit, SameLoop, PageInv, PhaseOf, db
  <2> QED BY <2>1, PageEmpty
<1> QED BY <1>2, <1>3, <1>4 DEF PageStep

LEMMA TransferKeepsPage ==
    ASSUME TypeInv, WrittenInv, PageInv, TransferStep
    PROVE  PageInv'
<1>1. Ends => PageInv'
  BY PageEnds DEF Ends
<1>2. ASSUME UNCHANGED <<rows, aes>>, SameBagit, run'.aes = run.aes,
             run.pc \in RowPcs \cup {"target"}, run'.pc \in RowPcs \cup {"target"}
      PROVE  PageInv'
  BY <1>2, PageInside
<1>3. CASE LoadSource
  BY <1>1, <1>3, LoadSourceFrame, PageBegins DEF db
<1>4. CASE TransferDone
  <2>1. run.pc = "target"
    BY <1>4 DEF TransferDone
  <2>2. run.phase = "transfer"
    BY <2>1 DEF PageInv, PhaseOf
  <2> QED BY <1>4, <2>2, EndBagitFrame, PageReturns DEF TransferDone, SameLoop, db
<1>5. ASSUME NEW l \in Locations, NextTarget(l) PROVE PageInv'
  BY <1>2, <1>5, NextTargetFrame DEF RowPcs, db
<1>6. CASE OpenSource
  BY <1>1, <1>2, <1>6, OpenSourceFrame DEF SameLocation, RowPcs, db
<1>7. CASE GetKey \/ SetKey \/ GetIV \/ SetIV \/ NewCipher
  BY <1>1, <1>2, <1>7, KeyStepFrame DEF SameLocation, RowPcs, db
<1>8. CASE CreateTarget
  BY <1>1, <1>2, <1>8, CreateTargetFrame DEF SameLocation, RowPcs, db
<1>9. CASE CopyStream
  BY <1>1, <1>2, <1>9, CopyStreamFrame DEF SameLocation, RowPcs, db
<1>10. CASE VerifyStream
  <2>1. /\ run.pc = "verify" /\ SameBagit /\ run'.pc \in {"store", "target"}
        /\ UNCHANGED rows
    BY <1>10, VerifyStreamFrame
  <2>2. CASE UNCHANGED aes /\ run'.aes = run.aes
    BY <1>2, <2>1, <2>2 DEF RowPcs
  <2>3. CASE /\ run.aes = NoDigest /\ run'.aes = run.hash
             /\ \/ aes' = [aes EXCEPT ![run.cur] = run.hash]
                \/ "dbwrite" \in FaultKinds /\ UNCHANGED aes
    <3>1. run.cur \in InRows /\ run.cur \notin OnPage /\ run.phase = "transfer"
          /\ aes[run.cur] = NoDigest
      BY <2>1, <2>3 DEF PageInv, InHand, PhaseOf, PagePcs, RowPcs
    <3>2. InRows' = InRows /\ OnPage' = OnPage
      BY <2>1 DEF InRows, Registered, SameBagit, OnPage
    <3>3. \A b \in Bagits : b # run.cur => aes'[b] = aes[b]
      BY <2>3 DEF TypeInv, TypeOK, TablesOK
    <3>4. run.page \in Seq([name : InRows, aes : Content])
      BY DEF WrittenInv, ZipsWhole
    <3>5. \A i \in 1 .. Len(run.page) : run.page[i].name \in Bagits /\ run.page[i].name # run.cur
      <4>1. \A i \in 1 .. Len(run.page) : run.page[i] \in [name : InRows, aes : Content]
        BY <3>4, SeqItems
      <4>2. \A i \in 1 .. Len(run.page) : run.page[i].name \in OnPage
        BY DEF OnPage
      <4> QED BY <3>1, <4>1, <4>2 DEF InRows
    <3>6. PageCurrent'
      BY <2>1, <3>3, <3>5 DEF PageInv, PageCurrent, SameBagit
    <3>7. InHand'
      <4>1. run.cur \in Bagits
        BY <3>1 DEF InRows
      <4>2. run'.aes = aes'[run.cur] \/ ("dbwrite" \in FaultKinds /\ aes'[run.cur] = NoDigest)
        <5>1. aes' = [aes EXCEPT ![run.cur] = run.hash] => aes'[run.cur] = run.hash
          BY <4>1 DEF TypeInv, TypeOK, TablesOK
        <5> QED BY <2>3, <3>1, <5>1
      <4> QED BY <2>1, <3>1, <3>2, <4>2 DEF InHand, SameBagit, SameLoop
    <3> QED BY <2>1, <3>1, <3>6, <3>7 DEF PageInv, RowsOnce, PhaseOf, SameBagit, SameLoop,
                                          WalkPcs, PagePcs, RowPcs, CheckPcs
  <2> QED BY <1>10, <2>2, <2>3, VerifyStreamFrame
<1>11. CASE StoreOk
  BY <1>1, <1>2, <1>11, StoreOkFrame DEF RowPcs
<1> QED BY <1>3, <1>4, <1>5, <1>6, <1>7, <1>8, <1>9, <1>10, <1>11 DEF TransferStep

LEMMA CheckKeepsPage ==
    ASSUME TypeInv, WrittenInv, PageInv, CheckStep
    PROVE  PageInv'
<1>1. Ends => PageInv'
  BY PageEnds DEF Ends
<1>2. ASSUME UNCHANGED <<rows, aes>>, SameBagit, run'.aes = run.aes,
             run.pc \in CheckPcs, run'.pc \in CheckPcs
      PROVE  PageInv'
  BY <1>2, PageInside
<1>3. CASE BeginChecks
  BY <1>3, BeginChecksFrame, PageBegins DEF db
<1>4. CASE ChecksDone
  <2>1. run.pc = "test"
    BY <1>4 DEF ChecksDone
  <2>2. run.phase = "check"
    BY <2>1 DEF PageInv, PhaseOf, CheckPcs
  <2> QED BY <1>4, <2>2, EndBagitFrame, PageReturns DEF ChecksDone, SameLoop, db
<1>5. ASSUME NEW l \in Locations, NextTest(l) PROVE PageInv'
  BY <1>1, <1>2, <1>5, NextTestFrame DEF CheckPcs, db
<1>6. CASE ReadCopy
  BY <1>2, <1>6, ReadCopyFrame DEF SameLocation, CheckPcs, db
<1>7. CASE StoreResult
  BY <1>1, <1>2, <1>7, StoreResultFrame DEF CheckPcs
<1> QED BY <1>3, <1>4, <1>5, <1>6, <1>7 DEF CheckStep

LEMMA InitPage == Init => PageInv
BY DEF Init, Idle, PageInv, RowsOnce, PhaseOf, PageCurrent, InHand, WalkPcs, PagePcs, RowPcs, CheckPcs

LEMMA NextKeepsPage ==
    ASSUME TypeInv, WrittenInv, PageInv, [Next]_vars
    PROVE  PageInv'
<1>1. CASE UNCHANGED vars \/ Environment
  <2>1. UNCHANGED <<rows, aes, run>>
    BY <1>1 DEF Environment, BeginUpload, EndUpload, Damage, Expire, vars, db
  <2> QED BY <2>1 DEF PageInv, RowsOnce, PhaseOf, PageCurrent, InHand, InRows, Registered, OnPage
<1>2. CASE StartRun
  BY <1>2, StartRunFrame, PageEnds, PageEmpty DEF Begins, WalkPcs, db
<1>3. CASE Crash
  BY <1>3, PageEnds DEF Crash, Fails, Exit, db
<1> QED BY <1>1, <1>2, <1>3, IngestKeepsPage, PageKeepsPage, TransferKeepsPage, CheckKeepsPage
        DEF Next, Step

(***************************************************************************)
(* Ingest: without a crash and with every INSERT done, a bagit is entered  *)
(* completely before the next zip is looked at.                            *)
(***************************************************************************)
EnterPcs == {"sum", "insert", "init", "content"}

\* Only Ingest enters bagits and writes rows of the initial location.
LEMMA EntersNothing ==
    ASSUME TypeInv, WrittenInv, StartRun \/ PageStep \/ TransferStep \/ CheckStep
    PROVE  /\ UNCHANGED <<rows, sha, content>>
           /\ \A b \in Bagits : transfer'[b][InitLoc] = transfer[b][InitLoc]
           /\ run.pc \notin EnterPcs /\ run'.pc \notin EnterPcs
<1> DEFINE Quiet == /\ UNCHANGED <<rows, sha, content>>
                    /\ \A b \in Bagits : transfer'[b][InitLoc] = transfer[b][InitLoc]
                    /\ run'.pc \notin EnterPcs
<1> USE DEF EnterPcs
<1>1. Ends => Quiet
  BY LocationsAssumption DEF Ends, Idle, WrittenInv, TargetOpen
<1>2. CASE StartRun
  BY <1>2, StartRunFrame DEF Begins, Idle, db
<1>3. CASE PageStep
  BY <1>1, <1>3, CountRowsFrame, LoadPageFrame, EndOfPageFrame DEF PageStep, Begins, db
<1>4. CASE LoadSource \/ TransferDone
  <2>1. CASE LoadSource
    <3>1. run.pc = "next"
      BY <2>1 DEF LoadSource, HasBagit
    <3> QED BY <1>1, <2>1, <3>1, LoadSourceFrame DEF db
  <2>2. CASE TransferDone
    BY <2>2, EndBagitFrame DEF TransferDone, db
  <2> QED BY <1>4, <2>1, <2>2
<1>5. ASSUME NEW l \in Locations, NextTarget(l) PROVE run.pc \notin EnterPcs /\ Quiet
  BY <1>5, NextTargetFrame DEF db
<1>6. CASE OpenSource \/ GetKey \/ SetKey \/ GetIV \/ SetIV \/ NewCipher
  BY <1>1, <1>6, OpenSourceFrame, KeyStepFrame DEF db
<1>7. CASE CreateTarget \/ CopyStream \/ VerifyStream
  BY <1>1, <1>7, CreateTargetFrame, CopyStreamFrame, VerifyStreamFrame DEF db
<1>8. CASE StoreOk
  <2>1. ASSUME transfer' = [transfer EXCEPT ![run.cur][run.loc] = "ok"], run.pc = "store"
        PROVE  \A b \in Bagits : transfer'[b][InitLoc] = transfer[b][InitLoc]
    BY <2>1, LocationsAssumption DEF WrittenInv, TargetOpen, RowPcs, TypeInv, TypeOK, StatusOK
  <2> QED BY <1>1, <1>8, <2>1, StoreOkFrame
<1>9. CASE CheckStep
  <2>1. CASE BeginChecks \/ ChecksDone
    BY <2>1, BeginChecksFrame, EndBagitFrame DEF ChecksDone, db
  <2>2. CASE \E l \in Locations : NextTest(l)
    BY <1>1, <2>2, NextTestFrame DEF db
  <2>3. CASE ReadCopy \/ StoreResult
    BY <1>1, <2>3, ReadCopyFrame, StoreResultFrame DEF db
  <2> QED BY <1>9, <2>1, <2>2, <2>3 DEF CheckStep
<1> QED BY <1>2, <1>3, <1>4, <1>5, <1>6, <1>7, <1>8, <1>9 DEF TransferStep

Complete(b) == transfer[b][InitLoc] = "ok" /\ content[b] = NumContent

\* A bagit is completely entered, or the process is about to do that.
CompleteInv ==
    /\ \A b \in Bagits \ InRows : content[b] = 0
    /\ \A b \in InRows : Complete(b) \/ (run.pc \in {"init", "content"} /\ run.cur = b)
    /\ run.pc \in {"init", "content"} => run.cur \in InRows
    /\ run.pc = "init" => content[run.cur] = 0
    /\ run.pc = "content" => /\ transfer[run.cur][InitLoc] = "ok"
                             /\ content[run.cur] + run.left = NumContent

LEMMA InsertsRow ==
    ASSUME TypeInv, NEW b \in Bagits, rows' = Append(rows, b)
    PROVE  InRows' = InRows \cup {b}
BY DEF InRows, Registered, TypeInv, TypeOK, TablesOK

LEMMA CompleteQuiet ==
    ASSUME CompleteInv, UNCHANGED <<rows, content>>,
           \A b \in Bagits : transfer'[b][InitLoc] = transfer[b][InitLoc],
           run.pc \notin {"init", "content"}, run'.pc \notin {"init", "content"}
    PROVE  CompleteInv'
<1>1. InRows' = InRows
  BY DEF InRows, Registered
<1> QED BY <1>1 DEF CompleteInv, Complete, InRows

LEMMA IngestKeepsComplete ==
    ASSUME "dbwrite" \notin FaultKinds, TypeInv, WrittenInv, CompleteInv, IngestStep
    PROVE  CompleteInv'
<1>1. /\ run.pc \in {"init", "content"} => run.cur \in InRows
      /\ run.pc \in {"sum", "insert", "init", "content"} => run.cur \in Bagits
      /\ InRows \subseteq Bagits
      /\ content \in [Bagits -> Nat] /\ run.left \in Nat
      /\ transfer \in [Bagits -> [Locations -> {None, "ok", "error"}]]
  BY DEF CompleteInv, Holds, AtBagit, InRows, TypeInv, TypeOK, TablesOK, StatusOK, RunState
<1>2. Ends /\ run.pc \in {"walk", "sum", "insert"} => CompleteInv'
  <2>1. Ends /\ run.pc \in {"walk", "sum", "insert"} =>
           /\ UNCHANGED <<rows, content>> /\ run'.pc = "idle"
           /\ \A b \in Bagits : transfer'[b][InitLoc] = transfer[b][InitLoc]
    BY LocationsAssumption DEF Ends, Idle, RowPcs
  <2> QED BY <2>1, CompleteQuiet
<1>3. ASSUME NEW b \in Bagits, WalkZip(b) PROVE CompleteInv'
  BY <1>2, <1>3, WalkZipFrame, CompleteQuiet DEF db
<1>4. CASE SumZip
  BY <1>2, <1>4, SumZipFrame, CompleteQuiet DEF db
<1>5. CASE InsertBagit
  <2>1. ASSUME run.pc = "insert", run'.pc = "init", SameBagit, ~ Registered(run.cur),
               rows' = Append(rows, run.cur), UNCHANGED <<content, transfer>>
        PROVE  CompleteInv'
    <3>1. InRows' = InRows \cup {run.cur} /\ run.cur \in Bagits \ InRows
      BY <1>1, <2>1, InsertsRow DEF InRows
    <3> QED BY <2>1, <3>1 DEF CompleteInv, Complete, SameBagit
  <2> QED BY <1>2, <1>5, <2>1, InsertBagitFrame
<1>6. CASE StoreInitLocation
  <2>1. /\ run.pc = "init" /\ run'.pc = "content" /\ run'.cur = run.cur
        /\ run'.left = NumContent /\ UNCHANGED <<rows, content>>
        /\ transfer' = [transfer EXCEPT ![run.cur][InitLoc] = "ok"]
    BY <1>6, StoreInitFrame DEF SameBagit
  <2>2. InRows' = InRows
    BY <2>1 DEF InRows, Registered
  <2>3. \A b \in Bagits : transfer'[b][InitLoc] = IF b = run.cur THEN "ok" ELSE transfer[b][InitLoc]
    BY <1>1, <2>1, LocationsAssumption
  <2> QED BY <1>1, <2>1, <2>2, <2>3, BoundsAssumption DEF CompleteInv, Complete
<1>7. CASE AddContent
  <2>1. /\ run.pc = "content" /\ run'.pc = "content" /\ run'.cur = run.cur
        /\ run.left > 0 /\ run'.left = run.left - 1 /\ UNCHANGED <<rows, transfer>>
        /\ content' = [content EXCEPT ![run.cur] = @ + 1]
    BY <1>7, AddContentFrame DEF SameBagit
  <2>2. InRows' = InRows
    BY <2>1 DEF InRows, Registered
  <2>3. \A b \in Bagits : content'[b] = IF b = run.cur THEN content[b] + 1 ELSE content[b]
    BY <1>1, <2>1
  <2>4. content[run.cur] \in Nat /\ run.left \in Nat
    BY <1>1, <2>1
  <2>5. content[run.cur] + 1 + (run.left - 1) = content[run.cur] + run.left
    BY <2>4
  <2>6. run.cur \in InRows /\ content[run.cur] + run.left = NumContent
        /\ transfer[run.cur][InitLoc] = "ok"
    BY <2>1 DEF CompleteInv
  <2>7. \A b \in InRows \ {run.cur} : Complete(b)
    BY DEF CompleteInv
  <2>8. content'[run.cur] + run'.left = NumContent
    BY <1>1, <2>1, <2>3, <2>5, <2>6
  <2> QED BY <1>1, <2>1, <2>2, <2>3, <2>6, <2>7, <2>8 DEF CompleteInv, Complete
<1>8. CASE ZipDone
  <2>1. /\ run.pc = "content" /\ run.left = 0 /\ run'.pc = "walk"
        /\ UNCHANGED <<rows, content, transfer>>
    BY <1>8, ZipDoneFrame DEF db
  <2>2. InRows' = InRows
    BY <2>1 DEF InRows, Registered
  <2>3. Complete(run.cur)
    BY <1>1, <2>1 DEF CompleteInv, Complete
  <2> QED BY <1>1, <2>1, <2>2, <2>3 DEF CompleteInv, Complete
<1>9. CASE WalkDone
  <2>1. run.pc = "walk" /\ run'.pc = "count" /\ UNCHANGED <<rows, content, transfer>>
    BY <1>9, EnterPhaseFrame DEF WalkDone, Begins, db
  <2> QED BY <2>1, CompleteQuiet
<1> QED BY <1>3, <1>4, <1>5, <1>6, <1>7, <1>8, <1>9 DEF IngestStep

LEMMA InitComplete == Init => CompleteInv
BY DEF Init, Idle, CompleteInv, InRows, Registered

LEMMA NextKeepsComplete ==
    ASSUME FaultKinds \cap {"crash", "dbwrite"} = {}, TypeInv, WrittenInv, CompleteInv, [Next]_vars
    PROVE  CompleteInv'
<1>1. CASE UNCHANGED vars \/ Environment
  <2>1. UNCHANGED <<rows, content, transfer, run>>
    BY <1>1 DEF Environment, BeginUpload, EndUpload, Damage, Expire, vars, db
  <2> QED BY <2>1 DEF CompleteInv, Complete, InRows, Registered
<1>2. ~ Crash
  BY DEF Crash, Fails, Fault
<1>3. CASE StartRun \/ PageStep \/ TransferStep \/ CheckStep
  BY <1>3, EntersNothing, CompleteQuiet DEF EnterPcs
<1> QED BY <1>1, <1>2, <1>3, IngestKeepsComplete DEF Next, Step

\* A bagit the walk skips as already ingested has its initial row and all its
\* content rows, provided no run dies between the INSERTs of IngestBagit and
\* none of them fails: there is no transaction around them, and a bagit that
\* is left half entered is never looked at again.
THEOREM IngestedCorrect ==
    ASSUME FaultKinds \cap {"crash", "dbwrite"} = {}
    PROVE  Spec => []IngestedIsComplete
<1>1. TypeInv /\ WrittenInv /\ [Next]_vars => WrittenInv'
  BY NextKeepsWritten
<1>2. TypeInv /\ WrittenInv /\ CompleteInv /\ [Next]_vars => CompleteInv'
  BY NextKeepsComplete
<1>3. CompleteInv => IngestedIsComplete
  BY DEF CompleteInv, Complete, IngestedIsComplete, InRows
<1> QED BY <1>1, <1>2, <1>3, InitType, NextType, InitWritten, InitComplete, PTL DEF Spec

(***************************************************************************)
(* Transfer: where no statement fails and nothing decays, an "ok" row      *)
(* stands next to the bytes whose digest is recorded.                      *)
(***************************************************************************)
RecordedInv ==
    /\ \A b \in InRows : file[b][InitLoc] = sha[b]
    /\ \A b \in Bagits \ InRows, l \in Locations : transfer[b][l] # "ok"
    /\ run.pc \in {"init", "content"} => run.cur \in InRows
    /\ run.pc = "insert" => run.hash = file[run.cur][InitLoc]
    /\ run.pc \in {"verify", "store"} => file[run.cur][run.loc] = run.hash
    /\ run.pc = "store" => run.hash = Recorded(run.cur, run.loc)
    /\ OkMeansRecorded

LEMMA RecordedQuiet ==
    ASSUME RecordedInv, UNCHANGED <<file, rows, sha, aes>>,
           \A b \in Bagits, l \in Locations :
               transfer'[b][l] = transfer[b][l] \/ transfer'[b][l] # "ok",
           run'.pc \notin {"insert", "init", "content", "verify", "store"}
    PROVE  RecordedInv'
<1>1. InRows' = InRows
  BY DEF InRows, Registered
<1> QED BY <1>1 DEF RecordedInv, OkMeansRecorded, Recorded, At, InRows

LEMMA RecordedEnds == ASSUME RecordedInv, Ends PROVE RecordedInv'
BY RecordedQuiet DEF Ends, Idle

LEMMA IngestKeepsRecorded ==
    ASSUME "dbwrite" \notin FaultKinds, Nested = {},
           TypeInv, WrittenInv, RecordedInv, IngestStep
    PROVE  RecordedInv'
<1>1. /\ run.pc \in EnterPcs => run.cur \in Bagits
      /\ InRows \subseteq Bagits
      /\ sha \in [Bagits -> Content]
      /\ transfer \in [Bagits -> [Locations -> {None, "ok", "error"}]]
  BY DEF EnterPcs, Holds, AtBagit, InRows, TypeInv, TypeOK, TablesOK, StatusOK
<1>2. ASSUME NEW b \in Bagits, WalkZip(b) PROVE RecordedInv'
  BY <1>2, RecordedEnds, RecordedQuiet, WalkZipFrame DEF disk, db
<1>3. CASE SumZip
  <2>1. ASSUME run.pc = "sum", UNCHANGED <<disk, db>>, run'.pc = "insert", SameBagit,
               run'.hash = file[run.cur][InitLoc]
        PROVE  RecordedInv'
    <3>1. InRows' = InRows
      BY <2>1 DEF InRows, Registered, db
    <3> QED BY <2>1, <3>1 DEF RecordedInv, OkMeansRecorded, Recorded, At, SameBagit, disk, db
  <2> QED BY <1>3, <2>1, RecordedEnds, SumZipFrame
<1>4. CASE InsertBagit
  <2>1. ASSUME run.pc = "insert", run'.pc = "init", SameBagit, ~ Registered(run.cur),
               rows' = Append(rows, run.cur), sha' = [sha EXCEPT ![run.cur] = run.hash],
               UNCHANGED <<disk, aes, transfer>>
        PROVE  RecordedInv'
    <3>1. run.cur \in Bagits \ InRows /\ InRows' = InRows \cup {run.cur}
      BY <1>1, <2>1, InsertsRow DEF InRows, EnterPcs
    <3>2. \A b \in Bagits : sha'[b] = IF b = run.cur THEN run.hash ELSE sha[b]
      BY <1>1, <2>1
    <3>3. run.hash = file[run.cur][InitLoc] /\ \A l \in Locations : transfer[run.cur][l] # "ok"
      BY <2>1, <3>1 DEF RecordedInv
    <3>4. OkMeansRecorded'
      BY <2>1, <3>2, <3>3 DEF RecordedInv, OkMeansRecorded, Recorded, At, disk
    <3> QED BY <1>1, <2>1, <3>1, <3>2, <3>3, <3>4 DEF RecordedInv, SameBagit, disk
  <2> QED BY <1>4, <2>1, RecordedEnds, InsertBagitFrame
<1>5. CASE StoreInitLocation
  <2>1. /\ run.pc = "init" /\ run'.pc = "content" /\ run'.cur = run.cur
        /\ transfer' = [transfer EXCEPT ![run.cur][InitLoc] = "ok"]
        /\ UNCHANGED <<disk, rows, sha, aes>>
    BY <1>5, StoreInitFrame DEF SameBagit
  <2>2. InRows' = InRows /\ run.cur \in InRows
    BY <2>1 DEF InRows, Registered, RecordedInv
  <2>3. \A b \in Bagits, l \in Locations :
           transfer'[b][l] = IF b = run.cur /\ l = InitLoc THEN "ok" ELSE transfer[b][l]
    BY <1>1, <2>1
  <2>4. /\ file[run.cur][InitLoc] = sha[run.cur] /\ file[run.cur][InitLoc].kind = "whole"
        /\ InitLoc \notin Encrypted
    BY <2>2, LocationsAssumption DEF RecordedInv, WrittenInv, ZipsWhole
  <2>5. sha[run.cur] # NoDigest
    BY <2>4 DEF NoDigest, Absent
  <2>6. OkMeansRecorded'
    BY <2>1, <2>3, <2>4, <2>5 DEF RecordedInv, OkMeansRecorded, Recorded, At, disk
  <2> QED BY <2>1, <2>2, <2>3, <2>6 DEF RecordedInv, disk
<1>6. CASE AddContent
  <2>1. run.pc = "content" /\ run'.pc = "content" /\ run'.cur = run.cur
        /\ UNCHANGED <<disk, rows, sha, aes, transfer>>
    BY <1>6, AddContentFrame DEF SameBagit
  <2>2. InRows' = InRows
    BY <2>1 DEF InRows, Registered
  <2> QED BY <2>1, <2>2 DEF RecordedInv, OkMeansRecorded, Recorded, At, disk
<1>7. CASE ZipDone
  BY <1>7, RecordedQuiet, ZipDoneFrame DEF disk, db
<1>8. CASE WalkDone
  BY <1>8, RecordedQuiet, EnterPhaseFrame DEF WalkDone, Begins, disk, db
<1> QED BY <1>2, <1>3, <1>4, <1>5, <1>6, <1>7, <1>8 DEF IngestStep

LEMMA TransferKeepsRecorded ==
    ASSUME FaultKinds \cap {"dbwrite", "dbread"} = {}, Nested = {},
           TypeInv, WrittenInv, PageInv, RecordedInv, TransferStep
    PROVE  RecordedInv'
<1>1. run.pc \in RowPcs =>
         /\ run.cur \in InRows /\ run.cur \in Bagits /\ run.loc \in Locations
         /\ run.loc # InitLoc /\ transfer[run.cur][run.loc] # "ok"
         /\ run.aes = aes[run.cur]
  BY DEF WrittenInv, ZipsWhole, TargetOpen, TypeInv, Holds, AtLocation, RowPcs, InRows,
         PageInv, InHand, PagePcs
<1>2. /\ file \in [Bagits -> [Locations -> Content]]
      /\ transfer \in [Bagits -> [Locations -> {None, "ok", "error"}]]
      /\ aes \in [Bagits -> Content] /\ InRows \subseteq Bagits
  BY DEF TypeInv, TypeOK, DiskOK, TablesOK, StatusOK, InRows
<1>3. ASSUME UNCHANGED <<file, db>>,
             run'.pc \notin {"insert", "init", "content", "verify", "store"}
      PROVE  RecordedInv'
  BY <1>3, RecordedQuiet DEF db
<1>4. CASE LoadSource \/ TransferDone
  BY <1>3, <1>4, RecordedEnds, LoadSourceFrame, EndBagitFrame DEF TransferDone, disk
<1>5. ASSUME NEW l \in Locations, NextTarget(l) PROVE RecordedInv'
  BY <1>3, <1>5, NextTargetFrame DEF disk
<1>6. CASE OpenSource \/ GetKey \/ SetKey \/ GetIV \/ SetIV \/ NewCipher
  BY <1>3, <1>6, RecordedEnds, OpenSourceFrame, KeyStepFrame DEF disk
\* The file of the location in hand is written; its row is not "ok".
<1>7. ASSUME NEW bytes, file' = [file EXCEPT ![run.cur][run.loc] = bytes], UNCHANGED db,
             run.pc \in RowPcs, SameLocation,
             run'.pc = "copy" \/ (run'.pc = "verify" /\ run'.hash = bytes)
      PROVE  RecordedInv'
  <2>1. \A b \in Bagits, l \in Locations :
           file'[b][l] = IF b = run.cur /\ l = run.loc THEN bytes ELSE file[b][l]
    BY <1>1, <1>2, <1>7
  <2>2. InRows' = InRows
    BY <1>7 DEF InRows, Registered, db
  <2>3. OkMeansRecorded'
    BY <1>1, <1>7, <2>1 DEF RecordedInv, OkMeansRecorded, Recorded, At, db
  <2> QED BY <1>1, <1>2, <1>7, <2>1, <2>2, <2>3, LocationsAssumption
          DEF RecordedInv, SameLocation, SameBagit, db
<1>8. CASE CreateTarget
  <2>1. run.pc \in RowPcs
    BY <1>8 DEF CreateTarget, RowPcs
  <2> QED BY <1>7, <1>8, <2>1, RecordedEnds, CreateTargetFrame
<1>9. CASE CopyStream
  <2>1. run.pc \in RowPcs
    BY <1>9 DEF CopyStream, RowPcs
  <2> QED BY <1>7, <1>9, <2>1, RecordedEnds, CopyStreamFrame
<1>10. CASE VerifyStream
  <2>1. /\ run.pc = "verify" /\ run.pc \in RowPcs /\ run'.cur = run.cur
        /\ file[run.cur][run.loc] = run.hash
        /\ UNCHANGED <<disk, rows, sha, content, transfer, test, fresh>>
    BY <1>10, VerifyStreamFrame DEF RecordedInv, RowPcs, SameBagit
  <2>2. InRows' = InRows
    BY <2>1 DEF InRows, Registered
  <2>3. ASSUME run.loc \in Encrypted, run.aes = NoDigest,
               run'.pc = "store", run'.loc = run.loc, run'.hash = run.hash,
               aes' = [aes EXCEPT ![run.cur] = run.hash]
        PROVE  RecordedInv'
    <3>1. \A b \in Bagits : aes'[b] = IF b = run.cur THEN run.hash ELSE aes[b]
      BY <1>2, <2>3
    <3>2. aes[run.cur] = NoDigest
      BY <1>1, <2>1, <2>3
    <3>3. OkMeansRecorded'
      BY <1>1, <2>1, <3>1, <3>2 DEF RecordedInv, OkMeansRecorded, Recorded, At, disk
    <3> QED BY <1>1, <1>2, <2>1, <2>2, <2>3, <3>1, <3>3 DEF RecordedInv, Recorded, disk
  <2>4. ASSUME run.hash = Expected, run'.pc = "store", run'.loc = run.loc,
               run'.hash = run.hash, UNCHANGED aes
        PROVE  RecordedInv'
    <3>1. run.hash = Recorded(run.cur, run.loc)
      BY <1>1, <2>1, <2>4 DEF Expected, Recorded
    <3>2. OkMeansRecorded'
      BY <2>1, <2>4 DEF RecordedInv, OkMeansRecorded, Recorded, At, disk
    <3> QED BY <2>1, <2>2, <2>4, <3>1, <3>2 DEF RecordedInv, Recorded, disk
  <2>5. ASSUME run'.pc = "target", UNCHANGED aes PROVE RecordedInv'
    BY <2>1, <2>5, RecordedQuiet DEF disk
  <2> QED BY <1>10, <2>3, <2>4, <2>5, VerifyStreamFrame
<1>11. CASE StoreOk
  <2>1. ASSUME run.pc = "store", run'.pc = "target",
               transfer' = [transfer EXCEPT ![run.cur][run.loc] = "ok"],
               UNCHANGED <<disk, rows, sha, aes>>
        PROVE  RecordedInv'
    <3>1. run.pc \in RowPcs
      BY <2>1 DEF RowPcs
    <3>2. \A b \in Bagits, l \in Locations :
             transfer'[b][l] = IF b = run.cur /\ l = run.loc THEN "ok" ELSE transfer[b][l]
      BY <1>1, <1>2, <2>1, <3>1
    <3>3. /\ file[run.cur][run.loc] = Recorded(run.cur, run.loc)
          /\ file[run.cur][run.loc].kind = "whole"
      BY <2>1 DEF RecordedInv, WrittenInv, TargetOpen
    <3>4. Recorded(run.cur, run.loc) # NoDigest
      BY <3>3 DEF NoDigest, Absent
    <3>5. OkMeansRecorded'
      BY <2>1, <3>2, <3>3, <3>4 DEF RecordedInv, OkMeansRecorded, Recorded, At, disk
    <3>6. InRows' = InRows
      BY <2>1 DEF InRows, Registered
    <3> QED BY <1>1, <2>1, <3>1, <3>2, <3>5, <3>6 DEF RecordedInv, disk
  <2> QED BY <1>11, <2>1, RecordedEnds, StoreOkFrame
<1> QED BY <1>4, <1>5, <1>6, <1>8, <1>9, <1>10, <1>11 DEF TransferStep

LEMMA EnvironmentKeepsRecorded ==
    ASSUME FaultKinds \cap {"rot", "decay"} = {}, Nested = {},
           TypeInv, WrittenInv, RecordedInv, Environment
    PROVE  RecordedInv'
<1>1. UNCHANGED <<rows, sha, aes, transfer, run>>
  BY DEF Environment, BeginUpload, EndUpload, Damage, Expire, db
<1>2. \A b \in Bagits, l \in Locations : ~ Damage(b, l)
  BY DEF Damage, Fault
<1>3. \A b \in Bagits, l \in Locations :
         file'[b][l] = file[b][l] \/ (l = InitLoc /\ file[b][l].kind # "whole")
  BY <1>2, LocationsAssumption
     DEF Environment, BeginUpload, EndUpload, Expire, disk, TypeInv, TypeOK, DiskOK, Absent, Partial
<1>4. InRows' = InRows /\ InRows \subseteq Bagits
  BY <1>1 DEF InRows, Registered
<1>5. \A b \in InRows, l \in Locations : file'[b][l] = file[b][l]
  BY <1>3, <1>4 DEF WrittenInv, ZipsWhole
<1>6. /\ run.pc \in RowPcs => run.cur \in InRows /\ run.loc \in Locations
      /\ run.pc = "insert" => run.cur \in Bagits /\ file[run.cur][InitLoc].kind = "whole"
  BY DEF WrittenInv, ZipsWhole, TypeInv, Holds, AtLocation, AtBagit, RowPcs
<1>7. OkMeansRecorded'
  BY <1>1, <1>4, <1>5 DEF RecordedInv, OkMeansRecorded, Recorded, At
<1> QED BY <1>1, <1>3, <1>4, <1>5, <1>6, <1>7, LocationsAssumption DEF RecordedInv, Recorded, RowPcs

LEMMA InitRecorded == Init => RecordedInv
BY DEF Init, Idle, RecordedInv, OkMeansRecorded, InRows, Registered, None

LEMMA NextKeepsRecorded ==
    ASSUME FaultKinds \cap {"dbwrite", "dbread", "rot", "decay"} = {}, Nested = {},
           TypeInv, WrittenInv, PageInv, RecordedInv, [Next]_vars
    PROVE  RecordedInv'
<1>1. CASE UNCHANGED vars
  BY <1>1 DEF vars, disk, db, RecordedInv, OkMeansRecorded, Recorded, At, InRows, Registered
<1>2. CASE StartRun
  BY <1>2, StartRunFrame, RecordedQuiet DEF Begins, Idle, disk, db
<1>3. CASE PageStep
  <2>1. CASE CountRows
    BY <2>1, CountRowsFrame, RecordedEnds, RecordedQuiet DEF disk, db
  <2>2. CASE LoadPage
    BY <2>2, LoadPageFrame, RecordedEnds, RecordedQuiet DEF Begins, disk, db
  <2>3. CASE EndOfPage
    BY <2>3, EndOfPageFrame, RecordedQuiet DEF disk, db
  <2> QED BY <1>3, <2>1, <2>2, <2>3 DEF PageStep
<1>4. CASE CheckStep
  <2>1. UNCHANGED <<disk, rows, sha, aes, transfer>>
    BY <1>4, CheckFrame
  <2>2. run'.pc \notin EnterPcs
    BY <1>4, EntersNothing
  <2>3. run'.pc \notin {"verify", "store"}
    BY <1>4, BeginChecksFrame, EndBagitFrame, NextTestFrame, ReadCopyFrame, StoreResultFrame
       DEF CheckStep, ChecksDone, Ends, Idle
  <2> QED BY <2>1, <2>2, <2>3, RecordedQuiet DEF EnterPcs, disk
<1>5. CASE Crash
  BY <1>5, EndsOf, RecordedEnds DEF Crash
<1>6. FaultKinds \cap {"dbwrite", "dbread"} = {} /\ FaultKinds \cap {"rot", "decay"} = {}
      /\ "dbwrite" \notin FaultKinds
  OBVIOUS
<1> QED BY <1>1, <1>2, <1>3, <1>4, <1>5, <1>6, IngestKeepsRecorded, TransferKeepsRecorded,
           EnvironmentKeepsRecorded DEF Next, Step

\* An "ok" row is only found next to the complete file whose digest the bagit
\* row records, whatever a run dies of between the copy, the UPDATE of the
\* digest and the row (IngestBagitLocation.Transfer). It takes that the
\* statements do not fail, because the result of the UPDATE and the error of
\* Exists are dropped, that nothing decays, and that the zips are where their
\* rows say, in the root of the initial location.
THEOREM RecordedCorrect ==
    ASSUME FaultKinds \cap {"dbwrite", "dbread", "rot", "decay"} = {}, Nested = {}
    PROVE  Spec => []OkMeansRecorded
<1>1. TypeInv /\ WrittenInv /\ [Next]_vars => WrittenInv'
  BY NextKeepsWritten
<1>2. TypeInv /\ WrittenInv /\ PageInv /\ [Next]_vars => PageInv'
  BY NextKeepsPage
<1>3. TypeInv /\ WrittenInv /\ PageInv /\ RecordedInv /\ [Next]_vars => RecordedInv'
  BY NextKeepsRecorded
<1>4. RecordedInv => OkMeansRecorded
  BY DEF RecordedInv
<1> QED BY <1>1, <1>2, <1>3, <1>4, InitType, NextType, InitWritten, InitPage, InitRecorded, PTL
        DEF Spec

(***************************************************************************)
(* Transfer: a copy gets its "ok" row for the digest that was taken of it, *)
(* decay, crashes and an Exists that cannot read included.                 *)
(***************************************************************************)
Compared ==
    /\ run.pc \in {"verify", "store"} => run.hash # NoDigest
    /\ run.pc = "store" => run.hash = Recorded(run.cur, run.loc)

LEMMA ComparedQuiet ==
    ASSUME run'.pc \notin {"verify", "store"} PROVE Compared'
BY DEF Compared

\* What the cipher makes of a complete zip has a digest.
LEMMA StreamHasDigest ==
    ASSUME TypeInv, WrittenInv, run.pc = "copy"
    PROVE  Stream # NoDigest
<1>1. run.cur \in InRows /\ run.cur \notin Nested
  BY DEF WrittenInv, ZipsWhole, TargetOpen, RowPcs
<1>2. At(run.cur, InitLoc).kind = "whole" /\ At(run.cur, InitLoc) \in Content
  BY <1>1, LocationsAssumption DEF At, WrittenInv, ZipsWhole, InRows, TypeInv, TypeOK, DiskOK
<1> DEFINE zip == At(run.cur, InitLoc)
<1>3. [zip EXCEPT !.key = run.key, !.iv = run.iv].kind = "whole"
  <2> HIDE DEF zip
  <2>1. zip.kind = "whole" /\ zip \in Content
    BY <1>2 DEF zip
  <2> QED BY <2>1 DEF Content
<1>4. Stream.kind = "whole"
  BY <1>3 DEF Stream
<1> QED BY <1>4 DEF NoDigest, Absent

LEMMA TransferKeepsCompared ==
    ASSUME "dbwrite" \notin FaultKinds, TypeInv, WrittenInv, PageInv, Compared, TransferStep
    PROVE  Compared'
<1>1. run.pc \in RowPcs => run.cur \in Bagits /\ run.aes = aes[run.cur]
  BY DEF WrittenInv, ZipsWhole, InRows, PageInv, InHand, PagePcs, RowPcs
<1>2. Ends => Compared'
  BY ComparedQuiet DEF Ends, Idle
<1>3. CASE LoadSource \/ TransferDone
  BY <1>2, <1>3, ComparedQuiet, LoadSourceFrame, EndBagitFrame DEF TransferDone
<1>4. ASSUME NEW l \in Locations, NextTarget(l) PROVE Compared'
  BY <1>4, ComparedQuiet, NextTargetFrame
<1>5. CASE OpenSource \/ GetKey \/ SetKey \/ GetIV \/ SetIV \/ NewCipher
  BY <1>2, <1>5, ComparedQuiet, OpenSourceFrame, KeyStepFrame
<1>6. CASE CreateTarget
  BY <1>2, <1>6, ComparedQuiet, CreateTargetFrame
<1>7. CASE CopyStream
  <2>1. run.pc = "copy"
    BY <1>7 DEF CopyStream
  <2>2. (run'.pc = "verify" /\ run'.hash = Stream) \/ Ends
    BY <1>7, CopyStreamFrame
  <2> QED BY <1>2, <2>1, <2>2, StreamHasDigest DEF Compared
<1>8. CASE VerifyStream
  <2>1. /\ run.pc = "verify" /\ run.pc \in RowPcs /\ run'.cur = run.cur /\ UNCHANGED sha
        /\ run.hash # NoDigest
    BY <1>8, VerifyStreamFrame DEF Compared, RowPcs, SameBagit
  <2>2. ASSUME run.loc \in Encrypted, run'.pc = "store", run'.loc = run.loc,
               run'.hash = run.hash, aes' = [aes EXCEPT ![run.cur] = run.hash]
        PROVE  Compared'
    <3>1. aes'[run.cur] = run.hash
      BY <1>1, <2>1, <2>2 DEF TypeInv, TypeOK, TablesOK
    <3> QED BY <2>1, <2>2, <3>1 DEF Compared, Recorded
  <2>3. ASSUME run.hash = Expected, run'.pc = "store", run'.loc = run.loc,
               run'.hash = run.hash, UNCHANGED aes
        PROVE  Compared'
    BY <1>1, <2>1, <2>3 DEF Compared, Recorded, Expected
  <2>4. run'.pc = "target" => Compared'
    BY ComparedQuiet
  <2> QED BY <1>8, <2>2, <2>3, <2>4, VerifyStreamFrame
<1>9. CASE StoreOk
  BY <1>2, <1>9, ComparedQuiet, StoreOkFrame
<1> QED BY <1>3, <1>4, <1>5, <1>6, <1>7, <1>8, <1>9 DEF TransferStep

LEMMA InitCompared == Init => Compared
BY DEF Init, Idle, Compared

LEMMA NextKeepsCompared ==
    ASSUME "dbwrite" \notin FaultKinds, TypeInv, WrittenInv, PageInv, Compared, [Next]_vars
    PROVE  Compared'
<1>1. CASE UNCHANGED vars \/ Environment
  <2>1. UNCHANGED <<sha, aes, run>>
    BY <1>1 DEF Environment, BeginUpload, EndUpload, Damage, Expire, vars, db
  <2> QED BY <2>1 DEF Compared, Recorded
<1>2. CASE StartRun
  BY <1>2, StartRunFrame, ComparedQuiet DEF Begins, Idle
<1>3. CASE IngestStep
  <2>1. /\ \A b \in Bagits : WalkZip(b) => Compared'
        /\ SumZip => Compared'
    BY WalkZipFrame, SumZipFrame, ComparedQuiet DEF Ends, Idle
  <2>2. /\ InsertBagit => Compared'
        /\ StoreInitLocation => Compared'
    BY InsertBagitFrame, StoreInitFrame, ComparedQuiet DEF Ends, Idle
  <2>3. AddContent \/ ZipDone => Compared'
    BY AddContentFrame, ZipDoneFrame, ComparedQuiet DEF Ends, Idle
  <2>4. WalkDone => Compared'
    BY EnterPhaseFrame, ComparedQuiet DEF WalkDone, Begins
  <2> QED BY <1>3, <2>1, <2>2, <2>3, <2>4 DEF IngestStep
<1>4. CASE PageStep
  BY <1>4, CountRowsFrame, LoadPageFrame, EndOfPageFrame, ComparedQuiet
     DEF PageStep, Begins, Ends, Idle
<1>5. CASE CheckStep
  BY <1>5, CheckFrame, ComparedQuiet
<1>6. CASE Crash
  BY <1>6, EndsOf, ComparedQuiet DEF Crash, Ends, Idle
<1> QED BY <1>1, <1>2, <1>3, <1>4, <1>5, <1>6, TransferKeepsCompared DEF Next, Step

\* Only the last statement of Transfer enters a copy.
LEMMA StoresWhatWasCompared ==
    ASSUME TypeInv, Compared, [Next]_vars,
           NEW b \in Bagits, NEW l \in Locations \ {InitLoc},
           transfer[b][l] # "ok", transfer'[b][l] = "ok"
    PROVE  run.hash = Recorded(b, l) /\ run.hash # NoDigest
<1>1. Ends => FALSE
  BY DEF Ends
<1>2. IngestStep \/ TransferStep
  BY StartFrame, PageFrame, CheckFrame, FailsFrame
     DEF Next, Step, Environment, BeginUpload, EndUpload, Damage, Expire, vars, db, Crash
<1>3. run.pc \in RowPcs /\ b = run.cur /\ l = run.loc
  BY <1>2, IngestOnlyInHand, TransferOnlyInHand DEF OnlyInHand
<1>4. ~ IngestStep
  BY <1>3 DEF IngestStep, WalkZip, SumZip, InsertBagit, StoreInitLocation, AddContent, ZipDone,
              WalkDone, RowPcs
<1>5. ~ (LoadSource \/ TransferDone)
  BY <1>3 DEF LoadSource, HasBagit, TransferDone, RowPcs
<1>6. ASSUME NEW m \in Locations PROVE ~ NextTarget(m)
  BY <1>3 DEF NextTarget, RowPcs
<1>7. ~ (OpenSource \/ GetKey \/ SetKey \/ GetIV \/ SetIV \/ NewCipher)
  BY <1>1, OpenSourceFrame, KeyStepFrame DEF db
<1>8. ~ (CreateTarget \/ CopyStream \/ VerifyStream)
  BY <1>1, CreateTargetFrame, CopyStreamFrame, VerifyStreamFrame DEF db
<1>9. StoreOk
  BY <1>2, <1>4, <1>5, <1>6, <1>7, <1>8 DEF TransferStep
<1>10. run.pc = "store"
  BY <1>9 DEF StoreOk
<1> QED BY <1>3, <1>10 DEF Compared

\* Whatever decays, crashes or cannot be read, a copy is entered as archived
\* only after the digest taken of its bytes was found equal to the recorded
\* one, or was recorded as the first (IngestBagitLocation.Transfer), provided
\* the UPDATE of the digest, whose result is dropped, does not fail.
THEOREM ComparedCorrect ==
    ASSUME "dbwrite" \notin FaultKinds
    PROVE  Spec => ArchivedAsRecorded
<1>1. TypeInv /\ WrittenInv /\ [Next]_vars => WrittenInv'
  BY NextKeepsWritten
<1>2. TypeInv /\ WrittenInv /\ PageInv /\ [Next]_vars => PageInv'
  BY NextKeepsPage
<1>3. TypeInv /\ WrittenInv /\ PageInv /\ Compared /\ [Next]_vars => Compared'
  BY NextKeepsCompared
<1>4. TypeInv /\ Compared /\ [Next]_vars =>
         [\A b \in Bagits, l \in Locations \ {InitLoc} :
             transfer[b][l] # "ok" /\ transfer'[b][l] = "ok" =>
                 run.hash = Recorded(b, l) /\ run.hash # NoDigest]_vars
  BY StoresWhatWasCompared
<1> QED BY <1>1, <1>2, <1>3, <1>4, InitType, NextType, InitWritten, InitPage, InitCompared, PTL
        DEF Spec, ArchivedAsRecorded
=============================================================================
