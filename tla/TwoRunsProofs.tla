--------------------------- MODULE TwoRunsProofs ---------------------------
(***************************************************************************)
(* Two walks over the same zips: the unique key of table bagit is all that *)
(* keeps them apart, and it is enough.  What one process does by itself is *)
(* shown of either instance of OverlappingRun, in the same steps.          *)
(***************************************************************************)
EXTENDS TwoRuns, FiniteSetTheorems, TLAPS

(***************************************************************************)
(* What the walk writes: the rows, their content rows, and the rows of the *)
(* initial location.                                                       *)
(***************************************************************************)
Tables == [rows |-> rows, content |-> content,
           init |-> [b \in Bagits |-> transfer[b][InitLoc]]]
In(T) == {T.rows[k] : k \in 1 .. Len(T.rows)}

Adding == {"init", "content"}
RowPcs == {"open", "getkey", "setkey", "getiv", "setiv", "cipher", "create", "copy",
           "verify", "store"}

\* What a process keeps to by itself: it enters bagits in phase "ingest", and
\* in the others it writes no row of the initial location.
Own(p) ==
    /\ DOMAIN p = DOMAIN Idle /\ p.left \in Nat
    /\ p.pc \in {"walk", "sum", "insert", "init", "content"} => p.phase = "ingest"
    /\ p.pc \in {"sum", "insert", "init", "content"} => p.cur \in Bagits
    /\ p.pc \in RowPcs \cup {"target"} => InitLoc \notin p.locs
    /\ p.pc \in RowPcs => p.loc # InitLoc

\* The steps of a process whose memory is p before and n after.
Apart(T, p, U, n) == U = T /\ p.pc \notin Adding /\ n.pc \notin Adding
Inserts(T, p, U, n) ==
    /\ p.pc = "insert" /\ n.pc = "init" /\ n.cur = p.cur
    /\ p.cur \notin In(T) /\ U.rows = Append(T.rows, p.cur)
    /\ U.content = T.content /\ U.init = T.init
Initials(T, p, U, n) ==
    /\ p.pc = "init" /\ n.pc = "content" /\ n.cur = p.cur /\ n.left = NumContent
    /\ U.rows = T.rows /\ U.content = T.content /\ U.init = [T.init EXCEPT ![p.cur] = "ok"]
Adds(T, p, U, n) ==
    /\ p.pc = "content" /\ n.pc = "content" /\ n.cur = p.cur
    /\ p.left > 0 /\ n.left = p.left - 1
    /\ U.rows = T.rows /\ U.content = [T.content EXCEPT ![p.cur] = @ + 1] /\ U.init = T.init
Finishes(T, p, U, n) == U = T /\ p.pc = "content" /\ p.left = 0 /\ n.pc = "walk"

Acts(T, p, U, n) ==
    \/ Apart(T, p, U, n) \/ Inserts(T, p, U, n) \/ Initials(T, p, U, n)
    \/ Adds(T, p, U, n) \/ Finishes(T, p, U, n)

TransferTyped == transfer \in [Bagits -> [Locations -> {None, "ok", "error"}]]

LEMMA IdleIsOwn == Own(Idle)
BY DEF Own, Idle, RowPcs

LEMMA SameTables ==
    ASSUME UNCHANGED <<rows, content, transfer>>
    PROVE  Tables' = Tables
BY DEF Tables

\* A row of another location.
LEMMA RowElsewhere ==
    ASSUME TransferTyped, NEW b, NEW l, l # InitLoc, NEW s \in {"ok", "error"},
           transfer' = [transfer EXCEPT ![b][l] = s], UNCHANGED <<rows, content>>
    PROVE  Tables' = Tables /\ TransferTyped'
<1>1. \A c \in Bagits : transfer'[c][InitLoc] = transfer[c][InitLoc]
  BY LocationsAssumption DEF TransferTyped
<1>2. TransferTyped'
  BY DEF TransferTyped
<1> QED BY <1>1, <1>2 DEF Tables

(***************************************************************************)
(* The first process.                                                      *)
(***************************************************************************)
FirstActs ==
    Own(run') /\ TransferTyped' /\ Acts(Tables, run, Tables', run')

LEMMA FirstQuiet ==
    ASSUME TransferTyped, UNCHANGED <<rows, content, transfer>>, Own(run'),
           run.pc \notin Adding, run'.pc \notin Adding
    PROVE  FirstActs
BY SameTables DEF FirstActs, Acts, Apart, TransferTyped

LEMMA FirstIdle == First!Idle = Idle
BY DEF First!Idle, Idle, First!None, None, First!NoDigest, NoDigest, First!Absent, Absent,
       First!Missing, Missing

LEMMA FirstEnds ==
    ASSUME TransferTyped, run.pc \notin Adding,
           \/ First!Abort
           \/ \E kind : First!Fails(kind)
           \/ run.pc \in RowPcs /\ Own(run) /\ First!ErrorRow
    PROVE  FirstActs
<1>1. run' = Idle
  BY FirstIdle DEF First!Abort, First!Fails, First!ErrorRow, First!Exit
<1>2. Idle.pc \notin Adding
  BY DEF Idle, Adding
<1>3. CASE UNCHANGED <<rows, content, transfer>>
  BY <1>1, <1>2, <1>3, IdleIsOwn, FirstQuiet
<1>4. CASE run.pc \in RowPcs /\ Own(run) /\ First!ErrorRow /\ First!SetRow("error")
  <2>1. run.loc # InitLoc /\ UNCHANGED <<rows, content>>
        /\ transfer' = [transfer EXCEPT ![run.cur][run.loc] = "error"]
    BY <1>4 DEF Own, First!ErrorRow, First!SetRow
  <2>2. Tables' = Tables /\ TransferTyped'
    BY <2>1, RowElsewhere
  <2> QED BY <1>1, <1>2, <2>2, IdleIsOwn DEF FirstActs, Acts, Apart
<1> QED BY <1>3, <1>4 DEF First!Abort, First!Fails, First!ErrorRow, First!db

LEMMA FirstStarts ==
    ASSUME TransferTyped, Own(run), First!StartRun
    PROVE  FirstActs
<1>1. /\ run.pc = "idle" /\ UNCHANGED <<rows, content, transfer>>
  BY DEF First!StartRun, First!db
<1>2. ASSUME NEW locations, NEW checksum, First!LoadAll(locations, checksum)
      PROVE  Own(run') /\ run'.pc \in {"idle", "walk"}
  BY <1>2, FirstIdle DEF First!LoadAll, Own, Idle, RowPcs
<1>3. run' = Idle => Own(run') /\ run'.pc \in {"idle", "walk"}
  BY DEF Own, Idle, RowPcs
<1>4. Own(run') /\ run'.pc \in {"idle", "walk"}
  BY <1>2, <1>3, FirstIdle DEF First!StartRun, First!Exit
<1> QED BY <1>1, <1>4, FirstQuiet DEF Adding

LEMMA FirstWalks ==
    ASSUME TransferTyped, Own(run), First!IngestStep, "dbwrite" \notin FaultKinds
    PROVE  FirstActs
<1> USE DEF First!Goto, First!db, Adding
<1>1. ASSUME NEW b \in Bagits, First!WalkZip(b) PROVE FirstActs
  <2>1. run.pc = "walk"
    BY <1>1 DEF First!WalkZip
  <2>2. CASE First!SkipZip(b) \/ First!AcceptZip(b)
    <3>1. Own(run') /\ run'.pc \in {"walk", "sum"}
      BY <2>1, <2>2 DEF First!SkipZip, First!AcceptZip, Own, Idle, RowPcs
    <3> QED BY <2>1, <2>2, <3>1, FirstQuiet DEF First!SkipZip, First!AcceptZip
  <2> QED BY <1>1, <2>1, <2>2, FirstEnds DEF First!WalkZip, First!RejectZip
<1>2. CASE First!SumZip
  <2>1. run.pc = "sum"
    BY <1>2 DEF First!SumZip
  <2>2. CASE ~ First!Fails("io")
    <3>1. Own(run') /\ run'.pc = "insert"
      BY <1>2, <2>1, <2>2 DEF First!SumZip, Own, Idle, RowPcs
    <3> QED BY <1>2, <2>1, <2>2, <3>1, FirstQuiet DEF First!SumZip
  <2> QED BY <2>1, <2>2, FirstEnds
<1>3. CASE First!InsertBagit
  <2>1. run.pc = "insert"
    BY <1>3 DEF First!InsertBagit
  <2>2. CASE ~ First!Registered(run.cur) /\ First!InsertRow
    <3>1. Own(run') /\ run'.pc = "init" /\ run'.cur = run.cur
      BY <2>1, <2>2 DEF First!InsertRow, Own, Idle, RowPcs
    <3>2. run.cur \notin In(Tables)
      BY <2>2 DEF First!Registered, In, Tables
    <3>3. /\ Tables'.rows = Append(Tables.rows, run.cur)
          /\ Tables'.content = Tables.content /\ Tables'.init = Tables.init
      BY <2>2 DEF First!InsertRow, Tables
    <3> QED BY <2>1, <2>2, <3>1, <3>2, <3>3
            DEF FirstActs, Acts, Inserts, First!InsertRow, TransferTyped
  <2> QED BY <1>3, <2>1, <2>2, FirstEnds DEF First!InsertBagit, First!DuplicateRow
<1>4. CASE First!StoreInitLocation
  <2>1. run.pc = "init" /\ First!StoreInitRow
    BY <1>4 DEF First!StoreInitLocation, First!Fails, First!Fault
  <2>2. Own(run') /\ run'.pc = "content" /\ run'.cur = run.cur
        /\ run'.left = NumContent
    BY <2>1, BoundsAssumption DEF First!StoreInitRow, Own, Idle, RowPcs
  <2>3. /\ run.cur \in Bagits /\ UNCHANGED <<rows, content>>
        /\ transfer' = [transfer EXCEPT ![run.cur][InitLoc] = "ok"]
    BY <2>1 DEF First!StoreInitRow, Own
  <2>4. TransferTyped' /\ \A b \in Bagits :
            transfer'[b][InitLoc] = IF b = run.cur THEN "ok" ELSE transfer[b][InitLoc]
    BY <2>3, LocationsAssumption DEF TransferTyped
  <2>5. /\ Tables'.rows = Tables.rows /\ Tables'.content = Tables.content
        /\ Tables'.init = [Tables.init EXCEPT ![run.cur] = "ok"]
    BY <2>3, <2>4 DEF Tables
  <2> QED BY <2>1, <2>2, <2>4, <2>5 DEF FirstActs, Acts, Initials
<1>5. CASE First!AddContent
  <2>1. /\ run.pc = "content" /\ run.left > 0 /\ run.left \in Nat
        /\ run' = [run EXCEPT !.left = @ - 1]
        /\ content' = [content EXCEPT ![run.cur] = @ + 1]
        /\ UNCHANGED <<rows, transfer>>
    BY <1>5 DEF First!AddContent, First!Fault, Own
  <2>2. Own(run') /\ run'.pc = "content" /\ run'.cur = run.cur
        /\ run'.left = run.left - 1
    BY <2>1 DEF Own, Idle, RowPcs
  <2>3. /\ Tables'.content = [Tables.content EXCEPT ![run.cur] = @ + 1]
        /\ Tables'.rows = Tables.rows /\ Tables'.init = Tables.init
    BY <2>1 DEF Tables
  <2> QED BY <2>1, <2>2, <2>3 DEF FirstActs, Acts, Adds, TransferTyped
<1>6. CASE First!ZipDone
  <2>1. Own(run') /\ run.pc = "content" /\ run.left = 0 /\ run'.pc = "walk"
    BY <1>6 DEF First!ZipDone, Own, Idle, RowPcs
  <2>2. Tables' = Tables /\ TransferTyped'
    BY <1>6, SameTables DEF First!ZipDone, TransferTyped
  <2> QED BY <2>1, <2>2 DEF FirstActs, Acts, Finishes
<1>7. CASE First!WalkDone
  <2>1. Own(run') /\ run.pc = "walk" /\ run'.pc = "count"
    BY <1>7, FirstIdle DEF First!WalkDone, First!EnterPhase, Own, Idle, RowPcs
  <2> QED BY <1>7, <2>1, FirstQuiet DEF First!WalkDone
<1> QED BY <1>1, <1>2, <1>3, <1>4, <1>5, <1>6, <1>7 DEF First!IngestStep

\* Outside of the walk a step that writes no table keeps to its locations.
LEMMA FirstMoves ==
    ASSUME TransferTyped, Own(run), UNCHANGED <<rows, content, transfer>>,
           run.pc \notin {"walk", "sum", "insert", "init", "content"},
           DOMAIN run' = DOMAIN run, run'.left \in Nat,
           run'.pc \notin {"walk", "sum", "insert", "init", "content"},
           run'.pc \in RowPcs \cup {"target"} => InitLoc \notin run'.locs,
           run'.pc \in RowPcs => run'.loc # InitLoc
    PROVE  FirstActs
BY FirstQuiet DEF Own, Adding

LEMMA FirstPages ==
    ASSUME TransferTyped, Own(run), First!PageStep
    PROVE  FirstActs
<1> USE DEF First!Goto, First!db
<1>0. DOMAIN run = DOMAIN Idle /\ run.left \in Nat
  BY DEF Own
<1>1. CASE First!CountRows
  <2>1. run.pc = "count"
    BY <1>1 DEF First!CountRows
  <2>2. CASE ~ First!Fails("dbread")
    <3>1. DOMAIN run' = DOMAIN run /\ run'.left = run.left /\ run'.pc = "load"
      BY <1>0, <1>1, <2>2 DEF First!CountRows, Idle
    <3> QED BY <1>0, <1>1, <2>1, <2>2, <3>1, FirstMoves DEF First!CountRows, RowPcs
  <2> QED BY <2>1, <2>2, FirstEnds DEF Adding
<1>2. CASE First!LoadPage
  <2>1. run.pc = "load"
    BY <1>2 DEF First!LoadPage, First!ReadPage, First!PagesDone
  <2>2. ASSUME NEW page, run' = First!WithPage(page), UNCHANGED <<rows, content, transfer>>
        PROVE  FirstActs
    <3>1. DOMAIN run' = DOMAIN run /\ run'.left = run.left /\ run'.pc = "next"
      BY <1>0, <2>2 DEF First!WithPage, Idle
    <3> QED BY <1>0, <2>1, <2>2, <3>1, FirstMoves DEF RowPcs
  <2>3. CASE First!Goto(First!NextPhase)
    <3>1. run' = Idle \/ run' = First!EnterPhase("check", "count")
      <4>1. run' = First!NextPhase
        BY <2>3
      <4> QED BY <4>1, FirstIdle DEF First!NextPhase
    <3>2. run' = Idle => DOMAIN run' = DOMAIN Idle /\ run'.left = 0 /\ run'.pc = "idle"
      BY DEF Idle
    <3>3. run' = First!EnterPhase("check", "count") =>
              DOMAIN run' = DOMAIN Idle /\ run'.left = 0 /\ run'.pc = "count"
      BY FirstIdle DEF First!EnterPhase, Idle
    <3> QED BY <1>0, <2>1, <2>3, <3>1, <3>2, <3>3, FirstMoves DEF RowPcs
  <2>4. CASE First!Fails("dbread")
    BY <2>1, <2>4, FirstEnds DEF Adding
  <2> QED BY <1>2, <2>2, <2>3, <2>4
          DEF First!LoadPage, First!ReadPage, First!CutPage
<1>3. CASE First!EndOfPage
  <2>1. /\ DOMAIN run' = DOMAIN run /\ run'.left = run.left
        /\ run.pc = "next" /\ run'.pc = "load"
    BY <1>0, <1>3 DEF First!EndOfPage, Idle
  <2> QED BY <1>0, <1>3, <2>1, FirstMoves DEF First!EndOfPage, RowPcs
<1> QED BY <1>1, <1>2, <1>3 DEF First!PageStep

LEMMA FirstChecks ==
    ASSUME TransferTyped, Own(run), First!CheckStep
    PROVE  FirstActs
<1> USE DEF First!Goto, First!db
<1>0. DOMAIN run = DOMAIN Idle /\ run.left \in Nat
  BY DEF Own
<1>1. CASE First!BeginChecks \/ First!ChecksDone
  <2>1. /\ DOMAIN run' = DOMAIN run /\ run'.left = run.left
        /\ run.pc \in {"next", "test"} /\ run'.pc \in {"next", "test"}
        /\ UNCHANGED <<rows, content, transfer>>
    BY <1>0, <1>1 DEF First!BeginChecks, First!ChecksDone, First!HasBagit, First!BeginBagit,
                      First!EndBagit, Idle
  <2> QED BY <1>0, <2>1, FirstMoves DEF RowPcs
<1>2. ASSUME NEW l \in Locations, First!NextTest(l) PROVE FirstActs
  <2>1. run.pc = "test"
    BY <1>2 DEF First!NextTest
  <2>2. CASE ~ First!Abort /\ ~ First!Fails("dbread")
    <3>1. /\ DOMAIN run' = DOMAIN run /\ run'.left = run.left
          /\ run'.pc \in {"test", "read"} /\ UNCHANGED <<rows, content, transfer>>
      BY <1>0, <1>2, <2>2 DEF First!NextTest, Idle
    <3> QED BY <1>0, <2>1, <3>1, FirstMoves DEF RowPcs
  <2> QED BY <2>1, <2>2, FirstEnds DEF Adding
<1>3. CASE First!ReadCopy
  <2>1. /\ DOMAIN run' = DOMAIN run /\ run'.left = run.left
        /\ run.pc = "read" /\ run'.pc = "result" /\ UNCHANGED <<rows, content, transfer>>
    BY <1>0, <1>3 DEF First!ReadCopy, Idle
  <2> QED BY <1>0, <2>1, FirstMoves DEF RowPcs
<1>4. CASE First!StoreResult
  <2>1. run.pc = "result"
    BY <1>4 DEF First!StoreResult
  <2>2. CASE First!TestRow
    <3>1. /\ DOMAIN run' = DOMAIN run /\ run'.left = run.left
          /\ run'.pc = "test" /\ UNCHANGED <<rows, content, transfer>>
      BY <1>0, <2>2 DEF First!TestRow, Idle
    <3> QED BY <1>0, <2>1, <3>1, FirstMoves DEF RowPcs
  <2> QED BY <1>4, <2>1, <2>2, FirstEnds DEF First!StoreResult, Adding
<1> QED BY <1>1, <1>2, <1>3, <1>4 DEF First!CheckStep

\* The location in hand stays in hand.
LEMMA FirstCopies ==
    ASSUME TransferTyped, Own(run), UNCHANGED <<rows, content, transfer>>,
           run.pc \in RowPcs, run'.pc \in RowPcs \cup {"target"},
           DOMAIN run' = DOMAIN run, run'.left = run.left,
           run'.locs = run.locs, run'.loc = run.loc \/ run'.pc = "target"
    PROVE  FirstActs
BY FirstMoves DEF Own, RowPcs

LEMMA FirstTransfers ==
    ASSUME TransferTyped, Own(run), First!TransferStep
    PROVE  FirstActs
<1> USE DEF First!Goto, First!db
<1>0. DOMAIN run = DOMAIN Idle /\ run.left \in Nat
  BY DEF Own
<1>a. RowPcs \cap Adding = {}
  BY DEF RowPcs, Adding
<1>1. CASE First!LoadSource
  <2>1. run.pc = "next"
    BY <1>1 DEF First!LoadSource, First!HasBagit
  <2>2. CASE ~ First!Fails("dbread")
    <3>1. /\ DOMAIN run' = DOMAIN run /\ run'.left = run.left
          /\ run'.pc = "target" /\ InitLoc \notin run'.locs
          /\ UNCHANGED <<rows, content, transfer>>
      BY <1>0, <1>1, <2>2 DEF First!LoadSource, First!BeginBagit, Idle
    <3> QED BY <1>0, <2>1, <3>1, FirstMoves DEF RowPcs
  <2> QED BY <2>1, <2>2, FirstEnds DEF Adding
<1>2. CASE First!TransferDone
  <2>1. /\ DOMAIN run' = DOMAIN run /\ run'.left = run.left
        /\ run.pc = "target" /\ run'.pc = "next" /\ UNCHANGED <<rows, content, transfer>>
    BY <1>0, <1>2 DEF First!TransferDone, First!EndBagit, Idle
  <2> QED BY <1>0, <2>1, FirstMoves DEF RowPcs
<1>3. ASSUME NEW l \in Locations, First!NextTarget(l) PROVE FirstActs
  <2>1. /\ run.pc = "target" /\ l \in run.locs /\ InitLoc \notin run.locs
    BY <1>3 DEF First!NextTarget, Own
  <2>2. /\ DOMAIN run' = DOMAIN run /\ run'.left = run.left
        /\ run'.pc = "target" \/ (run'.pc = "open" /\ run'.loc = l)
        /\ run'.locs = run.locs \ {l} /\ UNCHANGED <<rows, content, transfer>>
    BY <1>0, <1>3 DEF First!NextTarget, First!SkipTarget, First!PickTarget, Idle
  <2> QED BY <1>0, <2>1, <2>2, FirstMoves DEF RowPcs
<1>4. CASE First!OpenSource
  <2>1. run.pc \in RowPcs
    BY <1>4 DEF First!OpenSource, RowPcs
  <2>2. CASE ~ First!Abort /\ ~ First!Fails("io") /\ ~ First!ErrorRow
    <3>1. /\ DOMAIN run' = DOMAIN run /\ run'.left = run.left
          /\ run'.locs = run.locs /\ run'.loc = run.loc
          /\ run'.pc \in {"getkey", "create"} /\ UNCHANGED <<rows, content, transfer>>
      BY <1>0, <1>4, <2>2 DEF First!OpenSource, Idle
    <3> QED BY <2>1, <3>1, FirstCopies DEF RowPcs
  <2> QED BY <1>a, <2>1, <2>2, FirstEnds
<1>5. CASE First!GetKey \/ First!GetIV
  <2>1. /\ DOMAIN run' = DOMAIN run /\ run'.left = run.left
        /\ run'.locs = run.locs /\ run'.loc = run.loc
        /\ run.pc \in {"getkey", "getiv"} /\ run'.pc \in {"setkey", "getiv", "setiv", "cipher"}
        /\ UNCHANGED <<rows, content, transfer>>
    BY <1>0, <1>5 DEF First!GetKey, First!GetIV, Idle
  <2> QED BY <2>1, FirstCopies DEF RowPcs
<1>6. CASE First!SetKey \/ First!SetIV
  <2>1. run.pc \in RowPcs /\ run.pc \notin Adding
    BY <1>6 DEF First!SetKey, First!SetIV, RowPcs, Adding
  <2>2. CASE (\E k \in Keys : First!WriteKey(k)) \/ (\E i \in IVs : First!WriteIV(i))
    <3>1. /\ DOMAIN run' = DOMAIN run /\ run'.left = run.left
          /\ run'.locs = run.locs /\ run'.loc = run.loc
          /\ run'.pc \in {"getiv", "cipher"} /\ UNCHANGED <<rows, content, transfer>>
      BY <1>0, <2>2 DEF First!WriteKey, First!WriteIV, Idle
    <3> QED BY <2>1, <3>1, FirstCopies DEF RowPcs
  <2>3. CASE First!TearKey \/ First!TearIV
    <3>1. run' = Idle /\ UNCHANGED <<rows, content, transfer>>
      BY <2>3, FirstIdle DEF First!TearKey, First!TearIV, First!Exit
    <3>2. Own(run') /\ run'.pc \notin Adding
      BY <3>1, IdleIsOwn DEF Idle, Adding
    <3> QED BY <2>1, <3>1, <3>2, FirstQuiet
  <2>4. CASE First!Fails("keywrite")
    BY <2>1, <2>4, FirstEnds
  <2> QED BY <1>6, <2>2, <2>3, <2>4 DEF First!SetKey, First!SetIV
<1>7. CASE First!NewCipher
  <2>1. run.pc \in RowPcs
    BY <1>7 DEF First!NewCipher, RowPcs
  <2>2. CASE ~ First!Abort /\ ~ First!ErrorRow
    <3>1. /\ DOMAIN run' = DOMAIN run /\ run'.left = run.left
          /\ run'.locs = run.locs /\ run'.loc = run.loc
          /\ run'.pc = "create" /\ UNCHANGED <<rows, content, transfer>>
      BY <1>0, <1>7, <2>2 DEF First!NewCipher, Idle
    <3> QED BY <2>1, <3>1, FirstCopies DEF RowPcs
  <2> QED BY <1>a, <2>1, <2>2, FirstEnds
<1>8. CASE First!CreateTarget \/ First!CopyStream
  <2>1. run.pc \in RowPcs
    BY <1>8 DEF First!CreateTarget, First!CopyStream, RowPcs
  <2>2. CASE ~ First!Abort /\ ~ First!ErrorRow
    <3>1. /\ DOMAIN run' = DOMAIN run /\ run'.left = run.left
          /\ run'.locs = run.locs /\ run'.loc = run.loc
          /\ run'.pc \in {"copy", "verify"} /\ UNCHANGED <<rows, content, transfer>>
      BY <1>0, <1>8, <2>2
         DEF First!CreateTarget, First!CopyStream, First!WriteTarget, Idle
    <3> QED BY <2>1, <3>1, FirstCopies DEF RowPcs
  <2> QED BY <1>a, <1>8, <2>1, <2>2, FirstEnds
<1>9. CASE First!VerifyStream
  <2>1. /\ DOMAIN run' = DOMAIN run /\ run'.left = run.left
        /\ run'.locs = run.locs
        /\ run'.loc = run.loc \/ run'.pc = "target"
        /\ run.pc = "verify" /\ run'.pc \in {"store", "target"}
        /\ UNCHANGED <<rows, content, transfer>>
    BY <1>0, <1>9 DEF First!VerifyStream, First!RecordDigest, First!CompareDigest,
                      First!NextLocation, Idle
  <2> QED BY <2>1, FirstCopies DEF RowPcs
<1>10. CASE First!StoreOk
  <2>1. run.pc = "store"
    BY <1>10 DEF First!StoreOk
  <2>2. CASE First!OkRow
    <3>1. /\ DOMAIN run' = DOMAIN run /\ run'.left = run.left
          /\ run'.locs = run.locs /\ run'.pc = "target"
      BY <1>0, <2>2 DEF First!OkRow, First!NextLocation, Idle
    <3>2. /\ run.loc # InitLoc /\ UNCHANGED <<rows, content>>
          /\ transfer' = [transfer EXCEPT ![run.cur][run.loc] = "ok"]
      BY <2>1, <2>2 DEF First!OkRow, First!SetRow, Own, RowPcs
    <3>3. Tables' = Tables /\ TransferTyped'
      BY <3>2, RowElsewhere
    <3>4. Own(run')
      BY <1>0, <2>1, <3>1 DEF Own, RowPcs
    <3> QED BY <2>1, <3>1, <3>3, <3>4 DEF FirstActs, Acts, Apart, Adding
  <2> QED BY <1>10, <2>1, <2>2, FirstEnds DEF First!StoreOk, Adding
<1> QED BY <1>1, <1>2, <1>3, <1>4, <1>5, <1>6, <1>7, <1>8, <1>9, <1>10 DEF First!TransferStep

\* The steps that meet a file the other process has open.
LEMMA FirstMeets ==
    ASSUME TransferTyped, Own(run), First!ReadTornKey \/ First!ReadTornIV \/ First!MixedCopy
    PROVE  FirstActs
<1>1. DOMAIN run = DOMAIN Idle
  BY DEF Own
<1>2. /\ DOMAIN run' = DOMAIN run /\ run'.left = run.left
      /\ run'.locs = run.locs /\ run'.loc = run.loc
      /\ run.pc \in RowPcs /\ run'.pc \in RowPcs /\ UNCHANGED <<rows, content, transfer>>
  BY <1>1 DEF First!ReadTornKey, First!ReadTornIV, First!MixedCopy, First!Goto, First!db,
              First!WriteTarget, Idle, RowPcs
<1> QED BY <1>2, FirstCopies

LEMMA FirstStepActs ==
    ASSUME TransferTyped, Own(run), StartFirst \/ FirstStep, "dbwrite" \notin FaultKinds
    PROVE  FirstActs
BY FirstStarts, FirstWalks, FirstPages, FirstTransfers, FirstChecks, FirstMeets
   DEF StartFirst, FirstStep, First!Beside, First!StepBeside, First!Step

(***************************************************************************)
(* The second process.                                                     *)
(***************************************************************************)
SecondActs ==
    Own(second') /\ TransferTyped' /\ Acts(Tables, second, Tables', second')

LEMMA SecondQuiet ==
    ASSUME TransferTyped, UNCHANGED <<rows, content, transfer>>, Own(second'),
           second.pc \notin Adding, second'.pc \notin Adding
    PROVE  SecondActs
BY SameTables DEF SecondActs, Acts, Apart, TransferTyped

LEMMA SecondIdle == Second!Idle = Idle
BY DEF Second!Idle, Idle, Second!None, None, Second!NoDigest, NoDigest, Second!Absent, Absent,
       Second!Missing, Missing

LEMMA SecondEnds ==
    ASSUME TransferTyped, second.pc \notin Adding,
           \/ Second!Abort
           \/ \E kind : Second!Fails(kind)
           \/ second.pc \in RowPcs /\ Own(second) /\ Second!ErrorRow
    PROVE  SecondActs
<1>1. second' = Idle
  BY SecondIdle DEF Second!Abort, Second!Fails, Second!ErrorRow, Second!Exit
<1>2. Idle.pc \notin Adding
  BY DEF Idle, Adding
<1>3. CASE UNCHANGED <<rows, content, transfer>>
  BY <1>1, <1>2, <1>3, IdleIsOwn, SecondQuiet
<1>4. CASE second.pc \in RowPcs /\ Own(second) /\ Second!ErrorRow /\ Second!SetRow("error")
  <2>1. second.loc # InitLoc /\ UNCHANGED <<rows, content>>
        /\ transfer' = [transfer EXCEPT ![second.cur][second.loc] = "error"]
    BY <1>4 DEF Own, Second!ErrorRow, Second!SetRow
  <2>2. Tables' = Tables /\ TransferTyped'
    BY <2>1, RowElsewhere
  <2> QED BY <1>1, <1>2, <2>2, IdleIsOwn DEF SecondActs, Acts, Apart
<1> QED BY <1>3, <1>4 DEF Second!Abort, Second!Fails, Second!ErrorRow, Second!db

LEMMA SecondStarts ==
    ASSUME TransferTyped, Own(second), Second!StartRun
    PROVE  SecondActs
<1>1. /\ second.pc = "idle" /\ UNCHANGED <<rows, content, transfer>>
  BY DEF Second!StartRun, Second!db
<1>2. ASSUME NEW locations, NEW checksum, Second!LoadAll(locations, checksum)
      PROVE  Own(second') /\ second'.pc \in {"idle", "walk"}
  BY <1>2, SecondIdle DEF Second!LoadAll, Own, Idle, RowPcs
<1>3. second' = Idle => Own(second') /\ second'.pc \in {"idle", "walk"}
  BY DEF Own, Idle, RowPcs
<1>4. Own(second') /\ second'.pc \in {"idle", "walk"}
  BY <1>2, <1>3, SecondIdle DEF Second!StartRun, Second!Exit
<1> QED BY <1>1, <1>4, SecondQuiet DEF Adding

LEMMA SecondWalks ==
    ASSUME TransferTyped, Own(second), Second!IngestStep, "dbwrite" \notin FaultKinds
    PROVE  SecondActs
<1> USE DEF Second!Goto, Second!db, Adding
<1>1. ASSUME NEW b \in Bagits, Second!WalkZip(b) PROVE SecondActs
  <2>1. second.pc = "walk"
    BY <1>1 DEF Second!WalkZip
  <2>2. CASE Second!SkipZip(b) \/ Second!AcceptZip(b)
    <3>1. Own(second') /\ second'.pc \in {"walk", "sum"}
      BY <2>1, <2>2 DEF Second!SkipZip, Second!AcceptZip, Own, Idle, RowPcs
    <3> QED BY <2>1, <2>2, <3>1, SecondQuiet DEF Second!SkipZip, Second!AcceptZip
  <2> QED BY <1>1, <2>1, <2>2, SecondEnds DEF Second!WalkZip, Second!RejectZip
<1>2. CASE Second!SumZip
  <2>1. second.pc = "sum"
    BY <1>2 DEF Second!SumZip
  <2>2. CASE ~ Second!Fails("io")
    <3>1. Own(second') /\ second'.pc = "insert"
      BY <1>2, <2>1, <2>2 DEF Second!SumZip, Own, Idle, RowPcs
    <3> QED BY <1>2, <2>1, <2>2, <3>1, SecondQuiet DEF Second!SumZip
  <2> QED BY <2>1, <2>2, SecondEnds
<1>3. CASE Second!InsertBagit
  <2>1. second.pc = "insert"
    BY <1>3 DEF Second!InsertBagit
  <2>2. CASE ~ Second!Registered(second.cur) /\ Second!InsertRow
    <3>1. Own(second') /\ second'.pc = "init" /\ second'.cur = second.cur
      BY <2>1, <2>2 DEF Second!InsertRow, Own, Idle, RowPcs
    <3>2. second.cur \notin In(Tables)
      BY <2>2 DEF Second!Registered, In, Tables
    <3>3. /\ Tables'.rows = Append(Tables.rows, second.cur)
          /\ Tables'.content = Tables.content /\ Tables'.init = Tables.init
      BY <2>2 DEF Second!InsertRow, Tables
    <3> QED BY <2>1, <2>2, <3>1, <3>2, <3>3
            DEF SecondActs, Acts, Inserts, Second!InsertRow, TransferTyped
  <2> QED BY <1>3, <2>1, <2>2, SecondEnds DEF Second!InsertBagit, Second!DuplicateRow
<1>4. CASE Second!StoreInitLocation
  <2>1. second.pc = "init" /\ Second!StoreInitRow
    BY <1>4 DEF Second!StoreInitLocation, Second!Fails, Second!Fault
  <2>2. Own(second') /\ second'.pc = "content" /\ second'.cur = second.cur
        /\ second'.left = NumContent
    BY <2>1, BoundsAssumption DEF Second!StoreInitRow, Own, Idle, RowPcs
  <2>3. /\ second.cur \in Bagits /\ UNCHANGED <<rows, content>>
        /\ transfer' = [transfer EXCEPT ![second.cur][InitLoc] = "ok"]
    BY <2>1 DEF Second!StoreInitRow, Own
  <2>4. TransferTyped' /\ \A b \in Bagits :
            transfer'[b][InitLoc] = IF b = second.cur THEN "ok" ELSE transfer[b][InitLoc]
    BY <2>3, LocationsAssumption DEF TransferTyped
  <2>5. /\ Tables'.rows = Tables.rows /\ Tables'.content = Tables.content
        /\ Tables'.init = [Tables.init EXCEPT ![second.cur] = "ok"]
    BY <2>3, <2>4 DEF Tables
  <2> QED BY <2>1, <2>2, <2>4, <2>5 DEF SecondActs, Acts, Initials
<1>5. CASE Second!AddContent
  <2>1. /\ second.pc = "content" /\ second.left > 0 /\ second.left \in Nat
        /\ second' = [second EXCEPT !.left = @ - 1]
        /\ content' = [content EXCEPT ![second.cur] = @ + 1]
        /\ UNCHANGED <<rows, transfer>>
    BY <1>5 DEF Second!AddContent, Second!Fault, Own
  <2>2. Own(second') /\ second'.pc = "content" /\ second'.cur = second.cur
        /\ second'.left = second.left - 1
    BY <2>1 DEF Own, Idle, RowPcs
  <2>3. /\ Tables'.content = [Tables.content EXCEPT ![second.cur] = @ + 1]
        /\ Tables'.rows = Tables.rows /\ Tables'.init = Tables.init
    BY <2>1 DEF Tables
  <2> QED BY <2>1, <2>2, <2>3 DEF SecondActs, Acts, Adds, TransferTyped
<1>6. CASE Second!ZipDone
  <2>1. Own(second') /\ second.pc = "content" /\ second.left = 0 /\ second'.pc = "walk"
    BY <1>6 DEF Second!ZipDone, Own, Idle, RowPcs
  <2>2. Tables' = Tables /\ TransferTyped'
    BY <1>6, SameTables DEF Second!ZipDone, TransferTyped
  <2> QED BY <2>1, <2>2 DEF SecondActs, Acts, Finishes
<1>7. CASE Second!WalkDone
  <2>1. Own(second') /\ second.pc = "walk" /\ second'.pc = "count"
    BY <1>7, SecondIdle DEF Second!WalkDone, Second!EnterPhase, Own, Idle, RowPcs
  <2> QED BY <1>7, <2>1, SecondQuiet DEF Second!WalkDone
<1> QED BY <1>1, <1>2, <1>3, <1>4, <1>5, <1>6, <1>7 DEF Second!IngestStep

\* Outside of the walk a step that writes no table keeps to its locations.
LEMMA SecondMoves ==
    ASSUME TransferTyped, Own(second), UNCHANGED <<rows, content, transfer>>,
           second.pc \notin {"walk", "sum", "insert", "init", "content"},
           DOMAIN second' = DOMAIN second, second'.left \in Nat,
           second'.pc \notin {"walk", "sum", "insert", "init", "content"},
           second'.pc \in RowPcs \cup {"target"} => InitLoc \notin second'.locs,
           second'.pc \in RowPcs => second'.loc # InitLoc
    PROVE  SecondActs
BY SecondQuiet DEF Own, Adding

LEMMA SecondPages ==
    ASSUME TransferTyped, Own(second), Second!PageStep
    PROVE  SecondActs
<1> USE DEF Second!Goto, Second!db
<1>0. DOMAIN second = DOMAIN Idle /\ second.left \in Nat
  BY DEF Own
<1>1. CASE Second!CountRows
  <2>1. second.pc = "count"
    BY <1>1 DEF Second!CountRows
  <2>2. CASE ~ Second!Fails("dbread")
    <3>1. DOMAIN second' = DOMAIN second /\ second'.left = second.left /\ second'.pc = "load"
      BY <1>0, <1>1, <2>2 DEF Second!CountRows, Idle
    <3> QED BY <1>0, <1>1, <2>1, <2>2, <3>1, SecondMoves DEF Second!CountRows, RowPcs
  <2> QED BY <2>1, <2>2, SecondEnds DEF Adding
<1>2. CASE Second!LoadPage
  <2>1. second.pc = "load"
    BY <1>2 DEF Second!LoadPage, Second!ReadPage, Second!PagesDone
  <2>2. ASSUME NEW page, second' = Second!WithPage(page), UNCHANGED <<rows, content, transfer>>
        PROVE  SecondActs
    <3>1. DOMAIN second' = DOMAIN second /\ second'.left = second.left /\ second'.pc = "next"
      BY <1>0, <2>2 DEF Second!WithPage, Idle
    <3> QED BY <1>0, <2>1, <2>2, <3>1, SecondMoves DEF RowPcs
  <2>3. CASE Second!Goto(Second!NextPhase)
    <3>1. second' = Idle \/ second' = Second!EnterPhase("check", "count")
      <4>1. second' = Second!NextPhase
        BY <2>3
      <4> QED BY <4>1, SecondIdle DEF Second!NextPhase
    <3>2. second' = Idle => DOMAIN second' = DOMAIN Idle /\ second'.left = 0 /\ second'.pc = "idle"
      BY DEF Idle
    <3>3. second' = Second!EnterPhase("check", "count") =>
              DOMAIN second' = DOMAIN Idle /\ second'.left = 0 /\ second'.pc = "count"
      BY SecondIdle DEF Second!EnterPhase, Idle
    <3> QED BY <1>0, <2>1, <2>3, <3>1, <3>2, <3>3, SecondMoves DEF RowPcs
  <2>4. CASE Second!Fails("dbread")
    BY <2>1, <2>4, SecondEnds DEF Adding
  <2> QED BY <1>2, <2>2, <2>3, <2>4
          DEF Second!LoadPage, Second!ReadPage, Second!CutPage
<1>3. CASE Second!EndOfPage
  <2>1. /\ DOMAIN second' = DOMAIN second /\ second'.left = second.left
        /\ second.pc = "next" /\ second'.pc = "load"
    BY <1>0, <1>3 DEF Second!EndOfPage, Idle
  <2> QED BY <1>0, <1>3, <2>1, SecondMoves DEF Second!EndOfPage, RowPcs
<1> QED BY <1>1, <1>2, <1>3 DEF Second!PageStep

LEMMA SecondChecks ==
    ASSUME TransferTyped, Own(second), Second!CheckStep
    PROVE  SecondActs
<1> USE DEF Second!Goto, Second!db
<1>0. DOMAIN second = DOMAIN Idle /\ second.left \in Nat
  BY DEF Own
<1>1. CASE Second!BeginChecks \/ Second!ChecksDone
  <2>1. /\ DOMAIN second' = DOMAIN second /\ second'.left = second.left
        /\ second.pc \in {"next", "test"} /\ second'.pc \in {"next", "test"}
        /\ UNCHANGED <<rows, content, transfer>>
    BY <1>0, <1>1 DEF Second!BeginChecks, Second!ChecksDone, Second!HasBagit, Second!BeginBagit,
                      Second!EndBagit, Idle
  <2> QED BY <1>0, <2>1, SecondMoves DEF RowPcs
<1>2. ASSUME NEW l \in Locations, Second!NextTest(l) PROVE SecondActs
  <2>1. second.pc = "test"
    BY <1>2 DEF Second!NextTest
  <2>2. CASE ~ Second!Abort /\ ~ Second!Fails("dbread")
    <3>1. /\ DOMAIN second' = DOMAIN second /\ second'.left = second.left
          /\ second'.pc \in {"test", "read"} /\ UNCHANGED <<rows, content, transfer>>
      BY <1>0, <1>2, <2>2 DEF Second!NextTest, Idle
    <3> QED BY <1>0, <2>1, <3>1, SecondMoves DEF RowPcs
  <2> QED BY <2>1, <2>2, SecondEnds DEF Adding
<1>3. CASE Second!ReadCopy
  <2>1. /\ DOMAIN second' = DOMAIN second /\ second'.left = second.left
        /\ second.pc = "read" /\ second'.pc = "result" /\ UNCHANGED <<rows, content, transfer>>
    BY <1>0, <1>3 DEF Second!ReadCopy, Idle
  <2> QED BY <1>0, <2>1, SecondMoves DEF RowPcs
<1>4. CASE Second!StoreResult
  <2>1. second.pc = "result"
    BY <1>4 DEF Second!StoreResult
  <2>2. CASE Second!TestRow
    <3>1. /\ DOMAIN second' = DOMAIN second /\ second'.left = second.left
          /\ second'.pc = "test" /\ UNCHANGED <<rows, content, transfer>>
      BY <1>0, <2>2 DEF Second!TestRow, Idle
    <3> QED BY <1>0, <2>1, <3>1, SecondMoves DEF RowPcs
  <2> QED BY <1>4, <2>1, <2>2, SecondEnds DEF Second!StoreResult, Adding
<1> QED BY <1>1, <1>2, <1>3, <1>4 DEF Second!CheckStep

\* The location in hand stays in hand.
LEMMA SecondCopies ==
    ASSUME TransferTyped, Own(second), UNCHANGED <<rows, content, transfer>>,
           second.pc \in RowPcs, second'.pc \in RowPcs \cup {"target"},
           DOMAIN second' = DOMAIN second, second'.left = second.left,
           second'.locs = second.locs, second'.loc = second.loc \/ second'.pc = "target"
    PROVE  SecondActs
BY SecondMoves DEF Own, RowPcs

LEMMA SecondTransfers ==
    ASSUME TransferTyped, Own(second), Second!TransferStep
    PROVE  SecondActs
<1> USE DEF Second!Goto, Second!db
<1>0. DOMAIN second = DOMAIN Idle /\ second.left \in Nat
  BY DEF Own
<1>a. RowPcs \cap Adding = {}
  BY DEF RowPcs, Adding
<1>1. CASE Second!LoadSource
  <2>1. second.pc = "next"
    BY <1>1 DEF Second!LoadSource, Second!HasBagit
  <2>2. CASE ~ Second!Fails("dbread")
    <3>1. /\ DOMAIN second' = DOMAIN second /\ second'.left = second.left
          /\ second'.pc = "target" /\ InitLoc \notin second'.locs
          /\ UNCHANGED <<rows, content, transfer>>
      BY <1>0, <1>1, <2>2 DEF Second!LoadSource, Second!BeginBagit, Idle
    <3> QED BY <1>0, <2>1, <3>1, SecondMoves DEF RowPcs
  <2> QED BY <2>1, <2>2, SecondEnds DEF Adding
<1>2. CASE Second!TransferDone
  <2>1. /\ DOMAIN second' = DOMAIN second /\ second'.left = second.left
        /\ second.pc = "target" /\ second'.pc = "next" /\ UNCHANGED <<rows, content, transfer>>
    BY <1>0, <1>2 DEF Second!TransferDone, Second!EndBagit, Idle
  <2> QED BY <1>0, <2>1, SecondMoves DEF RowPcs
<1>3. ASSUME NEW l \in Locations, Second!NextTarget(l) PROVE SecondActs
  <2>1. /\ second.pc = "target" /\ l \in second.locs /\ InitLoc \notin second.locs
    BY <1>3 DEF Second!NextTarget, Own
  <2>2. /\ DOMAIN second' = DOMAIN second /\ second'.left = second.left
        /\ second'.pc = "target" \/ (second'.pc = "open" /\ second'.loc = l)
        /\ second'.locs = second.locs \ {l} /\ UNCHANGED <<rows, content, transfer>>
    BY <1>0, <1>3 DEF Second!NextTarget, Second!SkipTarget, Second!PickTarget, Idle
  <2> QED BY <1>0, <2>1, <2>2, SecondMoves DEF RowPcs
<1>4. CASE Second!OpenSource
  <2>1. second.pc \in RowPcs
    BY <1>4 DEF Second!OpenSource, RowPcs
  <2>2. CASE ~ Second!Abort /\ ~ Second!Fails("io") /\ ~ Second!ErrorRow
    <3>1. /\ DOMAIN second' = DOMAIN second /\ second'.left = second.left
          /\ second'.locs = second.locs /\ second'.loc = second.loc
          /\ second'.pc \in {"getkey", "create"} /\ UNCHANGED <<rows, content, transfer>>
      BY <1>0, <1>4, <2>2 DEF Second!OpenSource, Idle
    <3> QED BY <2>1, <3>1, SecondCopies DEF RowPcs
  <2> QED BY <1>a, <2>1, <2>2, SecondEnds
<1>5. CASE Second!GetKey \/ Second!GetIV
  <2>1. /\ DOMAIN second' = DOMAIN second /\ second'.left = second.left
        /\ second'.locs = second.locs /\ second'.loc = second.loc
        /\ second.pc \in {"getkey", "getiv"} /\ second'.pc \in {"setkey", "getiv", "setiv", "cipher"}
        /\ UNCHANGED <<rows, content, transfer>>
    BY <1>0, <1>5 DEF Second!GetKey, Second!GetIV, Idle
  <2> QED BY <2>1, SecondCopies DEF RowPcs
<1>6. CASE Second!SetKey \/ Second!SetIV
  <2>1. second.pc \in RowPcs /\ second.pc \notin Adding
    BY <1>6 DEF Second!SetKey, Second!SetIV, RowPcs, Adding
  <2>2. CASE (\E k \in Keys : Second!WriteKey(k)) \/ (\E i \in IVs : Second!WriteIV(i))
    <3>1. /\ DOMAIN second' = DOMAIN second /\ second'.left = second.left
          /\ second'.locs = second.locs /\ second'.loc = second.loc
          /\ second'.pc \in {"getiv", "cipher"} /\ UNCHANGED <<rows, content, transfer>>
      BY <1>0, <2>2 DEF Second!WriteKey, Second!WriteIV, Idle
    <3> QED BY <2>1, <3>1, SecondCopies DEF RowPcs
  <2>3. CASE Second!TearKey \/ Second!TearIV
    <3>1. second' = Idle /\ UNCHANGED <<rows, content, transfer>>
      BY <2>3, SecondIdle DEF Second!TearKey, Second!TearIV, Second!Exit
    <3>2. Own(second') /\ second'.pc \notin Adding
      BY <3>1, IdleIsOwn DEF Idle, Adding
    <3> QED BY <2>1, <3>1, <3>2, SecondQuiet
  <2>4. CASE Second!Fails("keywrite")
    BY <2>1, <2>4, SecondEnds
  <2> QED BY <1>6, <2>2, <2>3, <2>4 DEF Second!SetKey, Second!SetIV
<1>7. CASE Second!NewCipher
  <2>1. second.pc \in RowPcs
    BY <1>7 DEF Second!NewCipher, RowPcs
  <2>2. CASE ~ Second!Abort /\ ~ Second!ErrorRow
    <3>1. /\ DOMAIN second' = DOMAIN second /\ second'.left = second.left
          /\ second'.locs = second.locs /\ second'.loc = second.loc
          /\ second'.pc = "create" /\ UNCHANGED <<rows, content, transfer>>
      BY <1>0, <1>7, <2>2 DEF Second!NewCipher, Idle
    <3> QED BY <2>1, <3>1, SecondCopies DEF RowPcs
  <2> QED BY <1>a, <2>1, <2>2, SecondEnds
<1>8. CASE Second!CreateTarget \/ Second!CopyStream
  <2>1. second.pc \in RowPcs
    BY <1>8 DEF Second!CreateTarget, Second!CopyStream, RowPcs
  <2>2. CASE ~ Second!Abort /\ ~ Second!ErrorRow
    <3>1. /\ DOMAIN second' = DOMAIN second /\ second'.left = second.left
          /\ second'.locs = second.locs /\ second'.loc = second.loc
          /\ second'.pc \in {"copy", "verify"} /\ UNCHANGED <<rows, content, transfer>>
      BY <1>0, <1>8, <2>2
         DEF Second!CreateTarget, Second!CopyStream, Second!WriteTarget, Idle
    <3> QED BY <2>1, <3>1, SecondCopies DEF RowPcs
  <2> QED BY <1>a, <1>8, <2>1, <2>2, SecondEnds
<1>9. CASE Second!VerifyStream
  <2>1. /\ DOMAIN second' = DOMAIN second /\ second'.left = second.left
        /\ second'.locs = second.locs
        /\ second'.loc = second.loc \/ second'.pc = "target"
        /\ second.pc = "verify" /\ second'.pc \in {"store", "target"}
        /\ UNCHANGED <<rows, content, transfer>>
    BY <1>0, <1>9 DEF Second!VerifyStream, Second!RecordDigest, Second!CompareDigest,
                      Second!NextLocation, Idle
  <2> QED BY <2>1, SecondCopies DEF RowPcs
<1>10. CASE Second!StoreOk
  <2>1. second.pc = "store"
    BY <1>10 DEF Second!StoreOk
  <2>2. CASE Second!OkRow
    <3>1. /\ DOMAIN second' = DOMAIN second /\ second'.left = second.left
          /\ second'.locs = second.locs /\ second'.pc = "target"
      BY <1>0, <2>2 DEF Second!OkRow, Second!NextLocation, Idle
    <3>2. /\ second.loc # InitLoc /\ UNCHANGED <<rows, content>>
          /\ transfer' = [transfer EXCEPT ![second.cur][second.loc] = "ok"]
      BY <2>1, <2>2 DEF Second!OkRow, Second!SetRow, Own, RowPcs
    <3>3. Tables' = Tables /\ TransferTyped'
      BY <3>2, RowElsewhere
    <3>4. Own(second')
      BY <1>0, <2>1, <3>1 DEF Own, RowPcs
    <3> QED BY <2>1, <3>1, <3>3, <3>4 DEF SecondActs, Acts, Apart, Adding
  <2> QED BY <1>10, <2>1, <2>2, SecondEnds DEF Second!StoreOk, Adding
<1> QED BY <1>1, <1>2, <1>3, <1>4, <1>5, <1>6, <1>7, <1>8, <1>9, <1>10 DEF Second!TransferStep

\* The steps that meet a file the other process has open.
LEMMA SecondMeets ==
    ASSUME TransferTyped, Own(second), Second!ReadTornKey \/ Second!ReadTornIV \/ Second!MixedCopy
    PROVE  SecondActs
<1>1. DOMAIN second = DOMAIN Idle
  BY DEF Own
<1>2. /\ DOMAIN second' = DOMAIN second /\ second'.left = second.left
      /\ second'.locs = second.locs /\ second'.loc = second.loc
      /\ second.pc \in RowPcs /\ second'.pc \in RowPcs /\ UNCHANGED <<rows, content, transfer>>
  BY <1>1 DEF Second!ReadTornKey, Second!ReadTornIV, Second!MixedCopy, Second!Goto, Second!db,
              Second!WriteTarget, Idle, RowPcs
<1> QED BY <1>2, SecondCopies

LEMMA SecondStepActs ==
    ASSUME TransferTyped, Own(second), StartSecond \/ SecondStep, "dbwrite" \notin FaultKinds
    PROVE  SecondActs
BY SecondStarts, SecondWalks, SecondPages, SecondTransfers, SecondChecks, SecondMeets
   DEF StartSecond, SecondStep, Second!Beside, Second!StepBeside, Second!Step

(***************************************************************************)
(* Both of them.  A bagit that has a row is completely entered, or exactly *)
(* one process is at it.                                                   *)
(***************************************************************************)
CompleteIn(T, b) == T.init[b] = "ok" /\ T.content[b] = NumContent
AtWork(p, b) == p.pc \in Adding /\ p.cur = b

Busy(T, p) ==
    p.pc \in Adding =>
        /\ p.cur \in In(T)
        /\ p.pc = "init" => T.content[p.cur] = 0
        /\ p.pc = "content" => T.init[p.cur] = "ok" /\ T.content[p.cur] + p.left = NumContent

TablesOfWalk(T) ==
    /\ T.rows \in Seq(Bagits) /\ T.content \in [Bagits -> Nat]
    /\ T.init \in [Bagits -> {None, "ok", "error"}]

EntryInv(T, p, q) ==
    /\ TablesOfWalk(T)
    /\ \A i, j \in 1 .. Len(T.rows) : T.rows[i] = T.rows[j] => i = j
    /\ \A b \in Bagits \ In(T) : T.content[b] = 0
    /\ \A b \in In(T) : CompleteIn(T, b) \/ AtWork(p, b) \/ AtWork(q, b)
    /\ Busy(T, p) /\ Busy(T, q)
    /\ \A b \in In(T) : ~ (AtWork(p, b) /\ AtWork(q, b))

LEMMA EntrySymmetry ==
    ASSUME NEW T, NEW p, NEW q, EntryInv(T, p, q)
    PROVE  EntryInv(T, q, p)
BY DEF EntryInv

LEMMA InsertsKeepEntries ==
    ASSUME NEW T, NEW p, NEW q, NEW U, NEW n, EntryInv(T, p, q), p.cur \in Bagits,
           Inserts(T, p, U, n)
    PROVE  EntryInv(U, n, q)
<1> USE DEF Inserts, EntryInv, TablesOfWalk
<1>1. /\ U.rows \in Seq(Bagits) /\ Len(U.rows) = Len(T.rows) + 1 /\ Len(T.rows) \in Nat
      /\ \A k \in 1 .. Len(T.rows) : U.rows[k] = T.rows[k]
      /\ U.rows[Len(T.rows) + 1] = p.cur
  OBVIOUS
<1>2. In(U) = In(T) \cup {p.cur}
  BY <1>1 DEF In
<1>3. \A k \in 1 .. Len(T.rows) : T.rows[k] # p.cur
  BY DEF In
<1>4. ASSUME NEW i \in 1 .. Len(U.rows), NEW j \in 1 .. Len(U.rows), U.rows[i] = U.rows[j]
      PROVE  i = j
  <2>1. i \in 1 .. Len(T.rows) \/ i = Len(T.rows) + 1
    BY <1>1
  <2>2. j \in 1 .. Len(T.rows) \/ j = Len(T.rows) + 1
    BY <1>1
  <2> QED BY <1>1, <1>3, <1>4, <2>1, <2>2
<1>5. n.pc \in Adding /\ p.pc \notin Adding /\ AtWork(n, p.cur)
  BY DEF Adding, AtWork
<1>6. ~ AtWork(q, p.cur)
  BY DEF AtWork, Busy
<1>7. \A b \in In(T) : b # p.cur /\ ~ AtWork(n, b) /\ ~ AtWork(p, b)
  BY <1>5 DEF AtWork
<1>8. Busy(U, n) /\ Busy(U, q)
  BY <1>2, <1>5 DEF Busy
<1> QED BY <1>1, <1>2, <1>4, <1>5, <1>6, <1>7, <1>8 DEF CompleteIn

\* The other steps leave the rows alone.
LEMMA ActsKeepEntries ==
    ASSUME NEW T, NEW p, NEW q, NEW U, NEW n, EntryInv(T, p, q), Own(p), Own(q), Acts(T, p, U, n)
    PROVE  EntryInv(U, n, q)
<1> USE DEF EntryInv, TablesOfWalk
<1>1. CASE Apart(T, p, U, n)
  BY <1>1 DEF Apart, AtWork, Busy
<1>2. CASE Inserts(T, p, U, n)
  BY <1>2, InsertsKeepEntries DEF Inserts, Own
<1>3. CASE Initials(T, p, U, n)
  <2>1. /\ p.pc = "init" /\ n.pc = "content" /\ n.cur = p.cur /\ n.left = NumContent
        /\ U.rows = T.rows /\ U.content = T.content /\ p.cur \in Bagits
        /\ U.init = [T.init EXCEPT ![p.cur] = "ok"]
    BY <1>3 DEF Initials, Own
  <2>2. In(U) = In(T)
    BY <2>1 DEF In
  <2>3. /\ U.init \in [Bagits -> {None, "ok", "error"}] /\ U.init[p.cur] = "ok"
        /\ \A b \in Bagits : T.init[b] = "ok" => U.init[b] = "ok"
    BY <2>1
  <2>4. In(T) \subseteq Bagits
    BY DEF In
  <2>5. p.pc \in Adding /\ n.pc \in Adding
    BY <2>1 DEF Adding
  <2>6. p.cur \in In(T) /\ T.content[p.cur] = 0
    BY <2>1, <2>5 DEF Busy
  <2>7. Busy(U, n)
    BY <2>1, <2>2, <2>3, <2>6, BoundsAssumption DEF Busy
  <2>8. Busy(U, q)
    BY <2>1, <2>2, <2>3, <2>4 DEF Busy
  <2>9. \A b : AtWork(n, b) <=> AtWork(p, b)
    BY <2>1, <2>5 DEF AtWork
  <2>10. \A b \in In(U) : CompleteIn(U, b) \/ AtWork(n, b) \/ AtWork(q, b)
    BY <2>1, <2>2, <2>3, <2>4, <2>9 DEF CompleteIn
  <2> QED BY <2>1, <2>2, <2>3, <2>7, <2>8, <2>9, <2>10
<1>4. CASE Adds(T, p, U, n)
  <2>1. /\ p.pc = "content" /\ n.pc = "content" /\ n.cur = p.cur /\ n.left = p.left - 1
        /\ U.rows = T.rows /\ U.init = T.init /\ p.cur \in Bagits /\ p.left \in Nat /\ p.left > 0
        /\ U.content = [T.content EXCEPT ![p.cur] = @ + 1]
    BY <1>4 DEF Adds, Own
  <2>2. In(U) = In(T) /\ In(T) \subseteq Bagits
    BY <2>1 DEF In
  <2>3. /\ U.content \in [Bagits -> Nat] /\ U.content[p.cur] = T.content[p.cur] + 1
        /\ \A b \in Bagits : b # p.cur => U.content[b] = T.content[b]
    BY <2>1
  <2>4. p.pc \in Adding /\ n.pc \in Adding
    BY <2>1 DEF Adding
  <2>5. /\ p.cur \in In(T) /\ T.init[p.cur] = "ok" /\ T.content[p.cur] + p.left = NumContent
    BY <2>1, <2>4 DEF Busy
  <2>6. U.content[p.cur] + n.left = NumContent
    BY <2>1, <2>3, <2>5
  <2>7. Busy(U, n)
    BY <2>1, <2>2, <2>5, <2>6 DEF Busy
  <2>8. \A b : AtWork(n, b) <=> AtWork(p, b)
    BY <2>1, <2>4 DEF AtWork
  <2>9. q.pc \in Adding => q.cur # p.cur /\ q.cur \in In(T)
    BY <2>4, <2>5 DEF AtWork, Busy
  <2>10. Busy(U, q)
    BY <2>1, <2>2, <2>3, <2>9 DEF Busy
  <2>11. \A b \in In(U) : CompleteIn(U, b) \/ AtWork(n, b) \/ AtWork(q, b)
    <3>1. AtWork(n, p.cur)
      BY <2>1, <2>4 DEF AtWork
    <3> QED BY <2>1, <2>2, <2>3, <2>8, <3>1 DEF CompleteIn
  <2> QED BY <2>1, <2>2, <2>3, <2>5, <2>7, <2>8, <2>10, <2>11
<1>5. CASE Finishes(T, p, U, n)
  <2>1. U = T /\ p.pc = "content" /\ p.left = 0 /\ p.cur \in Bagits /\ n.pc \notin Adding
    BY <1>5 DEF Finishes, Own, Adding
  <2>2. CompleteIn(T, p.cur)
    BY <2>1 DEF Busy, CompleteIn, Adding
  <2>3. \A b : ~ AtWork(n, b) /\ (AtWork(p, b) => CompleteIn(T, b))
    BY <2>1, <2>2 DEF AtWork
  <2>4. Busy(T, n)
    BY <2>1 DEF Busy
  <2> QED BY <2>1, <2>3, <2>4
<1> QED BY <1>1, <1>2, <1>3, <1>4, <1>5 DEF Acts

(***************************************************************************)
(* The two processes over the tables.                                      *)
(***************************************************************************)
TwoInv == TransferTyped /\ Own(run) /\ Own(second) /\ EntryInv(Tables, run, second)

LEMMA InitTwo == TwoInit => TwoInv
<1> SUFFICES ASSUME TwoInit PROVE TwoInv
  OBVIOUS
<1>1. run = Idle /\ second = Idle /\ TransferTyped
  BY DEF TwoInit, Init, TransferTyped
<1>2. Tables.rows = <<>> /\ Tables.content = [b \in Bagits |-> 0]
      /\ Tables.init = [b \in Bagits |-> None]
  BY LocationsAssumption DEF TwoInit, Init, Tables
<1>3. In(Tables) = {}
  BY <1>2 DEF In
<1>4. Idle.pc \notin Adding
  BY DEF Idle, Adding
<1>5. TablesOfWalk(Tables)
  BY <1>2 DEF TablesOfWalk
<1> QED BY <1>1, <1>2, <1>3, <1>4, <1>5, IdleIsOwn DEF TwoInv, EntryInv, Busy, AtWork

LEMMA NextKeepsTwo ==
    ASSUME "dbwrite" \notin FaultKinds, TwoInv, [TwoNext]_twoVars
    PROVE  TwoInv'
<1>1. CASE StartFirst \/ FirstStep
  <2>1. FirstActs /\ UNCHANGED second
    BY <1>1, FirstStepActs DEF TwoInv, StartFirst, FirstStep, First!Beside
  <2>2. EntryInv(Tables', run', second)
    BY <2>1, ActsKeepEntries DEF TwoInv, FirstActs
  <2> QED BY <2>1, <2>2 DEF TwoInv, FirstActs
<1>2. CASE StartSecond \/ SecondStep
  <2>1. SecondActs /\ UNCHANGED run
    BY <1>2, SecondStepActs DEF TwoInv, StartSecond, SecondStep, Second!Beside
  <2>2. EntryInv(Tables, second, run)
    BY EntrySymmetry DEF TwoInv
  <2>3. EntryInv(Tables', second', run)
    BY <2>1, <2>2, ActsKeepEntries DEF TwoInv, SecondActs
  <2>4. EntryInv(Tables', run, second')
    BY <2>3, EntrySymmetry
  <2> QED BY <2>1, <2>4 DEF TwoInv, SecondActs
<1>3. CASE UNCHANGED <<rows, content, transfer, run, second>>
  BY <1>3, SameTables DEF TwoInv, TransferTyped
<1>4. (\E b \in Bagits : Upload(b)) \/ (\E b \in Bagits, l \in Aging : Age(b, l))
          \/ UNCHANGED twoVars => UNCHANGED <<rows, content, transfer, run, second>>
  BY DEF Upload, Age, BeginUpload, EndUpload, Expire, twoVars, vars, db
<1> QED BY <1>1, <1>2, <1>3, <1>4 DEF TwoNext

LEMMA TwoEntersOnce == TwoInv => EnteredOnce
<1> SUFFICES ASSUME TwoInv, NEW b \in Bagits
             PROVE  /\ Cardinality({k \in 1 .. Len(rows) : rows[k] = b}) <= 1
                    /\ content[b] <= NumContent
                    /\ Registered(b) /\ ~ Entering(run, b) /\ ~ Entering(second, b) =>
                          content[b] = NumContent /\ transfer[b][InitLoc] = "ok"
  BY DEF EnteredOnce
<1>1. /\ Tables.rows = rows /\ Tables.content = content
      /\ Tables.init[b] = transfer[b][InitLoc]
      /\ Registered(b) <=> b \in In(Tables)
  BY DEF Tables, In, Registered
<1>2. content[b] \in Nat
  BY <1>1 DEF TwoInv, EntryInv, TablesOfWalk
<1>3. Cardinality({k \in 1 .. Len(rows) : rows[k] = b}) <= 1
  <2>1. CASE {k \in 1 .. Len(rows) : rows[k] = b} = {}
    BY <2>1, FS_EmptySet
  <2>2. ASSUME NEW i \in 1 .. Len(rows), rows[i] = b
        PROVE  Cardinality({k \in 1 .. Len(rows) : rows[k] = b}) <= 1
    <3>1. \A k \in 1 .. Len(rows) : rows[k] = b => k = i
      BY <1>1, <2>2 DEF TwoInv, EntryInv
    <3>2. {k \in 1 .. Len(rows) : rows[k] = b} = {i}
      BY <2>2, <3>1
    <3>3. Cardinality({k \in 1 .. Len(rows) : rows[k] = b}) = 1
      BY <3>2, FS_Singleton, Zenon
    <3> QED BY <3>3
  <2> QED BY <2>1, <2>2
<1>4. ASSUME NEW p, Own(p), Busy(Tables, p), AtWork(p, b)
      PROVE  content[b] <= NumContent /\ Entering(p, b)
  <2>1. p.pc \in {"init", "content"} /\ p.cur = b /\ p.left \in Nat
    BY <1>4 DEF AtWork, Adding, Own
  <2>2. content[b] <= NumContent
    BY <1>1, <1>2, <1>4, <2>1, BoundsAssumption DEF Busy, Adding
  <2> QED BY <1>4, <2>1, <2>2 DEF Own, Entering
<1>5. CASE AtWork(run, b)
  BY <1>3, <1>4, <1>5 DEF TwoInv, EntryInv
<1>6. CASE AtWork(second, b)
  BY <1>3, <1>4, <1>6 DEF TwoInv, EntryInv
<1>7. CASE ~ AtWork(run, b) /\ ~ AtWork(second, b)
  <2>1. b \in In(Tables) => CompleteIn(Tables, b)
    BY <1>7 DEF TwoInv, EntryInv
  <2>2. b \notin In(Tables) => content[b] = 0
    BY <1>1 DEF TwoInv, EntryInv
  <2> QED BY <1>1, <1>3, <2>1, <2>2, BoundsAssumption DEF CompleteIn
<1> QED BY <1>5, <1>6, <1>7

\* However two runs interleave, a zip is entered once and by one of them, with
\* all its content rows and none of them twice, for any number of zips: bagitLoad
\* of both may find nothing, and then the INSERT of the slower one fails before
\* it has added anything (Ingest.Ingest, bagitStore).  Where an INSERT can fail
\* for another reason a bagit may lack rows.
THEOREM EnteredCorrect ==
    ASSUME "dbwrite" \notin FaultKinds
    PROVE  TwoSpec => []EnteredOnce
<1>1. TwoInv /\ [TwoNext]_twoVars => TwoInv'
  BY NextKeepsTwo
<1> QED BY <1>1, InitTwo, TwoEntersOnce, PTL DEF TwoSpec
=============================================================================
