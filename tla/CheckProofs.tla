----------------------------- MODULE CheckProofs -----------------------------
(***************************************************************************)
(* The check phase begins only when every bagit is at every location, a    *)
(* test passes only for a copy whose transfer was completed, and the runs  *)
(* keep what Preservation promises.                                        *)
(***************************************************************************)
EXTENDS PageProofs

(***************************************************************************)
(* Decay makes bytes that were never there before: no digest the run or    *)
(* the database holds is theirs.                                           *)
(***************************************************************************)
Old(bytes) == bytes.ver <= faults

NothingNewer ==
    /\ \A b \in Bagits : Old(sha[b]) /\ Old(aes[b]) /\ \A l \in Locations : Old(file[b][l])
    /\ run.pc \in {"insert", "verify"} => Old(run.hash)
    /\ run.pc \in PagePcs => Old(run.aes)

LEMMA FaultsGrow ==
    ASSUME TypeInv, [Next]_vars
    PROVE  faults \in Nat /\ faults' \in Nat /\ faults <= faults'
<1>1. faults \in Nat
  BY BoundsAssumption DEF TypeInv, TypeOK
<1>2. SUFFICES faults' = faults \/ faults' = faults + 1
  BY <1>1
<1> USE DEF Abort, Fails, Goto, NoFault, Fault
<1>3. CASE UNCHANGED vars
  BY <1>3 DEF vars
<1>4. CASE StartRun
  BY <1>4 DEF StartRun
<1>5. CASE IngestStep
  BY <1>5 DEF IngestStep, WalkZip, SkipZip, AcceptZip, RejectZip, SumZip, InsertBagit, InsertRow,
              DuplicateRow, StoreInitLocation, StoreInitRow, AddContent, ZipDone, WalkDone
<1>6. CASE PageStep
  BY <1>6 DEF PageStep, CountRows, LoadPage, ReadPage, CutPage, PagesDone, EndOfPage
<1>7. CASE TransferStep
  <2>1. CASE LoadSource \/ TransferDone \/ \E l \in Locations : NextTarget(l)
    BY <2>1 DEF LoadSource, BeginBagit, TransferDone, EndBagit, NextTarget, SkipTarget, PickTarget
  <2>2. CASE OpenSource \/ GetKey \/ SetKey \/ GetIV \/ SetIV \/ NewCipher
    BY <2>2 DEF OpenSource, GetKey, SetKey, WriteKey, TearKey, GetIV, SetIV, WriteIV, TearIV, NewCipher
  <2>3. CASE CreateTarget \/ CopyStream \/ VerifyStream \/ StoreOk
    BY <2>3 DEF CreateTarget, CopyStream, WriteTarget, VerifyStream, RecordDigest, CompareDigest,
                StoreOk, OkRow
  <2> QED BY <1>7, <2>1, <2>2, <2>3 DEF TransferStep
<1>8. CASE CheckStep
  BY <1>8 DEF CheckStep, BeginChecks, BeginBagit, ChecksDone, EndBagit, NextTest, ReadCopy,
              StoreResult, TestRow
<1>9. CASE Crash
  BY <1>9 DEF Crash
<1>10. CASE Environment
  BY <1>10 DEF Environment, BeginUpload, EndUpload, Damage, Expire
<1> QED BY <1>3, <1>4, <1>5, <1>6, <1>7, <1>8, <1>9, <1>10 DEF Next, Step

LEMMA OldGrows ==
    ASSUME TypeInv, [Next]_vars, NEW bytes \in Content, Old(bytes)
    PROVE  bytes.ver <= faults'
BY FaultsGrow, BoundsAssumption DEF Old, Content

LEMMA NewerQuiet ==
    ASSUME TypeInv, [Next]_vars, NothingNewer, UNCHANGED <<file, sha, aes>>,
           run'.pc \notin {"insert", "verify"},
           run'.pc \in PagePcs => run'.aes \in Content /\ Old(run'.aes)
    PROVE  NothingNewer'
<1>1. \A b \in Bagits : sha[b] \in Content /\ aes[b] \in Content
                        /\ \A l \in Locations : file[b][l] \in Content
  BY DEF TypeInv, TypeOK, TablesOK, DiskOK
<1>2. \A bytes \in Content : Old(bytes) => bytes.ver <= faults'
  BY OldGrows
<1>3. run'.pc \in PagePcs => Old(run.aes)'
  BY <1>2 DEF Old
<1>4. \A b \in Bagits : Old(sha[b])' /\ Old(aes[b])' /\ \A l \in Locations : Old(file[b][l])'
  BY <1>1, <1>2 DEF NothingNewer, Old
<1> QED BY <1>3, <1>4 DEF NothingNewer

LEMMA NextKeepsNewer ==
    ASSUME TypeInv, WrittenInv, PageInv, NothingNewer, [Next]_vars
    PROVE  NothingNewer'
<1>1. /\ \A b \in Bagits : sha[b] \in Content /\ aes[b] \in Content
                           /\ \A l \in Locations : file[b][l] \in Content
      /\ run.aes \in Content /\ run.hash \in Content
      /\ sha \in [Bagits -> Content] /\ aes \in [Bagits -> Content]
      /\ file \in [Bagits -> [Locations -> Content]]
  BY DEF TypeInv, TypeOK, TablesOK, DiskOK, RunState
<1>2. \A bytes \in Content : Old(bytes) => bytes.ver <= faults'
  BY OldGrows
<1>3. 0 <= faults' /\ faults' \in Nat /\ NoDigest.ver = 0 /\ Partial.ver = 0
  BY FaultsGrow DEF NoDigest, Absent, Partial
<1>4. \A b \in Bagits : sha[b].ver <= faults' /\ aes[b].ver <= faults'
                        /\ \A l \in Locations : file[b][l].ver <= faults'
  BY <1>1, <1>2 DEF NothingNewer
\* A step that neither hashes nor writes.
<1>5. ASSUME UNCHANGED <<file, sha, aes>>, run'.pc \notin {"insert", "verify"},
             \/ run'.pc \notin PagePcs
             \/ run.pc \in PagePcs /\ run'.aes = run.aes
      PROVE  NothingNewer'
  BY <1>1, <1>5, NewerQuiet DEF NothingNewer
<1>6. Ends => NothingNewer'
  BY <1>5 DEF Ends, Idle, PagePcs, RowPcs, CheckPcs
<1>7. CASE UNCHANGED vars
  BY <1>7 DEF vars, disk, db, NothingNewer, Old
<1>8. CASE StartRun
  BY <1>5, <1>6, <1>8, StartRunFrame DEF Begins, Idle, PagePcs, RowPcs, CheckPcs, disk, db
<1>9. CASE IngestStep
  <2> USE DEF PagePcs, RowPcs, CheckPcs
  <2>1. ASSUME NEW b \in Bagits, WalkZip(b) PROVE NothingNewer'
    BY <1>5, <1>6, <2>1, WalkZipFrame DEF disk, db
  <2>2. CASE SumZip
    <3>1. ASSUME UNCHANGED <<disk, db>>, run.pc = "sum", run'.pc = "insert",
                 run'.hash = file[run.cur][InitLoc]
          PROVE  NothingNewer'
      <4>1. run.cur \in Bagits
        BY <3>1 DEF TypeInv, Holds, AtBagit
      <4> QED BY <1>4, <3>1, <4>1, LocationsAssumption DEF NothingNewer, Old, disk, db
    <3> QED BY <1>6, <2>2, <3>1, SumZipFrame
  <2>3. CASE InsertBagit
    <3>1. ASSUME UNCHANGED <<disk, aes>>, run.pc = "insert", run'.pc = "init",
                 sha' = [sha EXCEPT ![run.cur] = run.hash]
          PROVE  NothingNewer'
      <4>1. \A b \in Bagits : sha'[b] = IF b = run.cur THEN run.hash ELSE sha[b]
        BY <1>1, <3>1
      <4>2. run.hash.ver <= faults'
        BY <1>1, <1>2, <3>1 DEF NothingNewer
      <4> QED BY <1>4, <3>1, <4>1, <4>2 DEF NothingNewer, Old, disk
    <3> QED BY <1>6, <2>3, <3>1, InsertBagitFrame
  <2>4. CASE StoreInitLocation
    BY <1>5, <1>6, <2>4, StoreInitFrame DEF disk
  <2>5. CASE AddContent
    BY <1>5, <2>5, AddContentFrame DEF disk
  <2>6. CASE ZipDone
    BY <1>5, <2>6, ZipDoneFrame DEF disk, db
  <2>7. CASE WalkDone
    BY <1>5, <2>7, EnterPhaseFrame DEF WalkDone, Begins, disk, db
  <2> QED BY <1>9, <2>1, <2>2, <2>3, <2>4, <2>5, <2>6, <2>7 DEF IngestStep
<1>10. CASE PageStep
  BY <1>5, <1>10, PageFrame DEF PagePcs, RowPcs, CheckPcs, disk, db
\* The callback is entered: the digest on the page is the one of the table.
<1>11. ASSUME UNCHANGED <<disk, db>>, run'.pc \in {"target", "test"},
              run'.cur \in InRows, run'.aes = aes[run'.cur]
       PROVE  NothingNewer'
  BY <1>4, <1>11 DEF NothingNewer, Old, InRows, disk, db
<1>12. CASE TransferStep
  <2> USE DEF RowPcs, PagePcs
  <2>1. CASE LoadSource
    BY <1>6, <1>11, <2>1, LoadSourceFrame, PageBegins DEF db
  <2>2. CASE TransferDone
    BY <1>5, <2>2, EndBagitFrame DEF TransferDone, CheckPcs, disk, db
  <2>3. ASSUME NEW l \in Locations, NextTarget(l) PROVE NothingNewer'
    BY <1>5, <2>3, NextTargetFrame DEF disk, db
  <2>4. CASE OpenSource \/ GetKey \/ SetKey \/ GetIV \/ SetIV \/ NewCipher
    BY <1>5, <1>6, <2>4, OpenSourceFrame, KeyStepFrame DEF SameLocation, disk, db
  <2>5. ASSUME NEW bytes, bytes.ver <= faults', run.pc \in RowPcs, SameLocation, UNCHANGED db,
               file' = [file EXCEPT ![run.cur][run.loc] = bytes],
               run'.pc = "copy" \/ (run'.pc = "verify" /\ run'.hash = bytes)
        PROVE  NothingNewer'
    <3>1. run.cur \in Bagits /\ run.loc \in Locations
      BY <2>5 DEF TypeInv, Holds, AtLocation
    <3>2. \A b \in Bagits, l \in Locations :
             file'[b][l] = IF b = run.cur /\ l = run.loc THEN bytes ELSE file[b][l]
      BY <1>1, <2>5, <3>1
    <3>3. run.aes.ver <= faults'
      BY <1>1, <1>2, <2>5 DEF NothingNewer
    <3> QED BY <1>4, <2>5, <3>2, <3>3 DEF NothingNewer, Old, SameLocation, db
  <2>6. CASE CreateTarget
    <3>1. run.pc \in RowPcs
      BY <2>6 DEF CreateTarget
    <3> QED BY <1>3, <1>6, <2>5, <2>6, <3>1, CreateTargetFrame
  <2>7. CASE CopyStream
    <3>1. run.pc \in RowPcs /\ run.cur \in Bagits
      BY <2>7 DEF CopyStream, TypeInv, Holds, AtLocation
    <3>2. Stream.ver <= faults'
      <4>1. Stream.ver = At(run.cur, InitLoc).ver
        BY <3>1, AtType, LocationsAssumption DEF Stream, Content, TypeInv
      <4> QED BY <1>3, <1>4, <3>1, <4>1, LocationsAssumption DEF At, NoDigest
    <3> QED BY <1>6, <2>5, <2>7, <3>1, <3>2, CopyStreamFrame
  <2>8. CASE VerifyStream
    <3>1. /\ run.pc = "verify" /\ run.cur \in Bagits /\ run'.pc \in {"store", "target"}
          /\ UNCHANGED <<disk, sha>>
      BY <2>8, VerifyStreamFrame DEF TypeInv, Holds, AtLocation
    <3>2. run.hash.ver <= faults' /\ run.aes.ver <= faults'
      BY <1>1, <1>2, <3>1 DEF NothingNewer
    <3>3. run'.aes \in {run.aes, run.hash}
      BY <2>8, VerifyStreamFrame
    <3>4. aes' = [aes EXCEPT ![run.cur] = run.hash] \/ UNCHANGED aes
      BY <2>8, VerifyStreamFrame
    <3>5. \A b \in Bagits : aes'[b] \in {aes[b], run.hash}
      BY <1>1, <3>1, <3>4
    <3> QED BY <1>4, <3>1, <3>2, <3>3, <3>5 DEF NothingNewer, Old, disk
  <2>9. CASE StoreOk
    BY <1>5, <1>6, <2>9, StoreOkFrame DEF disk
  <2> QED BY <1>12, <2>1, <2>2, <2>3, <2>4, <2>6, <2>7, <2>8, <2>9 DEF TransferStep
<1>13. CASE CheckStep
  <2> USE DEF CheckPcs, PagePcs, RowPcs
  <2>1. CASE BeginChecks
    BY <1>11, <2>1, BeginChecksFrame, PageBegins DEF db
  <2>2. CASE ChecksDone
    BY <1>5, <2>2, EndBagitFrame DEF ChecksDone, disk, db
  <2>3. ASSUME NEW l \in Locations, NextTest(l) PROVE NothingNewer'
    BY <1>5, <1>6, <2>3, NextTestFrame DEF disk, db
  <2>4. CASE ReadCopy
    BY <1>5, <2>4, ReadCopyFrame DEF SameLocation, disk, db
  <2>5. CASE StoreResult
    BY <1>5, <1>6, <2>5, StoreResultFrame DEF disk
  <2> QED BY <1>13, <2>1, <2>2, <2>3, <2>4, <2>5 DEF CheckStep
<1>14. CASE Crash
  BY <1>6, <1>14, EndsOf DEF Crash
<1>15. CASE Environment
  <2>1. UNCHANGED <<sha, aes, run>>
    BY <1>15 DEF Environment, BeginUpload, EndUpload, Damage, Expire, db
  <2>2. \A b \in Bagits, l \in Locations :
           file'[b][l] = file[b][l] \/ file'[b][l] \in {Partial, Plain(0), Plain(faults')}
    BY <1>1, <1>15, LocationsAssumption
       DEF Environment, BeginUpload, EndUpload, Damage, Expire, disk
  <2>3. Plain(0).ver <= faults' /\ Plain(faults').ver <= faults'
    BY <1>3 DEF Plain
  <2>4. run.aes.ver <= faults' \/ run.pc \notin PagePcs
    BY <1>1, <1>2 DEF NothingNewer
  <2>5. run.hash.ver <= faults' \/ run.pc \notin {"insert", "verify"}
    BY <1>1, <1>2 DEF NothingNewer
  <2> QED BY <1>3, <1>4, <2>1, <2>2, <2>3, <2>4, <2>5 DEF NothingNewer, Old
<1> QED BY <1>7, <1>8, <1>9, <1>10, <1>12, <1>13, <1>14, <1>15 DEF Next, Step

LEMMA InitNewer == Init => NothingNewer
BY BoundsAssumption
   DEF Init, Idle, NothingNewer, Old, NoDigest, Absent, PagePcs, RowPcs, CheckPcs

(***************************************************************************)
(* As long as the zips stay as they were deposited and a key file that     *)
(* exists can be read, every stream of a bagit to an encrypted location is *)
(* the same ciphertext, and every other one is the zip.                    *)
(***************************************************************************)
Deposited(bytes) == bytes.kind = "whole" /\ bytes.ver = 0
Ciphertext(bytes) == bytes = NoDigest \/ (Deposited(bytes) /\ bytes.key # Missing)
EncryptPcs == {"getkey", "setkey", "getiv", "setiv", "cipher"}

ZipsAsDeposited ==
    /\ \A b \in Bagits : sha[b] = IF b \in InRows THEN Plain(0) ELSE NoDigest
    /\ \A b \in InRows : file[b][InitLoc] = Plain(0)
    /\ run.pc \in {"sum", "insert"} => file[run.cur][InitLoc] = Plain(0)
    /\ run.pc = "insert" => run.hash = Plain(0)

\* A plain location is copied to without a key.
KeysOfLocation ==
    /\ run.pc \in EncryptPcs => run.loc \in Encrypted
    /\ run.phase = "transfer" /\ (run.pc \notin RowPcs \ {"open"} \/ run.loc \notin Encrypted) =>
           run.key = Missing /\ run.iv = Missing
    /\ run.pc = "verify" =>
           Deposited(run.hash) /\ run.hash.key = run.key /\ run.hash.iv = run.iv

CopiesOfZip ==
    /\ \A b \in Bagits, l \in Locations \ Encrypted : file[b][l].key = Missing
    /\ \A b \in Bagits : Ciphertext(aes[b])
    /\ run.pc \in PagePcs => Ciphertext(run.aes) /\ MadeWith(run.cur, run.aes)

StreamInv == ZipsAsDeposited /\ KeysOfLocation /\ CopiesOfZip

\* So the comparison of the digests never fails.
LEMMA StreamsAgree ==
    ASSUME TypeInv, WrittenInv, PageInv, KeyInv, StreamInv, run.pc = "verify",
           ~ (run.loc \in Encrypted /\ run.aes = NoDigest)
    PROVE  run.hash = Expected
<1>1. /\ run.hash \in Content /\ run.aes \in Content
      /\ run.cur \in InRows /\ run.cur \in Bagits
      /\ Deposited(run.hash) /\ run.hash.key = run.key /\ run.hash.iv = run.iv
  BY DEF TypeInv, TypeOK, RunState, Holds, AtLocation, WrittenInv, ZipsWhole, RowPcs,
         StreamInv, KeysOfLocation
<1>2. \A c, d \in Content : c.kind = d.kind /\ c.key = d.key /\ c.iv = d.iv /\ c.ver = d.ver => c = d
  BY DEF Content
<1>3. CASE run.loc \notin Encrypted
  <2>1. run.key = Missing /\ run.iv = Missing
    BY <1>3 DEF StreamInv, KeysOfLocation, PageInv, PhaseOf, RowPcs
  <2>2. Plain(0) \in Content
    BY ContentType, BoundsAssumption
  <2>3. run.hash = Plain(0)
    BY <1>1, <1>2, <2>1, <2>2 DEF Deposited, Plain
  <2> QED BY <1>1, <1>3, <2>3 DEF StreamInv, ZipsAsDeposited, Expected
<1>4. CASE run.loc \in Encrypted
  <2>1. Deposited(run.aes) /\ run.aes.key # Missing /\ MadeWith(run.cur, run.aes)
    BY <1>4 DEF StreamInv, CopiesOfZip, Ciphertext, PagePcs, RowPcs
  <2>2. /\ run.aes.key = keyFile[run.cur] /\ run.aes.iv = ivFile[run.cur]
        /\ run.key = keyFile[run.cur] /\ run.iv = ivFile[run.cur]
    BY <1>4, <2>1 DEF MadeWith, KeyInv, KeyHeld
  <2>3. run.hash = run.aes
    BY <1>1, <1>2, <2>1, <2>2 DEF Deposited
  <2> QED BY <1>4, <2>3 DEF Expected
<1> QED BY <1>3, <1>4

\* A step that leaves the files and the tables alone, and the process with
\* what it has in hand or without a bagit.
LEMMA StreamQuiet ==
    ASSUME StreamInv, UNCHANGED <<file, rows, sha, aes>>,
           run'.pc \notin {"sum", "insert", "verify"} \cup EncryptPcs,
           \/ run'.pc \notin PagePcs
           \/ /\ run.pc \in PagePcs /\ run'.cur = run.cur /\ run'.aes = run.aes
              /\ UNCHANGED <<keyFile, ivFile>>,
           run'.phase = "transfer" /\ (run'.pc \notin RowPcs \ {"open"} \/ run'.loc \notin Encrypted) =>
               run'.key = Missing /\ run'.iv = Missing
    PROVE  StreamInv'
<1>1. InRows' = InRows
  BY DEF InRows, Registered
<1>2. ZipsAsDeposited'
  BY <1>1 DEF StreamInv, ZipsAsDeposited
<1>3. KeysOfLocation'
  BY DEF KeysOfLocation
<1>4. CopiesOfZip'
  BY DEF StreamInv, CopiesOfZip, MadeWith
<1> QED BY <1>2, <1>3, <1>4 DEF StreamInv

LEMMA StreamEnds == ASSUME StreamInv, Ends PROVE StreamInv'
BY StreamQuiet DEF Ends, Idle, None, EncryptPcs, PagePcs, RowPcs, CheckPcs

LEMMA IngestKeepsStream ==
    ASSUME TypeInv, PageInv, StreamInv, IngestStep
    PROVE  StreamInv'
<1> USE DEF EncryptPcs, PagePcs, RowPcs, CheckPcs
<1>1. /\ run.pc \in WalkPcs /\ run.phase = "ingest"
      /\ run.pc \in {"sum", "insert", "init", "content"} => run.cur \in Bagits
      /\ sha \in [Bagits -> Content]
  BY DEF IngestStep, WalkZip, SumZip, InsertBagit, StoreInitLocation, AddContent, ZipDone, WalkDone,
         WalkPcs, PageInv, PhaseOf, TypeInv, Holds, AtBagit, TypeOK, TablesOK
<1>2. ASSUME UNCHANGED <<disk, rows, sha, aes>>, run'.phase = "ingest", run'.pc \in WalkPcs,
             run'.pc \in {"sum", "insert"} => file[run'.cur][InitLoc] = Plain(0),
             run'.pc = "insert" => run'.hash = Plain(0)
      PROVE  StreamInv'
  <2>1. InRows' = InRows
    BY <1>2 DEF InRows, Registered
  <2> QED BY <1>2, <2>1
          DEF StreamInv, ZipsAsDeposited, KeysOfLocation, CopiesOfZip, WalkPcs, disk
<1>3. ASSUME NEW b \in Bagits, WalkZip(b) PROVE StreamInv'
  BY <1>1, <1>2, <1>3, StreamEnds, WalkZipFrame DEF SameBagit, SameLoop, WalkPcs, db
<1>4. CASE SumZip
  <2>1. run.pc = "sum" => file[run.cur][InitLoc] = Plain(0)
    BY DEF StreamInv, ZipsAsDeposited
  <2> QED BY <1>1, <1>2, <1>4, <2>1, StreamEnds, SumZipFrame DEF SameBagit, SameLoop, WalkPcs, db
<1>5. CASE InsertBagit
  <2>1. ASSUME run.pc = "insert", run'.pc = "init", SameBagit, ~ Registered(run.cur),
               rows' = Append(rows, run.cur), sha' = [sha EXCEPT ![run.cur] = run.hash],
               UNCHANGED <<disk, aes>>
        PROVE  StreamInv'
    <3>1. run.cur \in Bagits /\ InRows' = InRows \cup {run.cur}
      BY <1>1, <2>1, InsertsRow
    <3>2. \A b \in Bagits : sha'[b] = IF b = run.cur THEN run.hash ELSE sha[b]
      BY <1>1, <2>1
    <3>3. run.hash = Plain(0) /\ file[run.cur][InitLoc] = Plain(0)
      BY <2>1 DEF StreamInv, ZipsAsDeposited
    <3>4. run'.phase = "ingest"
      BY <1>1, <2>1 DEF SameBagit, SameLoop
    <3> QED BY <2>1, <3>1, <3>2, <3>3, <3>4
            DEF StreamInv, ZipsAsDeposited, KeysOfLocation, CopiesOfZip, disk
  <2> QED BY <1>5, <2>1, StreamEnds, InsertBagitFrame
<1>6. CASE StoreInitLocation
  BY <1>1, <1>2, <1>6, StreamEnds, StoreInitFrame DEF SameBagit, SameLoop, WalkPcs
<1>7. CASE AddContent
  BY <1>1, <1>2, <1>7, AddContentFrame DEF SameBagit, SameLoop, WalkPcs
<1>8. CASE ZipDone
  BY <1>1, <1>2, <1>8, ZipDoneFrame DEF SameLoop, WalkPcs, db
<1>9. CASE WalkDone
  BY <1>9, EnterPhaseFrame, StreamQuiet DEF WalkDone, Begins, disk, db
<1> QED BY <1>3, <1>4, <1>5, <1>6, <1>7, <1>8, <1>9 DEF IngestStep

LEMMA PageKeepsStream ==
    ASSUME TypeInv, PageInv, StreamInv, PageStep
    PROVE  StreamInv'
<1> USE DEF EncryptPcs, PagePcs, RowPcs, CheckPcs
<1>1. run.phase = "transfer" /\ run.pc \in {"count", "load", "next"} =>
          run.key = Missing /\ run.iv = Missing
  BY DEF StreamInv, KeysOfLocation
<1>2. CASE CountRows
  BY <1>1, <1>2, CountRowsFrame, StreamEnds, StreamQuiet DEF disk, db
<1>3. CASE LoadPage
  BY <1>1, <1>3, LoadPageFrame, StreamEnds, StreamQuiet DEF Begins, disk, db
<1>4. CASE EndOfPage
  BY <1>1, <1>4, EndOfPageFrame, StreamQuiet DEF SameLocation, SameBagit, SameLoop, disk, db
<1> QED BY <1>2, <1>3, <1>4 DEF PageStep

\* The callback is entered with the digest of the table, whose key is kept.
LEMMA StreamBegins ==
    ASSUME KeyInv, StreamInv, UNCHANGED <<disk, db>>, run'.pc \in {"target", "test"},
           run'.cur \in InRows, run'.aes = aes[run'.cur],
           run'.phase = "transfer" => run'.key = Missing /\ run'.iv = Missing
    PROVE  StreamInv'
<1>1. InRows' = InRows /\ InRows \subseteq Bagits
  BY DEF InRows, Registered, db
<1>2. ZipsAsDeposited' /\ KeysOfLocation'
  BY <1>1 DEF StreamInv, ZipsAsDeposited, KeysOfLocation, EncryptPcs, disk, db
<1>3. CopiesOfZip'
  BY <1>1 DEF StreamInv, CopiesOfZip, KeyInv, Ciphers, MadeWith, disk, db
<1> QED BY <1>2, <1>3 DEF StreamInv

\* A key file is written only while there is no ciphertext of the bagit, in
\* the table or in the memory of the process.
LEMMA KeyStepKeepsHand ==
    ASSUME TypeInv, KeyInv, StreamInv, GetKey \/ SetKey \/ GetIV \/ SetIV \/ NewCipher,
           run' # Idle
    PROVE  \A c : MadeWith(run.cur, c) => MadeWith(run.cur, c)'
<1> SUFFICES ASSUME NEW c, MadeWith(run.cur, c)
             PROVE  MadeWith(run.cur, c)'
  OBVIOUS
<1>1. run'.cur = run.cur
  BY KeyStepFrame DEF Ends, SameLocation, SameBagit
<1>2. CASE SetKey
  <2>1. keyFile[run.cur] = Missing
    BY <1>2 DEF SetKey, KeyInv, KeyHeld
  <2> QED BY <1>1, <2>1 DEF MadeWith
<1>3. CASE SetIV
  <2>1. ivFile[run.cur] = Missing
    BY <1>3 DEF SetIV, KeyInv, KeyHeld
  <2> QED BY <1>1, <2>1 DEF MadeWith
<1>4. CASE GetKey \/ GetIV \/ NewCipher
  <2>1. UNCHANGED <<keyFile, ivFile>>
    BY <1>4 DEF GetKey, GetIV, NewCipher, Goto, Abort, ErrorRow, disk
  <2> QED BY <1>1, <2>1 DEF MadeWith
<1> QED BY <1>2, <1>3, <1>4

LEMMA TransferKeepsStream ==
    ASSUME FaultKinds \cap {"rot", "keyread"} = {},
           TypeInv, WrittenInv, PageInv, KeyInv, StreamInv, TransferStep
    PROVE  StreamInv'
<1> USE DEF EncryptPcs, PagePcs, RowPcs, CheckPcs
<1>1. /\ run.phase = "transfer" /\ run.pc \in {"next", "target", "open"} =>
             run.key = Missing /\ run.iv = Missing
      /\ run.pc \in RowPcs \cup {"target"} => run.phase = "transfer"
      /\ run.pc \in RowPcs /\ run.loc \notin Encrypted => run.key = Missing /\ run.iv = Missing
      /\ run.pc \in RowPcs => /\ run.cur \in InRows /\ run.cur \in Bagits
                              /\ run.loc \in Locations /\ run.loc # InitLoc
  BY DEF StreamInv, KeysOfLocation, PageInv, PhaseOf, WrittenInv, ZipsWhole, TargetOpen,
         TypeInv, Holds, AtLocation
<1>2. /\ file \in [Bagits -> [Locations -> Content]]
      /\ aes \in [Bagits -> Content] /\ InRows \subseteq Bagits
  BY DEF TypeInv, TypeOK, DiskOK, TablesOK, InRows
<1>3. CASE LoadSource
  BY <1>1, <1>3, LoadSourceFrame, PageBegins, StreamEnds, StreamBegins DEF db
<1>4. CASE TransferDone
  <2>1. run.pc = "target"
    BY <1>4 DEF TransferDone
  <2> QED BY <1>1, <1>4, <2>1, EndBagitFrame, StreamQuiet DEF TransferDone, SameLoop, disk, db
<1>5. ASSUME NEW l \in Locations, NextTarget(l) PROVE StreamInv'
  BY <1>1, <1>5, NextTargetFrame, StreamQuiet DEF SameBagit, SameLoop, disk, db
\* The bagit in hand stays in hand, and with it the digest.
<1>6. ASSUME UNCHANGED <<rows, sha, aes>>, run.pc \in RowPcs, run'.pc \in RowPcs, SameLocation,
             \A c : MadeWith(run.cur, c) => MadeWith(run.cur, c)',
             \A b \in Bagits, l \in Locations :
                 \/ file'[b][l] = file[b][l]
                 \/ b = run.cur /\ l = run.loc /\ (l \notin Encrypted => file'[b][l].key = Missing),
             run'.pc \in EncryptPcs => run.loc \in Encrypted,
             run.loc \notin Encrypted \/ run'.pc = "open" => run'.key = Missing /\ run'.iv = Missing,
             run'.pc = "verify" =>
                 Deposited(run'.hash) /\ run'.hash.key = run'.key /\ run'.hash.iv = run'.iv
      PROVE  StreamInv'
  <2>1. InRows' = InRows
    BY <1>6 DEF InRows, Registered
  <2>2. ZipsAsDeposited'
    BY <1>1, <1>2, <1>6, <2>1, LocationsAssumption DEF StreamInv, ZipsAsDeposited
  <2>3. KeysOfLocation'
    BY <1>6 DEF KeysOfLocation, SameLocation
  <2>4. CopiesOfZip'
    <3>1. Ciphertext(run.aes) /\ MadeWith(run.cur, run.aes)
      BY <1>6 DEF StreamInv, CopiesOfZip
    <3>2. MadeWith(run.cur, run.aes)'
      BY <1>6, <3>1 DEF MadeWith, SameLocation
    <3>3. \A b \in Bagits, l \in Locations \ Encrypted : file'[b][l].key = Missing
      BY <1>6 DEF StreamInv, CopiesOfZip
    <3> QED BY <1>6, <3>1, <3>2, <3>3 DEF StreamInv, CopiesOfZip, SameLocation, SameBagit
  <2> QED BY <2>2, <2>3, <2>4 DEF StreamInv
<1>7. ASSUME UNCHANGED <<keyFile, ivFile>>, run'.cur = run.cur
      PROVE  \A c : MadeWith(run.cur, c) => MadeWith(run.cur, c)'
  BY <1>7 DEF MadeWith
<1>8. CASE OpenSource
  <2>1. run.pc \in RowPcs /\ run.phase = "transfer"
    BY <1>1, <1>8 DEF OpenSource
  <2> QED BY <1>1, <1>6, <1>7, <1>8, <2>1, StreamEnds, OpenSourceFrame
          DEF SameLocation, SameBagit, disk, db
<1>9. CASE GetKey \/ SetKey \/ GetIV \/ SetIV \/ NewCipher
  <2>1. run.pc \in EncryptPcs /\ run.loc \in Encrypted
    BY <1>9, KeyStepFrame DEF StreamInv, KeysOfLocation
  <2>2. CASE run' = Idle
    BY <1>9, <2>2, StreamQuiet, KeyStepFrame DEF Idle, None, Ends, db
  <2>3. CASE run' # Idle
    <3>1. \A c : MadeWith(run.cur, c) => MadeWith(run.cur, c)'
      BY <1>9, <2>3, KeyStepKeepsHand
    <3> QED BY <1>6, <1>9, <2>1, <2>3, <3>1, KeyStepFrame DEF Ends, db
  <2> QED BY <2>2, <2>3
\* The file of the location in hand is written.
<1>10. ASSUME NEW bytes, file' = [file EXCEPT ![run.cur][run.loc] = bytes],
              UNCHANGED <<keyFile, ivFile, db>>, run.pc \in {"create", "copy"}, SameLocation,
              run'.key = run.key, run'.iv = run.iv,
              run.loc \notin Encrypted => bytes.key = Missing,
              \/ run'.pc = "copy"
              \/ /\ run'.pc = "verify" /\ run'.hash = bytes
                 /\ Deposited(bytes) /\ bytes.key = run.key /\ bytes.iv = run.iv
       PROVE  StreamInv'
  <2>1. \A b \in Bagits, l \in Locations :
           file'[b][l] = IF b = run.cur /\ l = run.loc THEN bytes ELSE file[b][l]
    BY <1>1, <1>2, <1>10
  <2>2. \A b \in Bagits, l \in Locations :
           \/ file'[b][l] = file[b][l]
           \/ b = run.cur /\ l = run.loc /\ (l \notin Encrypted => file'[b][l].key = Missing)
    BY <1>10, <2>1
  <2> QED BY <1>1, <1>6, <1>7, <1>10, <2>2 DEF SameLocation, SameBagit, db
<1>11. CASE CreateTarget
  BY <1>10, <1>11, StreamEnds, CreateTargetFrame DEF Partial
<1>12. CASE CopyStream
  <2>1. /\ run.pc = "copy" /\ run.cur \in InRows /\ run.cur \in Bagits /\ run.cur \notin Nested
        /\ run.loc \notin Encrypted => run.key = Missing
    BY <1>1, <1>12 DEF CopyStream, WrittenInv, TargetOpen
  <2>2. At(run.cur, InitLoc) = Plain(0)
    BY <2>1 DEF At, StreamInv, ZipsAsDeposited
  <2>3. Deposited(Stream) /\ Stream.key = run.key /\ Stream.iv = run.iv
    BY <2>2 DEF Stream, Deposited, Plain
  <2> QED BY <1>10, <1>12, <2>1, <2>3, StreamEnds, CopyStreamFrame
<1>13. CASE VerifyStream
  <2>1. /\ run.pc = "verify" /\ SameBagit /\ UNCHANGED <<disk, rows, sha>>
        /\ run'.pc \in {"store", "target"} /\ run.phase = "transfer"
    BY <1>1, <1>13, VerifyStreamFrame
  <2>2. InRows' = InRows /\ run.cur \in Bagits
    BY <1>1, <2>1 DEF InRows, Registered
  <2>3. ZipsAsDeposited'
    BY <2>1, <2>2 DEF StreamInv, ZipsAsDeposited, disk
  <2>4. CASE run.loc \in Encrypted /\ run.aes = NoDigest
    <3>1. /\ run'.pc = "store" /\ run'.loc = run.loc /\ run'.aes = run.hash
          /\ aes' = [aes EXCEPT ![run.cur] = run.hash] \/ UNCHANGED aes
      BY <1>13, <2>4, VerifyStreamFrame
    <3>2. KeysOfLocation'
      BY <2>1, <2>4, <3>1 DEF KeysOfLocation
    <3>3. Ciphertext(run.hash) /\ MadeWith(run.cur, run.hash)
      BY <2>1, <2>4 DEF StreamInv, KeysOfLocation, KeyInv, KeyHeld, Ciphertext, MadeWith
    <3>4. \A b \in Bagits : aes'[b] \in {aes[b], run.hash}
      BY <1>2, <3>1
    <3>5. CopiesOfZip'
      BY <2>1, <3>1, <3>3, <3>4
         DEF StreamInv, CopiesOfZip, Ciphertext, Deposited, MadeWith, SameBagit, disk
    <3> QED BY <2>3, <3>2, <3>5 DEF StreamInv
  <2>5. CASE ~ (run.loc \in Encrypted /\ run.aes = NoDigest)
    <3>1. run.hash = Expected
      BY <2>1, <2>5, StreamsAgree
    <3>2. /\ run'.pc = "store" /\ run'.loc = run.loc /\ run'.aes = run.aes /\ UNCHANGED aes
          /\ run'.key = run.key /\ run'.iv = run.iv
      BY <1>13, <2>5, <3>1, VerifyStreamFrame
         DEF VerifyStream, RecordDigest, CompareDigest, Goto, TypeInv, TypeOK, RunState
    <3> QED BY <1>1, <2>1, <3>2, StreamQuiet DEF SameBagit, SameLoop, disk
  <2> QED BY <2>4, <2>5
<1>14. CASE StoreOk
  BY <1>14, StreamEnds, StoreOkFrame, StreamQuiet DEF SameBagit, SameLoop, disk
<1> QED BY <1>3, <1>4, <1>5, <1>8, <1>9, <1>11, <1>12, <1>13, <1>14 DEF TransferStep

LEMMA CheckKeepsStream ==
    ASSUME TypeInv, WrittenInv, PageInv, KeyInv, StreamInv, CheckStep
    PROVE  StreamInv'
<1> USE DEF EncryptPcs, PagePcs, RowPcs, CheckPcs
<1>1. run.pc \in CheckPcs => run.phase = "check"
  BY DEF PageInv, PhaseOf
<1>2. CASE BeginChecks
  BY <1>2, BeginChecksFrame, PageBegins, StreamBegins DEF SameLoop, db
<1>3. CASE ChecksDone
  <2>1. run.phase = "check"
    BY <1>1, <1>3 DEF ChecksDone
  <2> QED BY <1>3, <2>1, EndBagitFrame, StreamQuiet DEF ChecksDone, SameLoop, disk, db
<1>4. ASSUME NEW l \in Locations, NextTest(l) PROVE StreamInv'
  BY <1>1, <1>4, NextTestFrame, StreamEnds, StreamQuiet DEF SameBagit, SameLoop, disk, db
<1>5. CASE ReadCopy
  BY <1>1, <1>5, ReadCopyFrame, StreamQuiet DEF SameLocation, SameBagit, SameLoop, disk, db
<1>6. CASE StoreResult
  BY <1>1, <1>6, StoreResultFrame, StreamEnds, StreamQuiet DEF SameBagit, SameLoop, disk
<1> QED BY <1>2, <1>3, <1>4, <1>5, <1>6 DEF CheckStep

LEMMA InitStream == Init => StreamInv
BY LocationsAssumption
   DEF Init, Idle, StreamInv, ZipsAsDeposited, KeysOfLocation, CopiesOfZip, Ciphertext, InRows,
       Registered, Absent, EncryptPcs, PagePcs, RowPcs, CheckPcs

LEMMA NextKeepsStream ==
    ASSUME FaultKinds \cap {"rot", "keyread"} = {},
           TypeInv, WrittenInv, PageInv, KeyInv, StreamInv, [Next]_vars
    PROVE  StreamInv'
<1>1. CASE UNCHANGED vars
  BY <1>1 DEF vars, disk, db, StreamInv, ZipsAsDeposited, KeysOfLocation, CopiesOfZip, MadeWith,
              InRows, Registered
<1>2. CASE StartRun
  BY <1>2, StartRunFrame, StreamQuiet
     DEF Begins, Idle, None, EncryptPcs, PagePcs, RowPcs, CheckPcs, disk, db
<1>3. CASE Crash
  BY <1>3, EndsOf, StreamEnds DEF Crash
<1>4. CASE Environment
  <2>1. UNCHANGED <<keyFile, ivFile, rows, sha, aes, run>>
    BY <1>4 DEF Environment, BeginUpload, EndUpload, Damage, Expire, disk, db
  <2>2. \A b \in Bagits : ~ Damage(b, InitLoc)
    BY DEF Damage, Fault
  <2>3. \A b \in Bagits, l \in Locations :
           \/ file'[b][l] = file[b][l]
           \/ /\ file'[b][l].key = Missing
              /\ l = InitLoc => file[b][l].kind # "whole"
    BY <1>4, <2>2, LocationsAssumption
       DEF Environment, BeginUpload, EndUpload, Damage, Expire, disk, TypeInv, TypeOK, DiskOK,
           Plain, Partial, Absent
  <2>4. InRows' = InRows /\ InRows \subseteq Bagits
    BY <2>1 DEF InRows, Registered
  <2>5. run.pc \in {"sum", "insert"} => run.cur \in Bagits
    BY DEF TypeInv, Holds, AtBagit
  <2>6. ZipsAsDeposited'
    BY <2>1, <2>3, <2>4, <2>5, LocationsAssumption DEF StreamInv, ZipsAsDeposited, Plain
  <2>7. KeysOfLocation'
    BY <2>1 DEF StreamInv, KeysOfLocation
  <2>8. CopiesOfZip'
    BY <2>1, <2>3 DEF StreamInv, CopiesOfZip, MadeWith
  <2> QED BY <2>6, <2>7, <2>8 DEF StreamInv
<1> QED BY <1>1, <1>2, <1>3, <1>4, IngestKeepsStream, PageKeepsStream, TransferKeepsStream,
           CheckKeepsStream DEF Next, Step

(***************************************************************************)
(* The transfer phase leaves no bagit of the table behind: when it has     *)
(* gone through the pages, every copy has its row, or is one the digest    *)
(* has refused, which takes a zip that decays or a key that cannot be read.*)
(***************************************************************************)
Mismatches == FaultKinds \cap {"rot", "keyread"} # {}
Refused(b, l) == Mismatches /\ (file[b][l] # Recorded(b, l) \/ Recorded(b, l) = NoDigest)

Handled(b) ==
    /\ transfer[b][InitLoc] = "ok"
    /\ \A l \in Copied : transfer[b][l] = "ok" \/ Refused(b, l)

\* The same of the bagit in hand, by the digest in hand.
DigestInHand(l) == IF l \in Encrypted THEN run.aes ELSE sha[run.cur]
DoneHere(l) ==
    \/ transfer[run.cur][l] = "ok"
    \/ /\ Mismatches /\ file[run.cur][l] # DigestInHand(l)
       /\ l \in Encrypted => run.aes # NoDigest

\* The row of the zip is there before any row of a copy.
Initially ==
    /\ \A b \in Bagits : transfer[b][InitLoc] \in {None, "ok"}
    /\ \A b \in Bagits, l \in Copied : transfer[b][l] # None => transfer[b][InitLoc] = "ok"

PagesBehind ==
    /\ run.pc # "idle" => run.known = Locations
    /\ run.pc \in PagePcs \cup {"load", "next"} => run.n = Len(rows)
    /\ run.phase = "transfer" =>
           \A k \in 1 .. Len(rows) : k <= run.start =>
               Handled(rows[k]) \/ rows[k] \in OnPage \/ (run.pc \in PagePcs /\ rows[k] = run.cur)
    /\ run.phase = "check" => \A b \in InRows : Handled(b)

LocationLoop ==
    /\ run.pc \in RowPcs \cup {"target"} =>
           /\ run.source => transfer[run.cur][InitLoc] = "ok"
           /\ \A l \in Copied \ run.locs : DoneHere(l) \/ (run.pc \in RowPcs /\ l = run.loc)
           /\ \/ run.locs = Copied \/ (run.pc = "open" /\ run.locs \cup {run.loc} = Copied)
              \/ transfer[run.cur][InitLoc] = "ok"
    /\ run.pc \in RowPcs \ {"open"} => run.source
    /\ run.pc = "verify" =>
           \/ file[run.cur][run.loc] = run.hash
           \/ file[run.cur][run.loc] # DigestInHand(run.loc)

PassedHere == run.pc = "result" /\ Verdict = "passed" => transfer[run.cur][run.loc] = "ok"

PagerInv == Initially /\ PagesBehind /\ LocationLoop /\ PassedHere

\* Nothing about the bagit changes, but that it gets rows.
StaysAt(b) ==
    /\ sha'[b] = sha[b] /\ aes'[b] = aes[b]
    /\ \A l \in Locations : /\ file'[b][l] = file[b][l]
                            /\ transfer[b][l] = "ok" => transfer'[b][l] = "ok"

LEMMA HandledStays == ASSUME NEW b, Handled(b), StaysAt(b) PROVE Handled(b)'
BY LocationsAssumption DEF Handled, Refused, Recorded, StaysAt, Copied

LEMMA DoneStays ==
    ASSUME NEW l \in Copied, DoneHere(l), run'.cur = run.cur, sha'[run.cur] = sha[run.cur],
           file'[run.cur][l] = file[run.cur][l],
           transfer[run.cur][l] = "ok" => transfer'[run.cur][l] = "ok",
           run'.aes = run.aes \/ run.aes = NoDigest
    PROVE  DoneHere(l)'
BY DEF DoneHere, DigestInHand

LEMMA PagerEnds ==
    ASSUME PagerInv, run' = Idle, Initially'
    PROVE  PagerInv'
BY DEF PagerInv, PagesBehind, LocationLoop, PassedHere, Idle, None, PagePcs, RowPcs, CheckPcs

\* Outside of the two loops only the tables count.
LEMMA PagerOutside ==
    ASSUME PagerInv, Initially', run'.pc \in WalkPcs, run'.phase = "ingest",
           run'.known = Locations
    PROVE  PagerInv'
BY DEF PagerInv, PagesBehind, LocationLoop, PassedHere, WalkPcs, PagePcs, RowPcs, CheckPcs

\* The bagit in hand stays in hand.
LEMMA PagerInside ==
    ASSUME TypeInv, PagesBehind, UNCHANGED rows, SameBagit, run.pc \in PagePcs, run'.pc \in PagePcs,
           \A b \in InRows : StaysAt(b) \/ (b = run.cur /\ run.phase = "transfer")
    PROVE  PagesBehind'
<1>1. InRows' = InRows /\ OnPage' = OnPage
  BY DEF InRows, Registered, OnPage, SameBagit
<1>2. \A k \in 1 .. Len(rows) : rows[k] \in InRows
  BY RowsOfInRows, SeqItems DEF TypeInv
<1>3. /\ run'.known = run.known /\ run'.n = run.n /\ run'.phase = run.phase
      /\ run'.start = run.start /\ run'.cur = run.cur /\ run.pc # "idle"
  BY DEF SameBagit, SameLoop, PagePcs, RowPcs, CheckPcs
<1>4. run.phase = "transfer" =>
          \A k \in 1 .. Len(rows) : k <= run.start =>
              Handled(rows[k])' \/ rows[k] \in OnPage \/ rows[k] = run.cur
  BY <1>2, HandledStays DEF PagesBehind
<1>5. run.phase = "check" => \A b \in InRows : Handled(b)'
  BY HandledStays DEF PagesBehind
<1> QED BY <1>1, <1>3, <1>4, <1>5 DEF PagesBehind

\* The callback is entered: the bagit goes from the page into the hand.
LEMMA PagerBegins ==
    ASSUME TypeInv, WrittenInv, PageInv, PagesBehind, UNCHANGED <<disk, db>>, SameLoop,
           run.pc = "next", run.page # <<>>,
           run'.page = Tail(run.page),
           run'.cur = Head(run.page).name, run'.aes = Head(run.page).aes,
           \/ run'.pc = "target" /\ run.phase = "transfer"
           \/ run'.pc = "test" /\ run.phase = "check"
    PROVE  PagesBehind'
<1>1. InRows' = InRows
  BY DEF InRows, Registered, db
<1>2. \A k \in 1 .. Len(rows) : rows[k] \in InRows
  BY RowsOfInRows, SeqItems DEF TypeInv
<1>3. \A b \in InRows : Handled(b) => Handled(b)'
  BY HandledStays DEF StaysAt, disk, db
<1>4. OnPage = OnPage' \cup {run'.cur} /\ run'.pc \in PagePcs
  BY PageBegins DEF db, PagePcs, RowPcs, CheckPcs
<1>5. run.pc \notin PagePcs /\ run.pc # "idle"
  BY DEF PagePcs, RowPcs, CheckPcs
<1>6. /\ run'.known = run.known /\ run'.n = run.n /\ run'.phase = run.phase
      /\ run'.start = run.start /\ rows' = rows
  BY DEF SameLoop, db
<1>7. run.phase = "transfer" =>
          \A k \in 1 .. Len(rows) : k <= run.start =>
              Handled(rows[k])' \/ rows[k] \in OnPage' \/ rows[k] = run'.cur
  BY <1>2, <1>3, <1>4, <1>5, <1>6 DEF PagesBehind
<1>8. run.phase = "check" => \A b \in InRows : Handled(b)'
  BY <1>3 DEF PagesBehind
<1> QED BY <1>1, <1>4, <1>5, <1>6, <1>7, <1>8 DEF PagesBehind

\* ... and out of it, when it is settled.
LEMMA PagerReturns ==
    ASSUME TypeInv, PagesBehind, UNCHANGED <<disk, db>>, SameLoop, run'.page = run.page,
           run.pc \in PagePcs, run'.pc = "next",
           run.phase = "transfer" => Handled(run.cur)
    PROVE  PagesBehind'
<1>1. InRows' = InRows /\ OnPage' = OnPage
  BY DEF InRows, Registered, OnPage, db
<1>2. \A k \in 1 .. Len(rows) : rows[k] \in InRows
  BY RowsOfInRows, SeqItems DEF TypeInv
<1>3. \A b \in InRows : Handled(b) => Handled(b)'
  BY HandledStays DEF StaysAt, disk, db
<1>4. /\ run'.known = run.known /\ run'.n = run.n /\ run'.phase = run.phase
      /\ run'.start = run.start /\ rows' = rows /\ run.pc # "idle"
  BY DEF SameLoop, db, PagePcs, RowPcs, CheckPcs
<1>5. run.phase = "transfer" =>
          \A k \in 1 .. Len(rows) : k <= run.start => Handled(rows[k])' \/ rows[k] \in OnPage
  BY <1>2, <1>3, <1>4 DEF PagesBehind
<1>6. run.phase = "check" => \A b \in InRows : Handled(b)'
  BY <1>3 DEF PagesBehind
<1> QED BY <1>1, <1>4, <1>5, <1>6 DEF PagesBehind

\* A page holds the rows up to its end, and the last page ends behind the rows.
LEMMA PageKeepsPager ==
    ASSUME "dbcut" \notin FaultKinds, TypeInv, WrittenInv, PageInv, PagerInv, PageStep
    PROVE  PagerInv'
<1>1. UNCHANGED <<disk, db>>
  BY CountRowsFrame, LoadPageFrame, EndOfPageFrame DEF PageStep
<1>2. InRows' = InRows /\ Initially'
  BY <1>1 DEF InRows, Registered, PagerInv, Initially, db
<1>3. \A k \in 1 .. Len(rows) : rows[k] \in InRows
  BY RowsOfInRows, SeqItems DEF TypeInv
<1>4. \A b \in InRows : Handled(b) => Handled(b)'
  BY <1>1, HandledStays DEF StaysAt, disk, db
<1>5. Ends => PagerInv'
  BY <1>2, PagerEnds DEF Ends
<1>6. run.pc \in {"count", "load", "next"} =>
          run.known = Locations /\ run.phase \in {"transfer", "check"} /\ run.pc \notin PagePcs
  BY DEF PagerInv, PagesBehind, PageInv, PhaseOf, PagePcs, RowPcs, CheckPcs
<1>7. run.phase = "check" => \A b \in InRows : Handled(b)'
  BY <1>4 DEF PagerInv, PagesBehind
<1>8. run.start \in Nat /\ run.n \in Nat /\ Len(rows) \in Nat /\ PageSize \in Nat
  BY BoundsAssumption DEF TypeInv, TypeOK, RunState, TablesOK
<1>9. run'.pc \notin PagePcs => LocationLoop' /\ PassedHere'
  BY DEF LocationLoop, PassedHere, PagePcs, RowPcs, CheckPcs
<1>10. CASE CountRows
  <2>1. ASSUME run'.pc = "load", run'.start = 0, run'.n = Len(rows), run'.phase = run.phase,
               run'.known = run.known, run.pc = "count"
        PROVE  PagesBehind'
    BY <1>1, <1>2, <1>6, <1>7, <2>1 DEF PagesBehind, db
  <2> QED BY <1>2, <1>5, <1>9, <1>10, <2>1, CountRowsFrame DEF PagerInv, PagePcs, RowPcs, CheckPcs
<1>11. CASE LoadPage
  <2>1. /\ run.pc = "load" /\ run.page = <<>> /\ run.n = Len(rows) /\ OnPage = {}
    BY <1>6, <1>11, LoadPageFrame DEF PagerInv, PagesBehind, PageInv, PhaseOf, OnPage
  <2>2. run.phase = "transfer" =>
            \A k \in 1 .. Len(rows) : k <= run.start => Handled(rows[k])'
    BY <1>1, <1>3, <1>4, <1>6, <2>1 DEF PagerInv, PagesBehind, db
  <2>3. ASSUME run'.pc = "next", run'.start = run.start + PageSize, run'.n = run.n,
               run'.phase = run.phase, run'.known = run.known, run'.page = Page(run.start)
        PROVE  PagesBehind'
    <3>0. \A k \in 1 .. Len(rows) : run.start < k /\ k <= run.start + PageSize =>
              \E i \in 1 .. Len(Page(run.start)) : Page(run.start)[i].name = rows[k]
      BY <1>8, PageItems DEF TypeInv, TypeOK
    <3>1. \A k \in 1 .. Len(rows) : run.start < k /\ k <= run.start + PageSize =>
              rows[k] \in OnPage'
      BY <2>3, <3>0 DEF OnPage
    <3>2. \A k \in 1 .. Len(rows) : k \in Nat
      BY <1>8
    <3>3. run.phase = "transfer" =>
              \A k \in 1 .. Len(rows) : k <= run'.start => Handled(rows[k])' \/ rows[k] \in OnPage'
      BY <1>8, <2>2, <2>3, <3>1, <3>2
    <3> QED BY <1>1, <1>2, <1>6, <1>7, <2>1, <2>3, <3>3 DEF PagesBehind, db
  <2>4. ASSUME run.start >= run.n, run.phase = "transfer", Begins("check", "count"),
               run'.known = run.known
        PROVE  PagesBehind'
    <3>1. \A k \in 1 .. Len(rows) : Handled(rows[k])'
      BY <1>8, <2>1, <2>2, <2>4
    <3>2. \A b \in InRows : Handled(b)'
      BY <1>1, <3>1 DEF InRows, Registered, db
    <3> QED BY <1>2, <1>6, <2>1, <2>4, <3>2 DEF PagesBehind, Begins, PagePcs, RowPcs, CheckPcs
  <2>5. Ends \/ (run'.pc \notin PagePcs /\ PagesBehind')
    BY <1>11, <2>3, <2>4, LoadPageFrame DEF Begins, PagePcs, RowPcs, CheckPcs
  <2> QED BY <1>2, <1>5, <1>9, <2>5 DEF PagerInv
<1>12. CASE EndOfPage
  <2>1. /\ run.pc = "next" /\ OnPage = {} /\ run.n = Len(rows)
        /\ run'.pc = "load" /\ run'.start = run.start /\ run'.n = run.n
        /\ run'.phase = run.phase /\ run'.known = run.known
    BY <1>12, EndOfPageFrame DEF PagerInv, PagesBehind, OnPage, SameLocation, SameBagit, SameLoop
  <2>2. run.phase = "transfer" =>
            \A k \in 1 .. Len(rows) : k <= run.start => Handled(rows[k])'
    BY <1>1, <1>3, <1>4, <1>6, <2>1 DEF PagerInv, PagesBehind, db
  <2>3. PagesBehind'
    BY <1>1, <1>2, <1>6, <1>7, <2>1, <2>2 DEF PagesBehind, db
  <2> QED BY <1>2, <1>9, <2>1, <2>3 DEF PagerInv, PagePcs, RowPcs, CheckPcs
<1> QED BY <1>10, <1>11, <1>12 DEF PageStep

LEMMA IngestKeepsPager ==
    ASSUME TypeInv, PageInv, PagerInv, IngestStep
    PROVE  PagerInv'
<1>1. run.pc \in WalkPcs /\ run.phase = "ingest" /\ run.known = Locations /\ run.pc \notin RowPcs
  BY DEF IngestStep, WalkZip, SumZip, InsertBagit, StoreInitLocation, AddContent, ZipDone, WalkDone,
         WalkPcs, RowPcs, PageInv, PhaseOf, PagerInv, PagesBehind
<1>2. UNCHANGED transfer => Initially'
  BY DEF PagerInv, Initially
<1>3. Ends => PagerInv'
  <2>1. Ends => \A b \in Bagits, l \in Locations : transfer'[b][l] = transfer[b][l]
    BY <1>1 DEF Ends
  <2>2. Ends => Initially'
    BY <2>1, LocationsAssumption DEF PagerInv, Initially, Copied
  <2> QED BY <2>2, PagerEnds DEF Ends
<1>4. SameLoop /\ run'.pc \in WalkPcs /\ Initially' => PagerInv'
  BY <1>1, PagerOutside DEF SameLoop
<1>5. ASSUME NEW b \in Bagits, WalkZip(b) PROVE PagerInv'
  BY <1>2, <1>3, <1>4, <1>5, WalkZipFrame DEF SameBagit, WalkPcs, db
<1>6. CASE SumZip
  BY <1>2, <1>3, <1>4, <1>6, SumZipFrame DEF SameBagit, WalkPcs, db
<1>7. CASE InsertBagit
  BY <1>2, <1>3, <1>4, <1>7, InsertBagitFrame DEF SameBagit, WalkPcs
<1>8. CASE StoreInitLocation
  <2>1. ASSUME transfer' = [transfer EXCEPT ![run.cur][InitLoc] = "ok"] PROVE Initially'
    <3>1. \A b \in Bagits, l \in Locations :
             transfer'[b][l] = IF b = run.cur /\ l = InitLoc THEN "ok" ELSE transfer[b][l]
      BY <2>1 DEF TypeInv, TypeOK, StatusOK
    <3> QED BY <3>1, LocationsAssumption DEF PagerInv, Initially, Copied
  <2> QED BY <1>3, <1>4, <1>8, <2>1, StoreInitFrame DEF SameBagit, WalkPcs
<1>9. CASE AddContent
  BY <1>2, <1>4, <1>9, AddContentFrame DEF SameBagit, WalkPcs
<1>10. CASE ZipDone
  BY <1>2, <1>4, <1>10, ZipDoneFrame DEF WalkPcs, db
<1>11. CASE WalkDone
  <2>1. Begins("transfer", "count") /\ run'.known = Locations /\ Initially'
    BY <1>1, <1>2, <1>11, EnterPhaseFrame DEF WalkDone, db
  <2>2. \A k \in 1 .. Len(rows') : ~ (k <= 0)
    OBVIOUS
  <2> QED BY <2>1, <2>2
          DEF PagerInv, PagesBehind, LocationLoop, PassedHere, Begins, PagePcs, RowPcs, CheckPcs
<1> QED BY <1>5, <1>6, <1>7, <1>8, <1>9, <1>10, <1>11 DEF IngestStep

\* The last location is done: what the digest in hand refuses, the recorded one
\* refuses.
LEMMA HandIsHandled ==
    ASSUME Locations # {InitLoc}, PageInv, LocationLoop, run.pc = "target", run.locs = {}
    PROVE  Handled(run.cur)
<1>1. transfer[run.cur][InitLoc] = "ok" /\ \A l \in Copied : DoneHere(l)
  BY LocationsAssumption DEF LocationLoop, Copied, RowPcs
<1>2. run.aes = aes[run.cur] \/ aes[run.cur] = NoDigest
  BY DEF PageInv, InHand, PagePcs
<1> QED BY <1>1, <1>2 DEF DoneHere, DigestInHand, Handled, Refused, Recorded

LEMMA TransferKeepsPager ==
    ASSUME "dbcut" \notin FaultKinds, Locations # {InitLoc}, ~ Mismatches => KeyInv /\ StreamInv,
           TypeInv, WrittenInv, PageInv, PagerInv, TransferStep
    PROVE  PagerInv'
<1>1. /\ run.pc \in RowPcs =>
             /\ run.cur \in Bagits /\ run.loc \in Copied /\ run.phase = "transfer"
             /\ run.pc # "open" => run.source
             /\ run.source => transfer[run.cur][InitLoc] = "ok"
             /\ \A l \in Copied \ run.locs : DoneHere(l) \/ l = run.loc
      /\ transfer \in [Bagits -> [Locations -> {None, "ok", "error"}]]
      /\ file \in [Bagits -> [Locations -> Content]] /\ aes \in [Bagits -> Content]
      /\ InRows \subseteq Bagits
  <2>1. run.pc \in RowPcs => run.cur \in Bagits /\ run.loc \in Locations
    BY DEF TypeInv, Holds, AtLocation, RowPcs
  <2>2. run.pc \in RowPcs => run.loc # InitLoc /\ run.phase = "transfer"
    BY DEF WrittenInv, TargetOpen, PageInv, PhaseOf
  <2>3. run.pc = "target" => run.pc \notin RowPcs
    BY DEF RowPcs
  <2> QED BY <2>1, <2>2, <2>3
          DEF PagerInv, LocationLoop, Copied, InRows, TypeInv, TypeOK, StatusOK, DiskOK, TablesOK
<1>2. UNCHANGED transfer => Initially'
  BY DEF PagerInv, Initially
\* The run ends: the row it leaves behind is not the first one of the bagit.
<1>3. ASSUME Ends, run.pc \in RowPcs => run.source \/ UNCHANGED transfer
      PROVE  PagerInv'
  <2>1. Initially'
    <3>1. CASE UNCHANGED transfer
      BY <1>2, <3>1
    <3>2. CASE run.pc \notin RowPcs
      <4>1. \A b \in Bagits, l \in Locations : transfer'[b][l] = transfer[b][l]
        BY <1>3, <3>2 DEF Ends
      <4> QED BY <4>1, LocationsAssumption DEF PagerInv, Initially, Copied
    <3>3. CASE run.pc \in RowPcs /\ run.source
      <4>1. \A b \in Bagits : transfer'[b][InitLoc] = transfer[b][InitLoc]
        BY <1>1, <1>3, <3>3, LocationsAssumption DEF Ends, Copied
      <4>2. \A b \in Bagits, l \in Copied : transfer'[b][l] = transfer[b][l] \/ b = run.cur
        BY <1>3 DEF Ends, Copied
      <4> QED BY <1>1, <3>3, <4>1, <4>2 DEF PagerInv, Initially
    <3> QED BY <1>3, <3>1, <3>2, <3>3
  <2> QED BY <1>3, <2>1, PagerEnds DEF Ends
<1>4. run'.pc \in RowPcs \cup {"target"} => PassedHere'
  BY DEF PassedHere, RowPcs
\* A step inside of the work on one location.
<1>5. ASSUME run.pc \in RowPcs, run'.pc \in RowPcs \ {"open"}, run.source, SameBagit,
             run'.locs = run.locs, run'.loc = run.loc, run'.aes = run.aes \/ run.aes = NoDigest,
             UNCHANGED <<rows, sha, transfer>>,
             \A b \in Bagits : b # run.cur => aes'[b] = aes[b],
             \A b \in Bagits, l \in Locations :
                 file'[b][l] = file[b][l] \/ (b = run.cur /\ l = run.loc),
             run'.pc = "verify" => file'[run.cur][run.loc] = run'.hash
      PROVE  PagerInv'
  <2>1. run'.cur = run.cur /\ run'.source = run.source
    BY <1>5 DEF SameBagit
  <2>2. \A b \in InRows : StaysAt(b) \/ (b = run.cur /\ run.phase = "transfer")
    BY <1>1, <1>5 DEF StaysAt
  <2>3. PagesBehind'
    BY <1>5, <2>2, PagerInside DEF PagerInv, PagePcs
  <2>4. \A l \in Copied \ run.locs : DoneHere(l)' \/ l = run.loc
    BY <1>1, <1>5, <2>1, DoneStays DEF Copied
  <2>5. LocationLoop'
    BY <1>1, <1>5, <2>1, <2>4 DEF LocationLoop
  <2> QED BY <1>2, <1>4, <1>5, <2>3, <2>5 DEF PagerInv
\* The work on one location is done.
<1>6. ASSUME run.pc \in RowPcs \ {"open"}, run'.pc = "target", SameBagit,
             run'.locs = run.locs, run'.aes = run.aes, UNCHANGED <<disk, rows, sha, aes>>,
             \A b \in Bagits, l \in Locations :
                 \/ transfer'[b][l] = transfer[b][l]
                 \/ b = run.cur /\ l = run.loc /\ transfer'[b][l] = "ok",
             \A l \in Copied : l = run.loc => DoneHere(l)'
      PROVE  PagerInv'
  <2>1. run'.cur = run.cur /\ run'.source = run.source /\ run.source
    BY <1>1, <1>6 DEF SameBagit
  <2>2. \A b \in InRows : StaysAt(b)
    BY <1>1, <1>6 DEF StaysAt, disk
  <2>3. PagesBehind'
    BY <1>6, <2>2, PagerInside DEF PagerInv, PagePcs
  <2>4. \A l \in Copied \ run.locs : DoneHere(l)'
    BY <1>1, <1>6, <2>1, DoneStays DEF Copied, disk
  <2>5. transfer[run.cur][InitLoc] = "ok" /\ InitLoc \in Locations /\ run.loc # InitLoc
    BY <1>1, <1>6, <2>1, LocationsAssumption DEF Copied
  <2>6. LocationLoop'
    <3>1. transfer'[run.cur][InitLoc] = "ok"
      BY <1>1, <1>6, <2>5
    <3>2. run'.pc \notin RowPcs /\ run'.pc # "verify"
      BY <1>6 DEF RowPcs
    <3> QED BY <1>6, <2>1, <2>4, <3>1, <3>2 DEF LocationLoop
  <2>7. Initially'
    BY <1>6, <2>5 DEF PagerInv, Initially, Copied
  <2> QED BY <1>4, <1>6, <2>3, <2>6, <2>7 DEF PagerInv
<1>7. CASE LoadSource
  <2>1. ASSUME run.pc = "next", run.phase = "transfer", run.page # <<>>,
               run'.pc = "target", run'.page = Tail(run.page), SameLoop,
               run'.cur = Head(run.page).name, run'.aes = Head(run.page).aes,
               run'.source = (transfer[run'.cur][InitLoc] # None),
               run'.locs = run.known \ {InitLoc},
               UNCHANGED <<disk, db>>
        PROVE  PagerInv'
    <3>1. PagesBehind'
      BY <2>1, PagerBegins DEF PagerInv
    <3>2. run'.cur \in InRows
      BY <2>1, PageBegins DEF db
    <3>3. run'.locs = Copied /\ UNCHANGED transfer
      BY <2>1 DEF PagerInv, PagesBehind, Copied, db
    <3>4. run'.source => transfer'[run'.cur][InitLoc] = "ok"
      BY <1>1, <2>1, <3>2, <3>3 DEF PagerInv, Initially
    <3>5. LocationLoop'
      BY <2>1, <3>3, <3>4 DEF LocationLoop, RowPcs
    <3> QED BY <1>2, <1>4, <2>1, <3>1, <3>3, <3>5 DEF PagerInv
  <2>2. Ends => PagerInv'
    BY <1>3, <1>7 DEF LoadSource, HasBagit, RowPcs
  <2> QED BY <1>7, <2>1, <2>2, LoadSourceFrame
<1>8. CASE TransferDone
  <2>1. run.pc = "target" /\ run.locs = {} /\ EndBagit
    BY <1>8 DEF TransferDone
  <2>2. Handled(run.cur)
    BY <2>1, HandIsHandled DEF PagerInv
  <2>3. PagesBehind'
    BY <2>1, <2>2, EndBagitFrame, PagerReturns DEF PagerInv, PagePcs
  <2> QED BY <1>2, <2>1, <2>3, EndBagitFrame DEF PagerInv, LocationLoop, PassedHere, RowPcs, db
<1>9. ASSUME NEW l \in Locations, NextTarget(l) PROVE PagerInv'
  <2>1. /\ run.pc = "target" /\ l \in run.locs /\ l \in Copied /\ SameBagit
        /\ run'.aes = run.aes /\ run'.locs = run.locs \ {l} /\ UNCHANGED <<disk, db>>
        /\ run.cur \in Bagits
    BY <1>9, NextTargetFrame DEF Copied, WrittenInv, TargetOpen, TypeInv, Holds, AtBagit
  <2>2. /\ run'.cur = run.cur /\ run'.source = run.source
        /\ UNCHANGED <<file, rows, sha, aes, transfer>>
    BY <2>1 DEF SameBagit, disk, db
  <2>3. /\ run.source => transfer[run.cur][InitLoc] = "ok"
        /\ \A m \in Copied \ run.locs : DoneHere(m)'
        /\ run.locs = Copied \/ transfer[run.cur][InitLoc] = "ok"
    BY <2>1, <2>2, DoneStays DEF PagerInv, LocationLoop, RowPcs
  <2>4. \A b \in InRows : StaysAt(b)
    BY <2>2 DEF StaysAt
  <2>5. run'.pc \in {"target", "open"}
    BY <1>9, NextTargetFrame
  <2>6. PagesBehind'
    BY <2>1, <2>2, <2>4, <2>5, PagerInside DEF PagerInv, PagePcs, RowPcs
  <2>7. CASE run'.pc = "target" /\ transfer[run.cur][l] = "ok"
    <3>1. DoneHere(l)' /\ transfer[run.cur][InitLoc] = "ok"
      BY <2>1, <2>2, <2>7 DEF DoneHere, PagerInv, Initially, None
    <3>2. LocationLoop'
      BY <2>1, <2>2, <2>3, <2>7, <3>1 DEF LocationLoop, RowPcs
    <3> QED BY <1>2, <1>4, <2>2, <2>6, <2>7, <3>2 DEF PagerInv
  <2>8. CASE run'.pc = "open" /\ run'.loc = l
    <3>1. run.locs = Copied => run'.locs \cup {l} = Copied
      BY <2>1
    <3>2. LocationLoop'
      BY <2>1, <2>2, <2>3, <2>8, <3>1 DEF LocationLoop, RowPcs
    <3> QED BY <1>2, <1>4, <2>2, <2>6, <2>8, <3>2 DEF PagerInv, RowPcs
  <2> QED BY <1>9, <2>7, <2>8, NextTargetFrame
<1>10. CASE OpenSource
  <2>1. Ends => run.source \/ UNCHANGED transfer
    BY <1>10 DEF OpenSource, Abort, db
  <2>2. run.pc \in RowPcs
    BY <1>10 DEF OpenSource, RowPcs
  <2>3. ASSUME run.source, run'.pc = (IF run.loc \in Encrypted THEN "getkey" ELSE "create"),
               SameLocation, UNCHANGED <<disk, db>>
        PROVE  PagerInv'
    BY <1>5, <2>2, <2>3 DEF SameLocation, RowPcs, disk, db
  <2> QED BY <1>3, <1>10, <2>1, <2>3, OpenSourceFrame
<1>11. CASE GetKey \/ SetKey \/ GetIV \/ SetIV \/ NewCipher
  <2>1. run.pc \in RowPcs \ {"open"} /\ run.source
    BY <1>1, <1>11, KeyStepFrame DEF RowPcs
  <2>2. ASSUME run'.pc \in {"setkey", "getiv", "setiv", "cipher", "create"}, SameLocation,
               UNCHANGED <<file, db>>
        PROVE  PagerInv'
    BY <1>5, <2>1, <2>2 DEF SameLocation, RowPcs, db
  <2> QED BY <1>3, <1>11, <2>1, <2>2, KeyStepFrame
<1>12. ASSUME NEW bytes, file' = [file EXCEPT ![run.cur][run.loc] = bytes],
              UNCHANGED db, run.pc \in {"create", "copy"}, SameLocation,
              run'.pc = "copy" \/ (run'.pc = "verify" /\ run'.hash = bytes)
       PROVE  PagerInv'
  <2>1. run.pc \in RowPcs \ {"open"} /\ run.source /\ run.loc \in Locations /\ run.cur \in Bagits
    BY <1>1, <1>12 DEF RowPcs, Copied
  <2>2. \A b \in Bagits, l \in Locations :
           file'[b][l] = IF b = run.cur /\ l = run.loc THEN bytes ELSE file[b][l]
    BY <1>1, <1>12, <2>1
  <2> QED BY <1>5, <1>12, <2>1, <2>2 DEF SameLocation, RowPcs, db
<1>13. CASE CreateTarget
  <2>1. run.pc \in RowPcs \ {"open"} /\ run.source
    BY <1>1, <1>13 DEF CreateTarget, RowPcs
  <2> QED BY <1>3, <1>12, <1>13, <2>1, CreateTargetFrame
<1>14. CASE CopyStream
  <2>1. run.pc \in RowPcs \ {"open"} /\ run.source
    BY <1>1, <1>14 DEF CopyStream, RowPcs
  <2> QED BY <1>3, <1>12, <1>14, <2>1, CopyStreamFrame
<1>15. CASE VerifyStream
  <2>1. /\ run.pc = "verify" /\ run.pc \in RowPcs \ {"open"} /\ run.source /\ SameBagit
        /\ run'.locs = run.locs /\ UNCHANGED <<disk, rows, sha, transfer>>
        /\ run.loc \in Copied /\ run.cur \in Bagits /\ run'.cur = run.cur
    BY <1>1, <1>15, VerifyStreamFrame DEF RowPcs, SameBagit
  <2>2. UNCHANGED file
    BY <2>1 DEF disk
  <2>3. CASE run'.pc = "store"
    <3>1. run'.loc = run.loc /\ (run'.aes = run.aes \/ run.aes = NoDigest)
      BY <1>15, <2>3, VerifyStreamFrame
    <3>2. \A b \in Bagits : b # run.cur => aes'[b] = aes[b]
      BY <1>1, <1>15, VerifyStreamFrame
    <3> QED BY <1>5, <2>1, <2>2, <2>3, <3>1, <3>2 DEF RowPcs
  <2>4. CASE run'.pc = "target"
    <3>1. /\ ~ (run.loc \in Encrypted /\ run.aes = NoDigest) /\ run.hash # Expected
          /\ run'.aes = run.aes /\ UNCHANGED aes
      BY <1>15, <2>4, VerifyStreamFrame
    <3>2. Mismatches
      BY <2>1, <3>1, StreamsAgree
    <3>3. Expected = DigestInHand(run.loc)
      BY DEF Expected, DigestInHand
    <3>4. file[run.cur][run.loc] # DigestInHand(run.loc)
      BY <2>1, <3>1, <3>3 DEF PagerInv, LocationLoop
    <3>5. ASSUME NEW l \in Copied, l = run.loc PROVE DoneHere(l)'
      <4>1. file'[run'.cur][l] # DigestInHand(l)'
        BY <2>1, <2>2, <3>1, <3>4, <3>5 DEF DigestInHand
      <4> QED BY <2>1, <3>1, <3>2, <3>5, <4>1 DEF DoneHere
    <3> QED BY <1>6, <2>1, <2>4, <3>1, <3>5
  <2> QED BY <1>15, <2>3, <2>4, VerifyStreamFrame
<1>16. CASE StoreOk
  <2>1. run.pc \in RowPcs \ {"open"} /\ run.source /\ run.loc \in Locations /\ run.cur \in Bagits
    BY <1>1, <1>16 DEF StoreOk, RowPcs, Copied
  <2>2. ASSUME run'.pc = "target", SameBagit, run'.locs = run.locs, run'.aes = run.aes,
               transfer' = [transfer EXCEPT ![run.cur][run.loc] = "ok"],
               UNCHANGED <<disk, rows, sha, aes>>
        PROVE  PagerInv'
    <3>1. \A b \in Bagits, l \in Locations :
             transfer'[b][l] = IF b = run.cur /\ l = run.loc THEN "ok" ELSE transfer[b][l]
      BY <1>1, <2>1, <2>2
    <3>2. run'.cur = run.cur
      BY <2>2 DEF SameBagit
    <3>3. \A l \in Copied : l = run.loc => DoneHere(l)'
      BY <2>1, <3>1, <3>2 DEF DoneHere
    <3> QED BY <1>6, <2>1, <2>2, <3>1, <3>3
  <2> QED BY <1>3, <1>16, <2>1, <2>2, StoreOkFrame
<1> QED BY <1>7, <1>8, <1>9, <1>10, <1>11, <1>13, <1>14, <1>15, <1>16 DEF TransferStep

LEMMA CheckKeepsPager ==
    ASSUME TypeInv, WrittenInv, PageInv, PagerInv, CheckStep
    PROVE  PagerInv'
<1>1. run.pc \in CheckPcs \cup {"next"} => run.pc \notin RowPcs
  BY DEF CheckPcs, RowPcs
<1>2. UNCHANGED transfer => Initially'
  BY DEF PagerInv, Initially
<1>3. Ends /\ run.pc \notin RowPcs => PagerInv'
  <2>1. Ends /\ run.pc \notin RowPcs =>
            \A b \in Bagits, l \in Locations : transfer'[b][l] = transfer[b][l]
    BY DEF Ends
  <2>2. Ends /\ run.pc \notin RowPcs => Initially'
    BY <2>1, LocationsAssumption DEF PagerInv, Initially, Copied
  <2> QED BY <2>2, PagerEnds DEF Ends
<1>4. run'.pc \in {"test", "read", "result", "next"} => LocationLoop'
  BY DEF LocationLoop, RowPcs
\* The bagit in hand stays in hand.
<1>5. ASSUME run.pc \in CheckPcs, run'.pc \in CheckPcs, SameBagit,
             UNCHANGED <<disk, rows, sha, aes, transfer>>, PassedHere'
      PROVE  PagerInv'
  <2>1. \A b \in InRows : StaysAt(b)
    BY <1>5 DEF StaysAt, disk
  <2>2. PagesBehind'
    BY <1>5, <2>1, PagerInside DEF PagerInv, PagePcs
  <2> QED BY <1>2, <1>4, <1>5, <2>2 DEF PagerInv, CheckPcs
<1>6. run'.pc # "result" => PassedHere'
  BY DEF PassedHere
<1>7. CASE BeginChecks
  <2>1. PagesBehind' /\ UNCHANGED transfer /\ run'.pc = "test"
    BY <1>7, BeginChecksFrame, PagerBegins DEF PagerInv, db
  <2> QED BY <1>2, <1>4, <1>6, <2>1 DEF PagerInv
<1>8. CASE ChecksDone
  <2>1. run.pc = "test" /\ EndBagit /\ run.phase = "check"
    BY <1>8 DEF ChecksDone, PageInv, PhaseOf, CheckPcs
  <2>2. PagesBehind' /\ UNCHANGED transfer /\ run'.pc = "next"
    BY <2>1, EndBagitFrame, PagerReturns DEF PagerInv, PagePcs, CheckPcs, db
  <2> QED BY <1>2, <1>4, <1>6, <2>2 DEF PagerInv
<1>9. ASSUME NEW l \in Locations, NextTest(l) PROVE PagerInv'
  <2>1. run.pc = "test" /\ UNCHANGED <<disk, db>>
    BY <1>9, NextTestFrame
  <2>2. UNCHANGED <<rows, sha, aes, transfer>>
    BY <2>1 DEF db
  <2> QED BY <1>1, <1>3, <1>5, <1>6, <1>9, <2>1, <2>2, NextTestFrame DEF CheckPcs
\* A copy that has no row is one the digest refuses.
<1>10. CASE ReadCopy
  <2>1. /\ run.pc = "read" /\ run'.pc = "result" /\ SameLocation
        /\ run'.hash = At(run.cur, run.loc) \/ run'.hash = NoDigest
        /\ UNCHANGED <<disk, db>>
    BY <1>10, ReadCopyFrame
  <2>2. /\ run.cur \in InRows /\ run.loc \in Locations /\ run.phase = "check"
        /\ run.aes = aes[run.cur]
    BY <2>1 DEF TypeInv, Holds, AtLocation, PageInv, PhaseOf, InHand, CheckPcs, PagePcs
  <2>3. Handled(run.cur)
    BY <2>2 DEF PagerInv, PagesBehind
  <2>4. PassedHere'
    <3>1. /\ run'.cur = run.cur /\ run'.loc = run.loc /\ run'.aes = run.aes
          /\ UNCHANGED <<sha, transfer>>
      BY <2>1 DEF SameLocation, SameBagit, db
    <3>2. SUFFICES ASSUME Verdict' = "passed" PROVE transfer[run.cur][run.loc] = "ok"
      BY <3>1 DEF PassedHere
    <3>3. run'.hash = Recorded(run.cur, run.loc) /\ Recorded(run.cur, run.loc) # NoDigest
      BY <2>2, <3>1, <3>2 DEF Verdict, TargetChecksum, Recorded
    <3>4. CASE run.loc = InitLoc
      BY <2>3, <3>4 DEF Handled
    <3>5. CASE run.loc # InitLoc
      <4>1. file[run.cur][run.loc] = Recorded(run.cur, run.loc)
        BY <2>1, <3>3, <3>5 DEF At
      <4> QED BY <2>2, <2>3, <3>3, <3>5, <4>1 DEF Handled, Refused, Copied
    <3> QED BY <3>4, <3>5
  <2>5. UNCHANGED <<rows, sha, aes, transfer>> /\ SameBagit
    BY <2>1 DEF db, SameLocation
  <2> QED BY <1>5, <2>1, <2>4, <2>5 DEF CheckPcs
<1>11. CASE StoreResult
  <2>1. run.pc \notin RowPcs /\ run.pc = "result"
    BY <1>1, <1>11, StoreResultFrame DEF CheckPcs
  <2> QED BY <1>3, <1>5, <1>6, <1>11, <2>1, StoreResultFrame DEF CheckPcs, db
<1> QED BY <1>7, <1>8, <1>9, <1>10, <1>11 DEF CheckStep

\* What decays is not what the digest says: the bytes are newer than it.
LEMMA EnvironmentKeepsPager ==
    ASSUME TypeInv, WrittenInv, PageInv, NothingNewer, PagerInv, Environment
    PROVE  PagerInv'
<1>1. UNCHANGED <<rows, sha, aes, transfer, run>>
  BY DEF Environment, BeginUpload, EndUpload, Damage, Expire, db
<1>2. InRows' = InRows /\ OnPage' = OnPage /\ InRows \subseteq Bagits
  BY <1>1 DEF InRows, Registered, OnPage
<1>3. \A b \in Bagits, l \in Copied :
         file'[b][l] = file[b][l] \/ file'[b][l].ver = faults + 1
  BY LocationsAssumption
     DEF Environment, BeginUpload, EndUpload, Damage, Fault, Expire, Plain, disk, Copied,
         TypeInv, TypeOK, DiskOK
<1>4. \A bytes \in Content : Old(bytes) => bytes.ver # faults + 1
  BY BoundsAssumption DEF Old, Content, TypeInv, TypeOK
<1>5. \A b \in Bagits : sha[b].ver # faults + 1 /\ aes[b].ver # faults + 1
  BY <1>4 DEF NothingNewer, TypeInv, TypeOK, TablesOK
<1>6. run.pc \in PagePcs => run.cur \in Bagits /\ run.aes.ver # faults + 1
  BY <1>2, <1>4 DEF NothingNewer, PageInv, InHand, TypeInv, TypeOK, RunState
<1>7. \A b \in InRows : Handled(b) => Handled(b)'
  BY <1>1, <1>2, <1>3, <1>5 DEF Handled, Refused, Recorded
<1>8. \A k \in 1 .. Len(rows) : rows[k] \in InRows
  BY RowsOfInRows, SeqItems DEF TypeInv
<1>9. PagesBehind'
  <2>1. run.phase = "transfer" =>
            \A k \in 1 .. Len(rows) : k <= run.start =>
                Handled(rows[k])' \/ rows[k] \in OnPage \/ (run.pc \in PagePcs /\ rows[k] = run.cur)
    BY <1>1, <1>7, <1>8 DEF PagerInv, PagesBehind
  <2> QED BY <1>1, <1>2, <1>7, <2>1 DEF PagerInv, PagesBehind
<1>10. LocationLoop'
  <2>1. ASSUME run.pc \in PagePcs, NEW l \in Copied
        PROVE  \/ file'[run.cur][l] = file[run.cur][l]
               \/ file'[run.cur][l] # DigestInHand(l)
    BY <1>3, <1>5, <1>6, <2>1 DEF DigestInHand
  <2>2. ASSUME run.pc \in PagePcs, NEW l \in Copied, DoneHere(l)
        PROVE  DoneHere(l)'
    BY <1>1, <2>1, <2>2 DEF DoneHere, DigestInHand
  <2>3. run.pc = "verify" => run.loc \in Copied
    BY DEF TypeInv, Holds, AtLocation, WrittenInv, TargetOpen, RowPcs, Copied
  <2> QED BY <1>1, <2>1, <2>2, <2>3 DEF PagerInv, LocationLoop, PagePcs, RowPcs, DigestInHand
<1>11. Initially'
  BY <1>1 DEF PagerInv, Initially
<1>12. PassedHere'
  BY <1>1 DEF PagerInv, PassedHere, Verdict, TargetChecksum
<1> QED BY <1>9, <1>10, <1>11, <1>12 DEF PagerInv

LEMMA InitPager == Init => PagerInv
<1> SUFFICES ASSUME Init PROVE PagerInv
  OBVIOUS
<1>1. /\ run = Idle
      /\ \A b \in Bagits, l \in Locations : transfer[b][l] = None
  BY DEF Init
<1>2. Initially
  BY <1>1, LocationsAssumption DEF Initially, Copied
<1>3. run.pc = "idle" /\ run.phase = "none"
  BY <1>1 DEF Idle, None
<1> QED BY <1>2, <1>3 DEF PagerInv, PagesBehind, LocationLoop, PassedHere, PagePcs, RowPcs, CheckPcs

LEMMA NextKeepsPager ==
    ASSUME "dbcut" \notin FaultKinds, Locations # {InitLoc}, ~ Mismatches => KeyInv /\ StreamInv,
           TypeInv, WrittenInv, PageInv, NothingNewer, PagerInv, [Next]_vars
    PROVE  PagerInv'
<1>1. UNCHANGED transfer => Initially'
  BY DEF PagerInv, Initially
<1>2. CASE UNCHANGED vars
  BY <1>2 DEF vars, disk, db, PagerInv, Initially, PagesBehind, LocationLoop, PassedHere, Handled, Refused,
              Recorded, DoneHere, DigestInHand, OnPage, InRows, Registered, Verdict, TargetChecksum
<1>3. CASE StartRun
  <2>1. UNCHANGED transfer
    BY <1>3, StartRunFrame DEF db
  <2>2. CASE run' = Idle
    BY <1>1, <2>1, <2>2, PagerEnds
  <2>3. CASE Begins("ingest", "walk") /\ run'.known = Locations
    BY <1>1, <2>1, <2>3, PagerOutside DEF Begins, WalkPcs
  <2> QED BY <1>3, <2>2, <2>3, StartRunFrame
<1>4. CASE Crash
  BY <1>1, <1>4, PagerEnds DEF Crash, Fails, Exit, db
<1> QED BY <1>2, <1>3, <1>4, IngestKeepsPager, PageKeepsPager, TransferKeepsPager,
           CheckKeepsPager, EnvironmentKeepsPager DEF Next, Step

\* When the check phase begins every bagit is at every location, as long as
\* the zips do not decay, the key files can be read and no result is cut
\* short: Check is entered behind the last page, and a page is behind Transfer
\* when every location of every bagit on it has its row.
THEOREM CheckedCorrect ==
    ASSUME FaultKinds \cap {"dbcut", "rot", "keyread"} = {}, Locations # {InitLoc}
    PROVE  Spec => []CheckedIsTransferred
<1>1. TypeInv /\ WrittenInv /\ [Next]_vars => WrittenInv'
  BY NextKeepsWritten
<1>2. TypeInv /\ WrittenInv /\ PageInv /\ [Next]_vars => PageInv'
  BY NextKeepsPage
<1>3. TypeInv /\ KeyInv /\ [Next]_vars => KeyInv'
  BY NextKeepsKey
<1>4. TypeInv /\ WrittenInv /\ PageInv /\ NothingNewer /\ [Next]_vars => NothingNewer'
  BY NextKeepsNewer
<1>5. TypeInv /\ WrittenInv /\ PageInv /\ KeyInv /\ StreamInv /\ [Next]_vars => StreamInv'
  BY NextKeepsStream
<1>6. TypeInv /\ WrittenInv /\ PageInv /\ NothingNewer /\ KeyInv /\ StreamInv /\ PagerInv
      /\ [Next]_vars => PagerInv'
  BY NextKeepsPager
<1>7. PagerInv => CheckedIsTransferred
  <2>1. ~ Mismatches
    BY DEF Mismatches
  <2>2. \A b \in InRows, l \in Locations : Handled(b) => transfer[b][l] = "ok"
    BY <2>1 DEF Handled, Refused, Copied
  <2> QED BY <2>2 DEF PagerInv, PagesBehind, CheckedIsTransferred, InRows
<1> QED BY <1>1, <1>2, <1>3, <1>4, <1>5, <1>6, <1>7, InitType, NextType, InitWritten, InitPage,
           InitKey, InitNewer, InitStream, InitPager, PTL DEF Spec

(***************************************************************************)
(* A passed test is about an archived copy.                                *)
(***************************************************************************)
LEMMA OkStays ==
    ASSUME "dbread" \notin FaultKinds, TypeInv, WrittenInv, [Next]_vars,
           NEW b \in Bagits, NEW l \in Locations, transfer[b][l] = "ok"
    PROVE  transfer'[b][l] = "ok"
<1>1. CASE l # InitLoc
  BY <1>1, NextIsFinal
<1>2. CASE l = InitLoc
  <2>1. CASE StartRun \/ PageStep \/ TransferStep \/ CheckStep
    BY <1>2, <2>1, EntersNothing
  <2>2. CASE IngestStep
    <3>1. UNCHANGED transfer \/ transfer' = [transfer EXCEPT ![run.cur][InitLoc] = "ok"]
      BY <2>2 DEF IngestStep, WalkZip, SkipZip, AcceptZip, RejectZip, SumZip, InsertBagit, InsertRow,
                  DuplicateRow, StoreInitLocation, StoreInitRow, AddContent, ZipDone, WalkDone,
                  Goto, Abort, Fails, db
    <3> QED BY <1>2, <3>1 DEF TypeInv, TypeOK, StatusOK
  <2>3. CASE Crash \/ Environment \/ UNCHANGED vars
    BY <2>3 DEF Crash, Fails, Environment, BeginUpload, EndUpload, Damage, Expire, vars, db
  <2> QED BY <2>1, <2>2, <2>3 DEF Next, Step
<1> QED BY <1>1, <1>2

LEMMA OnlyResultsAreStored ==
    ASSUME TypeInv, [Next]_vars
    PROVE  \/ UNCHANGED test
           \/ run.pc = "result" /\ test' = [test EXCEPT ![run.cur][run.loc] = Verdict]
<1>1. CASE UNCHANGED vars \/ StartRun \/ Crash \/ Environment
  BY <1>1, StartRunFrame DEF Crash, Fails, Environment, BeginUpload, EndUpload, Damage, Expire, vars, db
<1>2. CASE IngestStep
  BY <1>2, WalkZipFrame, SumZipFrame, InsertBagitFrame, StoreInitFrame, AddContentFrame, ZipDoneFrame,
     EnterPhaseFrame DEF IngestStep, WalkDone, Ends, db
<1>3. CASE PageStep
  BY <1>3, CountRowsFrame, LoadPageFrame, EndOfPageFrame DEF PageStep, db
<1>4. CASE TransferStep
  BY <1>4, LoadSourceFrame, EndBagitFrame, NextTargetFrame, OpenSourceFrame, KeyStepFrame,
     CreateTargetFrame, CopyStreamFrame, VerifyStreamFrame, StoreOkFrame
     DEF TransferStep, TransferDone, Ends, db
<1>5. CASE CheckStep
  BY <1>5, BeginChecksFrame, EndBagitFrame, NextTestFrame, ReadCopyFrame, StoreResultFrame
     DEF CheckStep, ChecksDone, Ends, db
<1> QED BY <1>1, <1>2, <1>3, <1>4, <1>5 DEF Next, Step

LEMMA PassedStays ==
    ASSUME "dbread" \notin FaultKinds, TypeInv, WrittenInv, PassedHere, PassedMeansArchived,
           [Next]_vars
    PROVE  PassedMeansArchived'
<1> SUFFICES ASSUME NEW b \in Bagits, NEW l \in Locations, test'[b][l] = "passed"
             PROVE  transfer'[b][l] = "ok"
  BY DEF PassedMeansArchived
<1>1. CASE test[b][l] = "passed"
  BY <1>1, OkStays DEF PassedMeansArchived
<1>2. CASE test[b][l] # "passed"
  <2>1. run.pc = "result" /\ run.cur = b /\ run.loc = l /\ Verdict = "passed"
    BY <1>2, OnlyResultsAreStored DEF TypeInv, TypeOK, StatusOK
  <2> QED BY <2>1, OkStays DEF PassedHere
<1> QED BY <1>1, <1>2

\* What PassedMeansArchived rests on.
AgreeInv == ~ Mismatches => KeyInv /\ StreamInv
RunInv == NothingNewer /\ AgreeInv /\ PagerInv /\ PassedMeansArchived

LEMMA InitRun == Init => RunInv
<1>1. Init => PassedMeansArchived
  BY DEF Init, PassedMeansArchived, None
<1> QED BY <1>1, InitKey, InitStream, InitNewer, InitPager DEF RunInv, AgreeInv

LEMMA NextKeepsRun ==
    ASSUME FaultKinds \cap {"dbcut", "dbread"} = {}, Locations # {InitLoc},
           TypeInv, WrittenInv, PageInv, RunInv, [Next]_vars
    PROVE  RunInv'
<1>1. NothingNewer'
  BY NextKeepsNewer DEF RunInv
<1>2. AgreeInv'
  BY NextKeepsKey, NextKeepsStream DEF RunInv, AgreeInv, Mismatches
<1>3. PagerInv'
  BY NextKeepsPager DEF RunInv, AgreeInv
<1>4. PassedMeansArchived'
  BY PassedStays DEF RunInv, PagerInv
<1> QED BY <1>1, <1>2, <1>3, <1>4 DEF RunInv

\* A test passes only for a copy that has its row, also while zips decay and
\* keys are lost: a copy without a row is behind Transfer only if its digest
\* is not the recorded one, and what decays further does not become it.
THEOREM PassedCorrect ==
    ASSUME FaultKinds \cap {"dbcut", "dbread"} = {}, Locations # {InitLoc}
    PROVE  Spec => []PassedMeansArchived
<1>1. TypeInv /\ WrittenInv /\ [Next]_vars => WrittenInv'
  BY NextKeepsWritten
<1>2. TypeInv /\ WrittenInv /\ PageInv /\ [Next]_vars => PageInv'
  BY NextKeepsPage
<1>3. TypeInv /\ WrittenInv /\ PageInv /\ RunInv /\ [Next]_vars => RunInv'
  BY NextKeepsRun
<1>4. RunInv => PassedMeansArchived
  BY DEF RunInv
<1> QED BY <1>1, <1>2, <1>3, <1>4, InitType, NextType, InitWritten, InitPage, InitRun, PTL DEF Spec

(***************************************************************************)
(* What a process that only reads leaves of all this: everything, though   *)
(* its queries can fail and so faults may grow.                            *)
(***************************************************************************)
OnlyReads ==
    /\ UNCHANGED <<disk, db, run>>
    /\ faults' = faults \/ (faults < MaxFaults /\ faults' = faults + 1)

InitRowInv == \A b \in Bagits : transfer[b][InitLoc] # "error"

LEMMA NextKeepsInitRow ==
    ASSUME TypeInv, WrittenInv, InitRowInv, [Next]_vars
    PROVE  InitRowInv'
<1>1. SUFFICES ASSUME NEW b \in Bagits
               PROVE  transfer'[b][InitLoc] \in {transfer[b][InitLoc], "ok"}
  BY DEF InitRowInv
<1>2. CASE StartRun \/ PageStep \/ TransferStep \/ CheckStep
  BY <1>2, EntersNothing
<1>3. CASE IngestStep
  <2>1. UNCHANGED transfer \/ transfer' = [transfer EXCEPT ![run.cur][InitLoc] = "ok"]
    BY <1>3 DEF IngestStep, WalkZip, SkipZip, AcceptZip, RejectZip, SumZip, InsertBagit, InsertRow,
                DuplicateRow, StoreInitLocation, StoreInitRow, AddContent, ZipDone, WalkDone,
                Goto, Abort, Fails, db
  <2> QED BY <2>1, LocationsAssumption DEF TypeInv, TypeOK, StatusOK
<1>4. CASE Crash \/ Environment \/ UNCHANGED vars
  BY <1>4 DEF Crash, Fails, Environment, BeginUpload, EndUpload, Damage, Expire, vars, db
<1> QED BY <1>2, <1>3, <1>4 DEF Next, Step

LEMMA ReadingKeepsArchive ==
    ASSUME TypeInv, OnlyReads
    PROVE  /\ TypeInv'
           /\ WrittenInv => WrittenInv'
           /\ PageInv => PageInv'
           /\ KeyInv => KeyInv'
           /\ InitRowInv => InitRowInv'
           /\ RunInv => RunInv'
<1>1. UNCHANGED <<disk, db, run>>
  BY DEF OnlyReads
<1>2. TypeInv' /\ faults \in Nat /\ faults <= faults'
  BY BoundsAssumption
     DEF OnlyReads, TypeInv, TypeOK, DiskOK, TablesOK, StatusOK, Holds, AtBagit, AtLocation, disk, db
<1>3. InRows' = InRows /\ OnPage' = OnPage /\ \A b : Registered(b)' <=> Registered(b)
  BY <1>1 DEF InRows, Registered, OnPage, db
<1>4. WrittenInv => WrittenInv'
  BY <1>1, <1>3 DEF WrittenInv, ZipsWhole, TargetOpen, RowsWritten, OkMeansWritten, disk, db
<1>5. PageInv => PageInv'
  BY <1>1, <1>3 DEF PageInv, RowsOnce, PhaseOf, PageCurrent, InHand, db
<1>6. KeyInv => KeyInv'
  BY <1>1 DEF KeyInv, Ciphers, MadeWith, KeyHeld, disk, db
<1>7. InitRowInv => InitRowInv'
  BY <1>1 DEF InitRowInv, db
<1>8. StreamInv => StreamInv'
  BY <1>1, <1>3 DEF StreamInv, ZipsAsDeposited, KeysOfLocation, CopiesOfZip, MadeWith, disk, db
<1>9. NothingNewer => NothingNewer'
  <2>1. \A bytes \in Content : Old(bytes) => Old(bytes)'
    BY <1>2, BoundsAssumption DEF Old, Content, TypeInv, TypeOK
  <2> QED BY <1>1, <2>1 DEF NothingNewer, TypeInv, TypeOK, DiskOK, TablesOK, RunState, disk, db
<1>10. PagerInv => PagerInv'
  BY <1>1, <1>3
     DEF PagerInv, Initially, PagesBehind, LocationLoop, PassedHere, Handled, Refused, Recorded,
         DoneHere, DigestInHand, Verdict, TargetChecksum, disk, db
<1>11. PassedMeansArchived => PassedMeansArchived'
  BY <1>1 DEF PassedMeansArchived, db
<1> QED BY <1>2, <1>4, <1>5, <1>6, <1>7, <1>8, <1>9, <1>10, <1>11 DEF AgreeInv, RunInv

(***************************************************************************)
(* The archive as Preservation sees it, by name.  Every step of a run is   *)
(* one of its steps, or changes nothing it is about.                       *)
(***************************************************************************)
Bytes == [b \in Bagits |-> [l \in Copied |-> Worth(b, file[b][l])]]
OkCopies == {c \in Bagits \X Copied : transfer[c[1]][c[2]] = "ok"}
PassedCopies == {c \in Bagits \X Copied : test[c[1]][c[2]] = "passed"}
NoExam == [copy |-> <<>>, sound |-> FALSE]

LEMMA PromiseVars ==
    ASSUME InRows' = InRows, Bytes' = Bytes, OkCopies' = OkCopies, Exam' = Exam,
           PassedCopies' = PassedCopies
    PROVE  UNCHANGED Promise!vars
BY DEF Promise!vars, InRows, Bytes, OkCopies, PassedCopies

LEMMA EnterStep ==
    ASSUME NEW b \in Bagits, InRows' = InRows \cup {b}, Bytes' = Bytes, OkCopies' = OkCopies,
           Exam' = Exam, PassedCopies' = PassedCopies
    PROVE  Promise!Next
BY DEF Promise!Next, Promise!Enter, InRows, Bytes, OkCopies, PassedCopies

LEMMA WriteStep ==
    ASSUME NEW b \in InRows, NEW p \in Copied, <<b, p>> \notin OkCopies,
           NEW outcome \in {"nothing", "sound"}, Bytes' = [Bytes EXCEPT ![b][p] = outcome],
           InRows' = InRows, OkCopies' = OkCopies, Exam' = Exam, PassedCopies' = PassedCopies
    PROVE  Promise!Next
<1>1. b \in Bagits
  BY DEF InRows
<1>2. Promise!Write(b, p)
  BY DEF Promise!Write, InRows, Bytes, OkCopies, PassedCopies
<1> QED BY <1>1, <1>2 DEF Promise!Next

LEMMA ArchiveStep ==
    ASSUME NEW b \in Bagits, NEW p \in Copied, Bytes[b][p] \in {"sound", "decayed"},
           OkCopies' = OkCopies \cup {<<b, p>>},
           InRows' = InRows, Bytes' = Bytes, Exam' = Exam, PassedCopies' = PassedCopies
    PROVE  Promise!Next
<1>1. Promise!Archive(b, p)
  BY DEF Promise!Archive, InRows, Bytes, OkCopies, PassedCopies
<1> QED BY <1>1 DEF Promise!Next

LEMMA DecayStep ==
    ASSUME NEW b \in Bagits, NEW p \in Copied, Bytes[b][p] = "sound",
           Bytes' = [Bytes EXCEPT ![b][p] = "decayed"],
           InRows' = InRows, OkCopies' = OkCopies, Exam' = Exam, PassedCopies' = PassedCopies
    PROVE  Promise!Next
<1>1. Promise!Decay(b, p)
  BY DEF Promise!Decay, InRows, Bytes, OkCopies, PassedCopies
<1> QED BY <1>1 DEF Promise!Next

LEMMA ExamineStep ==
    ASSUME NEW b \in Bagits, NEW p \in Copied, <<b, p>> \in OkCopies,
           NEW sound \in {FALSE, Bytes[b][p] = "sound"},
           Exam' = [copy |-> <<b, p>>, sound |-> sound],
           InRows' = InRows, Bytes' = Bytes, OkCopies' = OkCopies, PassedCopies' = PassedCopies
    PROVE  Promise!Next
<1>1. Promise!Examine(b, p)
  BY DEF Promise!Examine, InRows, Bytes, OkCopies, PassedCopies
<1> QED BY <1>1 DEF Promise!Next

LEMMA CertifyStep ==
    ASSUME Exam # NoExam, Exam' = NoExam,
           PassedCopies' = IF Exam.sound THEN PassedCopies \cup {Exam.copy}
                                         ELSE PassedCopies \ {Exam.copy},
           InRows' = InRows, Bytes' = Bytes, OkCopies' = OkCopies
    PROVE  Promise!Next
<1>1. Promise!Certify
  BY DEF Promise!Certify, Promise!NoExam, NoExam, InRows, Bytes, OkCopies, PassedCopies
<1> QED BY <1>1 DEF Promise!Next

LEMMA AbandonStep ==
    ASSUME Exam' = NoExam, InRows' = InRows, Bytes' = Bytes, OkCopies' = OkCopies,
           PassedCopies' = PassedCopies
    PROVE  Promise!Next
<1>1. Promise!Abandon
  BY DEF Promise!Abandon, Promise!NoExam, NoExam, InRows, Bytes, OkCopies, PassedCopies
<1> QED BY <1>1 DEF Promise!Next

(***************************************************************************)
(* What a copy is worth follows from its bytes alone: every key that is    *)
(* needed is there, and the recorded bytes of a zip are the deposited ones.*)
(***************************************************************************)
Value(bytes) ==
    IF bytes.kind # "whole" THEN "nothing" ELSE IF bytes.ver = 0 THEN "sound" ELSE "decayed"
Values == [b \in Bagits |-> [l \in Copied |-> Value(file[b][l])]]

\* What a step that writes one file does to the values of all: one entry changes.
LEMMA Replaced ==
    ASSUME NEW S, NEW T, NEW V, NEW f \in [S -> [T -> V]], NEW g \in [S -> [T -> V]],
           NEW s \in S, NEW t \in T, NEW v,
           \A x \in S, y \in T : g[x][y] = IF x = s /\ y = t THEN v ELSE f[x][y]
    PROVE  g = [f EXCEPT ![s][t] = v]
OBVIOUS

LEMMA BytesAreValues ==
    ASSUME KeyInv, StreamInv
    PROVE  Bytes = Values
<1>1. ASSUME NEW b \in Bagits, NEW l \in Copied PROVE Worth(b, file[b][l]) = Value(file[b][l])
  <2>1. ~ Locked(b, file[b][l])
    BY DEF Locked, KeyInv, Ciphers, MadeWith, StreamInv, CopiesOfZip, Copied
  <2>2. sha[b].ver = 0
    BY DEF StreamInv, ZipsAsDeposited, Plain, NoDigest, Absent
  <2> QED BY <2>1, <2>2 DEF Worth, Value
<1> QED BY <1>1 DEF Bytes, Values

LEMMA PromiseStutters ==
    ASSUME Bytes = Values, Bytes' = Values', UNCHANGED rows,
           \A b \in Bagits, l \in Copied : /\ file'[b][l] = file[b][l]
                                           /\ transfer'[b][l] = "ok" <=> transfer[b][l] = "ok"
                                           /\ test'[b][l] = test[b][l],
           Exam' = Exam
    PROVE  UNCHANGED Promise!vars
<1>1. InRows' = InRows
  BY DEF InRows, Registered
<1>2. Values' = Values
  BY DEF Values
<1>3. OkCopies' = OkCopies /\ PassedCopies' = PassedCopies
  BY DEF OkCopies, PassedCopies
<1> QED BY <1>1, <1>2, <1>3, PromiseVars

LEMMA ExamOutside ==
    /\ run.pc # "result" \/ run.loc = InitLoc => Exam = NoExam
    /\ run'.pc # "result" \/ run'.loc = InitLoc => Exam' = NoExam
BY DEF Exam, NoExam

\* A step outside of the check that leaves the copies alone.
LEMMA PromiseQuiet ==
    ASSUME Bytes = Values, Bytes' = Values', UNCHANGED rows,
           \A b \in Bagits, l \in Copied : /\ file'[b][l] = file[b][l]
                                           /\ transfer'[b][l] = "ok" <=> transfer[b][l] = "ok"
                                           /\ test'[b][l] = test[b][l],
           run.pc # "result", run'.pc # "result"
    PROVE  UNCHANGED Promise!vars
BY PromiseStutters, ExamOutside

\* A row that says "error" is not one that said "ok".
LEMMA EndsKeepsPromise ==
    ASSUME "dbread" \notin FaultKinds, WrittenInv, Bytes = Values, Bytes' = Values', Ends
    PROVE  Promise!Next
<1>1. \A b \in Bagits, l \in Locations : transfer'[b][l] = "ok" <=> transfer[b][l] = "ok"
  BY DEF Ends, WrittenInv, TargetOpen
<1>2. /\ InRows' = InRows /\ Values' = Values
      /\ OkCopies' = OkCopies /\ PassedCopies' = PassedCopies
  BY <1>1 DEF Ends, InRows, Registered, Values, OkCopies, PassedCopies, Copied
<1>3. Exam' = NoExam
  BY ExamOutside DEF Ends, Idle
<1> QED BY <1>2, <1>3, AbandonStep

LEMMA IngestKeepsPromise ==
    ASSUME "dbread" \notin FaultKinds, TypeInv, WrittenInv, Bytes = Values, Bytes' = Values',
           IngestStep
    PROVE  [Promise!Next]_(Promise!vars)
<1>1. Ends => Promise!Next
  BY EndsKeepsPromise
<1>2. ASSUME UNCHANGED <<file, rows, test>>, run.pc # "result", run'.pc # "result",
             \A b \in Bagits, l \in Copied : transfer'[b][l] = transfer[b][l]
      PROVE  UNCHANGED Promise!vars
  BY <1>2, PromiseQuiet
<1>3. UNCHANGED <<disk, db>> => UNCHANGED <<file, rows, test, transfer>>
  BY DEF disk, db
<1>4. ASSUME NEW b \in Bagits, WalkZip(b) PROVE [Promise!Next]_(Promise!vars)
  BY <1>1, <1>2, <1>3, <1>4, WalkZipFrame
<1>5. CASE SumZip
  BY <1>1, <1>2, <1>3, <1>5, SumZipFrame
<1>6. CASE InsertBagit
  <2>1. ASSUME run.pc = "insert", run'.pc = "init", rows' = Append(rows, run.cur),
               UNCHANGED <<disk, transfer, test>>
        PROVE  Promise!Next
    <3>1. run.cur \in Bagits
      BY <2>1 DEF TypeInv, Holds, AtBagit
    <3>2. InRows' = InRows \cup {run.cur}
      BY <2>1, <3>1, InsertsRow
    <3>3. Values' = Values /\ OkCopies' = OkCopies /\ PassedCopies' = PassedCopies
      BY <2>1 DEF Values, OkCopies, PassedCopies, disk
    <3>4. Exam' = Exam
      BY <2>1, ExamOutside
    <3> QED BY <3>1, <3>2, <3>3, <3>4, EnterStep
  <2> QED BY <1>1, <1>6, <2>1, InsertBagitFrame
<1>7. CASE StoreInitLocation
  <2>1. ASSUME transfer' = [transfer EXCEPT ![run.cur][InitLoc] = "ok"]
        PROVE  \A b \in Bagits, l \in Copied : transfer'[b][l] = transfer[b][l]
    BY <2>1 DEF TypeInv, TypeOK, StatusOK, Copied
  <2> QED BY <1>1, <1>2, <1>7, <2>1, StoreInitFrame DEF disk
<1>8. CASE AddContent
  BY <1>2, <1>8, AddContentFrame DEF disk
<1>9. CASE ZipDone
  BY <1>2, <1>3, <1>9, ZipDoneFrame
<1>10. CASE WalkDone
  BY <1>2, <1>3, <1>10, EnterPhaseFrame DEF WalkDone, Begins
<1> QED BY <1>4, <1>5, <1>6, <1>7, <1>8, <1>9, <1>10 DEF IngestStep

LEMMA PageKeepsPromise ==
    ASSUME "dbread" \notin FaultKinds, TypeInv, WrittenInv, Bytes = Values, Bytes' = Values',
           PageStep
    PROVE  [Promise!Next]_(Promise!vars)
<1>1. Ends => Promise!Next
  BY EndsKeepsPromise
<1>2. ASSUME UNCHANGED <<disk, db>>, run.pc # "result", run'.pc # "result"
      PROVE  UNCHANGED Promise!vars
  BY <1>2, PromiseQuiet DEF disk, db
<1> QED BY <1>1, <1>2, CountRowsFrame, LoadPageFrame, EndOfPageFrame DEF PageStep, Begins

\* A copy is made of the zip, and gets its row when it is complete.
LEMMA TransferKeepsPromise ==
    ASSUME "dbread" \notin FaultKinds, TypeInv, WrittenInv, StreamInv,
           Bytes = Values, Bytes' = Values', TransferStep
    PROVE  [Promise!Next]_(Promise!vars)
<1>1. Ends => Promise!Next
  BY EndsKeepsPromise
<1>2. ASSUME UNCHANGED <<file, rows, transfer, test>>, run.pc # "result", run'.pc # "result"
      PROVE  UNCHANGED Promise!vars
  BY <1>2, PromiseQuiet
<1>3. UNCHANGED db => UNCHANGED <<rows, test, transfer>>
  BY DEF db
<1>4. UNCHANGED disk => UNCHANGED file
  BY DEF disk
<1>5. run.pc \in RowPcs =>
         /\ run.cur \in InRows /\ run.cur \in Bagits /\ run.loc \in Copied
         /\ <<run.cur, run.loc>> \notin OkCopies
  <2>1. run.pc \in RowPcs => run.cur \in Bagits /\ run.loc \in Locations
    BY DEF TypeInv, Holds, AtLocation, RowPcs
  <2>2. run.pc \in RowPcs =>
            run.cur \in InRows /\ run.loc # InitLoc /\ transfer[run.cur][run.loc] # "ok"
    BY DEF WrittenInv, ZipsWhole, TargetOpen
  <2> QED BY <2>1, <2>2 DEF Copied, OkCopies
<1>6. CASE LoadSource
  BY <1>1, <1>2, <1>3, <1>4, <1>6, LoadSourceFrame
<1>7. CASE TransferDone
  BY <1>2, <1>3, <1>4, <1>7, EndBagitFrame DEF TransferDone
<1>8. ASSUME NEW l \in Locations, NextTarget(l) PROVE UNCHANGED Promise!vars
  BY <1>2, <1>3, <1>4, <1>8, NextTargetFrame
<1>9. CASE OpenSource
  BY <1>1, <1>2, <1>3, <1>4, <1>9, OpenSourceFrame
<1>10. CASE GetKey \/ SetKey \/ GetIV \/ SetIV \/ NewCipher
  BY <1>1, <1>2, <1>3, <1>10, KeyStepFrame
\* The file of the location in hand is written.
<1>11. ASSUME NEW bytes, Value(bytes) \in {"nothing", "sound"},
              file' = [file EXCEPT ![run.cur][run.loc] = bytes], UNCHANGED db,
              run.pc \in RowPcs, run'.pc \in RowPcs
       PROVE  Promise!Next
  <2>1. \A b \in Bagits, l \in Locations :
           file'[b][l] = IF b = run.cur /\ l = run.loc THEN bytes ELSE file[b][l]
    BY <1>5, <1>11 DEF TypeInv, TypeOK, DiskOK, Copied
  <2>2. Values' = [Values EXCEPT ![run.cur][run.loc] = Value(bytes)]
    <3>1. /\ Values \in [Bagits -> [Copied -> {"nothing", "sound", "decayed"}]]
          /\ Values' \in [Bagits -> [Copied -> {"nothing", "sound", "decayed"}]]
      BY DEF Values, Value
    <3>2. \A b \in Bagits, l \in Copied :
             Values'[b][l] = IF b = run.cur /\ l = run.loc THEN Value(bytes) ELSE Values[b][l]
      BY <2>1 DEF Values, Copied
    <3>3. run.cur \in Bagits /\ run.loc \in Copied
      BY <1>5, <1>11
    <3> HIDE DEF Values
    <3> QED BY <3>1, <3>2, <3>3, Replaced
  <2>3. InRows' = InRows /\ OkCopies' = OkCopies /\ PassedCopies' = PassedCopies
    BY <1>3, <1>11 DEF InRows, Registered, OkCopies, PassedCopies
  <2>4. Exam' = Exam
    BY <1>11, ExamOutside DEF RowPcs
  <2> QED BY <1>5, <1>11, <2>2, <2>3, <2>4, WriteStep
<1>12. CASE CreateTarget
  <2>1. Value(Partial) = "nothing" /\ run.pc \in RowPcs
    BY <1>12 DEF Value, Partial, CreateTarget, RowPcs
  <2> QED BY <1>1, <1>11, <1>12, <2>1, CreateTargetFrame DEF RowPcs
<1>13. CASE CopyStream
  <2>1. run.pc \in RowPcs /\ run.cur \notin Nested
    BY <1>13 DEF CopyStream, WrittenInv, TargetOpen, RowPcs
  <2>2. At(run.cur, InitLoc) = Plain(0)
    BY <1>5, <2>1 DEF At, StreamInv, ZipsAsDeposited
  <2>3. Value(Stream) = "sound"
    BY <2>2 DEF Value, Stream, Plain
  <2> QED BY <1>1, <1>11, <1>13, <2>1, <2>3, CopyStreamFrame DEF RowPcs
<1>14. CASE VerifyStream
  BY <1>2, <1>4, <1>14, VerifyStreamFrame
<1>15. CASE StoreOk
  <2>1. ASSUME run.pc = "store", run'.pc = "target", UNCHANGED <<file, rows, test>>,
               transfer' = [transfer EXCEPT ![run.cur][run.loc] = "ok"]
        PROVE  Promise!Next
    <3>1. run.cur \in Bagits /\ run.loc \in Copied
      BY <1>5, <2>1 DEF RowPcs
    <3>2. \A b \in Bagits, l \in Locations :
             transfer'[b][l] = IF b = run.cur /\ l = run.loc THEN "ok" ELSE transfer[b][l]
      BY <2>1, <3>1 DEF TypeInv, TypeOK, StatusOK, Copied
    <3>3. OkCopies' = OkCopies \cup {<<run.cur, run.loc>>}
      BY <3>1, <3>2 DEF OkCopies, Copied
    <3>4. InRows' = InRows /\ Values' = Values /\ PassedCopies' = PassedCopies
      BY <2>1 DEF InRows, Registered, Values, PassedCopies
    <3>5. file[run.cur][run.loc].kind = "whole"
      BY <2>1 DEF WrittenInv, TargetOpen
    <3>6. Values[run.cur][run.loc] \in {"sound", "decayed"}
      BY <3>1, <3>5 DEF Values, Value
    <3>7. Exam' = Exam
      BY <2>1, ExamOutside
    <3> QED BY <3>1, <3>3, <3>4, <3>6, <3>7, ArchiveStep
  <2> QED BY <1>1, <1>4, <1>15, <2>1, StoreOkFrame
<1> QED BY <1>6, <1>7, <1>8, <1>9, <1>10, <1>12, <1>13, <1>14, <1>15 DEF TransferStep

\* What is examined is archived, and a test passes for the deposited bytes only.
LEMMA CheckKeepsPromise ==
    ASSUME "dbread" \notin FaultKinds, ~ Mismatches, Locations # {InitLoc} => PagerInv,
           TypeInv, WrittenInv, PageInv, StreamInv, Bytes = Values, Bytes' = Values', CheckStep
    PROVE  [Promise!Next]_(Promise!vars)
<1>1. Ends => Promise!Next
  BY EndsKeepsPromise
<1>2. ASSUME UNCHANGED <<disk, db>>, run.pc # "result", run'.pc # "result"
      PROVE  UNCHANGED Promise!vars
  BY <1>2, PromiseQuiet DEF disk, db
<1>3. CASE BeginChecks
  BY <1>2, <1>3, BeginChecksFrame
<1>4. CASE ChecksDone
  BY <1>2, <1>4, EndBagitFrame DEF ChecksDone
<1>5. ASSUME NEW l \in Locations, NextTest(l) PROVE [Promise!Next]_(Promise!vars)
  BY <1>1, <1>2, <1>5, NextTestFrame
<1>6. CASE ReadCopy
  <2>1. /\ run.pc = "read" /\ run'.pc = "result" /\ UNCHANGED <<disk, db>>
        /\ run'.cur = run.cur /\ run'.loc = run.loc /\ run'.aes = run.aes
        /\ run'.hash = At(run.cur, run.loc) \/ run'.hash = NoDigest
    BY <1>6, ReadCopyFrame DEF SameLocation, SameBagit
  <2>2. /\ run.cur \in InRows /\ run.cur \in Bagits /\ run.loc \in Locations
        /\ run.phase = "check" /\ Ciphertext(run.aes)
    BY <2>1 DEF TypeInv, Holds, AtLocation, PageInv, PhaseOf, InHand, StreamInv, CopiesOfZip,
                CheckPcs, PagePcs
  <2>3. CASE run.loc = InitLoc
    BY <2>1, <2>3, PromiseStutters, ExamOutside DEF disk, db
  <2>4. CASE run.loc \in Copied
    <3>1. <<run.cur, run.loc>> \in OkCopies
      <4>1. Handled(run.cur)
        BY <2>2, <2>4 DEF PagerInv, PagesBehind, Copied
      <4> QED BY <2>2, <2>4, <4>1 DEF Handled, Refused, OkCopies
    <3>2. Exam' = [copy |-> <<run.cur, run.loc>>, sound |-> Verdict' = "passed"]
      BY <2>1, <2>4 DEF Exam, Copied
    <3>3. ASSUME Verdict' = "passed" PROVE Values[run.cur][run.loc] = "sound"
      <4>1. /\ run'.hash = (IF run.loc \in Encrypted THEN run.aes ELSE sha[run.cur])
            /\ run'.hash # NoDigest
        BY <2>1, <3>3 DEF Verdict, TargetChecksum, db
      <4>2. file[run.cur][run.loc] = run'.hash
        BY <2>1, <2>4, <4>1 DEF At, Copied
      <4>3. Deposited(run'.hash)
        BY <2>2, <4>1 DEF Ciphertext, StreamInv, ZipsAsDeposited, Deposited, Plain
      <4> QED BY <2>2, <2>4, <4>2, <4>3 DEF Values, Value, Deposited
    <3>4. (Verdict' = "passed") \in {FALSE, Values[run.cur][run.loc] = "sound"}
      BY <3>3
    <3>5. /\ InRows' = InRows /\ Values' = Values
          /\ OkCopies' = OkCopies /\ PassedCopies' = PassedCopies
      BY <2>1 DEF InRows, Registered, Values, OkCopies, PassedCopies, disk, db
    <3> QED BY <2>2, <2>4, <3>1, <3>2, <3>4, <3>5, ExamineStep
  <2> QED BY <2>2, <2>3, <2>4 DEF Copied
<1>7. CASE StoreResult
  <2>1. ASSUME run.pc = "result", run'.pc = "test", UNCHANGED <<disk, rows, transfer>>,
               test' = [test EXCEPT ![run.cur][run.loc] = Verdict]
        PROVE  [Promise!Next]_(Promise!vars)
    <3>1. run.cur \in Bagits /\ run.loc \in Locations
      BY <2>1 DEF TypeInv, Holds, AtLocation
    <3>2. \A b \in Bagits, l \in Locations :
             test'[b][l] = IF b = run.cur /\ l = run.loc THEN Verdict ELSE test[b][l]
      BY <2>1, <3>1 DEF TypeInv, TypeOK, StatusOK
    <3>3. CASE run.loc = InitLoc
      BY <2>1, <3>2, <3>3, PromiseStutters, ExamOutside DEF disk, Copied
    <3>4. CASE run.loc \in Copied
      <4>1. Exam = [copy |-> <<run.cur, run.loc>>, sound |-> Verdict = "passed"]
        BY <2>1, <3>4 DEF Exam, Copied
      <4>2. PassedCopies' = IF Exam.sound THEN PassedCopies \cup {Exam.copy}
                                          ELSE PassedCopies \ {Exam.copy}
        <5>1. \A c \in Bagits \X Copied :
                 c = <<run.cur, run.loc>> <=> c[1] = run.cur /\ c[2] = run.loc
          OBVIOUS
        <5>2. \A c \in Bagits \X Copied :
                 test'[c[1]][c[2]] = IF c = <<run.cur, run.loc>> THEN Verdict ELSE test[c[1]][c[2]]
          BY <3>2, <5>1 DEF Copied
        <5>3. <<run.cur, run.loc>> \in Bagits \X Copied
          BY <3>1, <3>4
        <5>4. CASE Verdict = "passed"
          BY <4>1, <5>2, <5>3, <5>4 DEF PassedCopies
        <5>5. CASE Verdict # "passed"
          BY <4>1, <5>2, <5>3, <5>5 DEF PassedCopies
        <5> QED BY <5>4, <5>5
      <4>3. /\ InRows' = InRows /\ Values' = Values /\ OkCopies' = OkCopies
        BY <2>1 DEF InRows, Registered, Values, OkCopies, disk
      <4>4. Exam # NoExam /\ Exam' = NoExam
        BY <2>1, <4>1, ExamOutside DEF NoExam
      <4> QED BY <4>2, <4>3, <4>4, CertifyStep
    <3> QED BY <3>1, <3>3, <3>4 DEF Copied
  <2> QED BY <1>1, <1>7, <2>1, StoreResultFrame
<1> QED BY <1>3, <1>4, <1>5, <1>6, <1>7 DEF CheckStep

LEMMA EnvironmentKeepsPromise ==
    ASSUME TypeInv, Bytes = Values, Bytes' = Values', Environment
    PROVE  [Promise!Next]_(Promise!vars)
<1>1. UNCHANGED <<rows, sha, transfer, test, run>>
  BY DEF Environment, BeginUpload, EndUpload, Damage, Expire, db
<1>2. /\ InRows' = InRows /\ OkCopies' = OkCopies /\ PassedCopies' = PassedCopies
      /\ Exam' = Exam
  BY <1>1 DEF InRows, Registered, OkCopies, PassedCopies, Exam, Verdict, TargetChecksum
<1>3. (\A b \in Bagits, l \in Copied : Value(file[b][l])' = Value(file[b][l])) =>
          UNCHANGED Promise!vars
  <2>1. SUFFICES ASSUME \A b \in Bagits, l \in Copied : Value(file[b][l])' = Value(file[b][l])
                 PROVE  Values' = Values
    BY <1>2, PromiseVars
  <2> QED BY <2>1 DEF Values
<1>4. file \in [Bagits -> [Locations -> Content]]
  BY DEF TypeInv, TypeOK, DiskOK
<1>5. ASSUME NEW b \in Bagits, BeginUpload(b) \/ EndUpload(b) PROVE UNCHANGED Promise!vars
  <2>1. \A c \in Bagits, l \in Copied : file'[c][l] = file[c][l]
    BY <1>4, <1>5, LocationsAssumption DEF BeginUpload, EndUpload, Copied
  <2> QED BY <1>3, <2>1 DEF Value
<1>6. ASSUME NEW b \in Bagits, NEW l \in Locations, Expire(b, l) PROVE UNCHANGED Promise!vars
  BY <1>3, <1>6 DEF Expire, disk, Value
<1>7. ASSUME NEW b \in Bagits, NEW l \in Locations, Damage(b, l)
      PROVE  [Promise!Next]_(Promise!vars)
  <2>1. \A c \in Bagits, m \in Locations :
           file'[c][m] = IF c = b /\ m = l THEN Plain(faults') ELSE file[c][m]
    BY <1>4, <1>7 DEF Damage
  <2>2. file[b][l].kind = "whole" /\ Value(Plain(faults')) = "decayed"
    BY <1>7, BoundsAssumption DEF Damage, Fault, Value, Plain, TypeInv, TypeOK
  <2>3. CASE l \in Copied /\ file[b][l].ver = 0
    <3>1. \A c \in Bagits, m \in Copied :
             Values'[c][m] = IF c = b /\ m = l THEN "decayed" ELSE Values[c][m]
      BY <2>1, <2>2 DEF Values, Copied
    <3>2. /\ Values \in [Bagits -> [Copied -> {"nothing", "sound", "decayed"}]]
          /\ Values' \in [Bagits -> [Copied -> {"nothing", "sound", "decayed"}]]
      BY DEF Values, Value
    <3>3. Values' = [Values EXCEPT ![b][l] = "decayed"]
      BY <2>3, <3>1, <3>2
    <3>4. Values[b][l] = "sound"
      BY <2>2, <2>3 DEF Values, Value
    <3> QED BY <1>2, <2>3, <3>3, <3>4, DecayStep
  <2>4. CASE ~ (l \in Copied /\ file[b][l].ver = 0)
    <3>1. \A c \in Bagits, m \in Copied : Value(file[c][m])' = Value(file[c][m])
      BY <2>1, <2>2, <2>4 DEF Value, Copied
    <3> QED BY <1>3, <3>1
  <2> QED BY <2>3, <2>4
<1> QED BY <1>5, <1>6, <1>7 DEF Environment

LEMMA InitPromise == Init => Promise!Init
<1> SUFFICES ASSUME Init PROVE Promise!Init
  OBVIOUS
<1>1. /\ InRows = {} /\ OkCopies = {} /\ PassedCopies = {}
  BY DEF Init, InRows, Registered, OkCopies, PassedCopies, Copied, None
<1>2. Bytes = [b \in Bagits |-> [l \in Copied |-> "nothing"]]
  BY DEF Init, Bytes, Worth, Absent, Copied
<1>3. Exam = NoExam
  BY DEF Init, Idle, Exam, NoExam
<1> QED BY <1>1, <1>2, <1>3
        DEF Promise!Init, Promise!NoExam, NoExam, InRows, Bytes, OkCopies, PassedCopies

LEMMA NextKeepsPromise ==
    ASSUME "dbread" \notin FaultKinds, ~ Mismatches, Locations # {InitLoc} => PagerInv,
           TypeInv, WrittenInv, PageInv, StreamInv, Bytes = Values, Bytes' = Values', [Next]_vars
    PROVE  [Promise!Next]_(Promise!vars)
<1>1. CASE UNCHANGED vars
  BY <1>1 DEF vars, disk, db, Promise!vars, Registered, Worth, Locked, Exam, Verdict, TargetChecksum
<1>2. CASE StartRun
  <2>1. run.pc # "result" /\ run'.pc # "result" /\ UNCHANGED <<disk, db>>
    BY <1>2, StartRunFrame DEF Begins, Idle
  <2> QED BY <2>1, PromiseQuiet DEF disk, db
<1>3. CASE Crash
  BY <1>3, EndsOf, EndsKeepsPromise DEF Crash
<1> QED BY <1>1, <1>2, <1>3, IngestKeepsPromise, PageKeepsPromise, TransferKeepsPromise,
           CheckKeepsPromise, EnvironmentKeepsPromise DEF Next, Step

\* The program keeps the promise: failures and crashes at any point of a run
\* included, every step of it is a step of Preservation or changes nothing
\* Preservation sees.  It takes rows, key files and zips that can be read and
\* stay what they are: without an "ok" row it cannot read, Transfer writes to an
\* archived copy again, and without the key it cannot read it makes another one.
THEOREM PreservationCorrect ==
    ASSUME FaultKinds \cap {"dbcut", "dbread", "rot", "keyread"} = {}
    PROVE  Spec => Preserves
<1> DEFINE Settling == Locations # {InitLoc} => PagerInv
<1>1. TypeInv /\ WrittenInv /\ [Next]_vars => WrittenInv'
  BY NextKeepsWritten
<1>2. TypeInv /\ WrittenInv /\ PageInv /\ [Next]_vars => PageInv'
  BY NextKeepsPage
<1>3. TypeInv /\ KeyInv /\ [Next]_vars => KeyInv'
  BY NextKeepsKey
<1>4. TypeInv /\ WrittenInv /\ PageInv /\ NothingNewer /\ [Next]_vars => NothingNewer'
  BY NextKeepsNewer
<1>5. TypeInv /\ WrittenInv /\ PageInv /\ KeyInv /\ StreamInv /\ [Next]_vars => StreamInv'
  BY NextKeepsStream
<1>6. TypeInv /\ WrittenInv /\ PageInv /\ NothingNewer /\ KeyInv /\ StreamInv /\ Settling
      /\ [Next]_vars => Settling'
  BY NextKeepsPager
<1>7. Init => Settling
  BY InitPager
<1>8. KeyInv /\ StreamInv => Bytes = Values
  BY BytesAreValues
<1>9. TypeInv /\ WrittenInv /\ PageInv /\ StreamInv /\ Settling /\ Bytes = Values
      /\ (Bytes = Values)' /\ [Next]_vars => [Promise!Next]_(Promise!vars)
  BY NextKeepsPromise DEF Mismatches
<1> HIDE DEF Settling
<1>10. Spec => Promise!Init /\ [][Promise!Next]_(Promise!vars)
  BY <1>1, <1>2, <1>3, <1>4, <1>5, <1>6, <1>7, <1>8, <1>9, InitType, NextType, InitWritten, InitPage,
     InitKey, InitNewer, InitStream, InitPromise, PTL DEF Spec
<1> QED BY <1>10 DEF Preserves, Promise!Spec
=============================================================================
