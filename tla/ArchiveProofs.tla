--------------------------- MODULE ArchiveProofs ---------------------------
(***************************************************************************)
(* What holds of IngestRun for every archive, page size and bound: its     *)
(* types, the key of every ciphertext, and a complete file next to every   *)
(* "ok" row.                                                               *)
(***************************************************************************)
EXTENDS IngestRun, SequenceTheorems, TLAPS

(***************************************************************************)
(* Type correctness.  TypeOK is not inductive: the statements index their  *)
(* rows with the bagit and the location the process has in hand, and which *)
(* of the two are set follows from where it is.                            *)
(***************************************************************************)
AtBagit == {"sum", "insert", "init", "content", "target", "test"}
AtLocation == {"open", "getkey", "setkey", "getiv", "setiv", "cipher", "create",
               "copy", "verify", "store", "read", "result"}
Holds(r) ==
    /\ r.pc \in AtBagit \cup AtLocation => r.cur \in Bagits
    /\ r.pc \in AtLocation => r.loc \in Locations
TypeInv == TypeOK /\ Holds(run)

LEMMA PcType ==
    /\ \A pc \in AtBagit \cup AtLocation : pc \in Pcs
    /\ \A pc \in {"idle", "walk", "count", "load", "next"} :
          pc \in Pcs /\ pc \notin AtBagit \cup AtLocation
BY DEF Pcs, AtBagit, AtLocation

LEMMA ContentType ==
    /\ Absent \in Content /\ Partial \in Content /\ NoDigest \in Content
    /\ \A v \in 0 .. MaxFaults : Plain(v) \in Content
BY BoundsAssumption DEF Absent, Partial, Plain, Content, NoDigest

LEMMA AtType ==
    ASSUME TypeOK, NEW b \in Bagits, NEW l \in Locations
    PROVE  At(b, l) \in Content
BY ContentType DEF TypeOK, DiskOK, At

LEMMA IdleType == Idle \in RunState /\ Holds(Idle)
<1>1. /\ "idle" \in Pcs /\ None \in Phases /\ <<>> \in Pages /\ 0 \in Nat
      /\ FALSE \in BOOLEAN /\ {} \in SUBSET Locations /\ {} \in SUBSET Bagits
  BY DEF Pcs, Phases, Pages
<1>2. Idle \in RunState
  BY <1>1, ContentType, Zenon DEF Idle, RunState
<1>3. Holds(Idle)
  BY DEF Holds, Idle, AtBagit, AtLocation
<1> QED BY <1>2, <1>3

LEMMA FunctionIsSeq ==
    ASSUME NEW S, NEW m \in Nat, NEW f \in [1 .. m -> S]
    PROVE  f \in Seq(S)
BY SeqDef

LEMMA PageOf ==
    ASSUME TablesOK, NEW B \in SUBSET Bagits, rows \in Seq(B), NEW start \in Nat
    PROVE  Page(start) \in Seq([name : B, aes : Content])
<1> DEFINE last == LastOfPage(start)
           item(k) == [name |-> rows[start + k], aes |-> aes[rows[start + k]]]
<1>1. last \in Nat /\ last <= Len(rows)
  BY BoundsAssumption DEF TablesOK, LastOfPage
<1>2. \A k \in 1 .. last - start : item(k) \in [name : B, aes : Content]
  <2> TAKE k \in 1 .. last - start
  <2>1. start + k \in 1 .. Len(rows)
    BY <1>1 DEF TablesOK
  <2>2. rows[start + k] \in B
    BY <2>1
  <2> QED BY <2>2 DEF TablesOK
<1>3. PICK m \in Nat : 1 .. last - start = 1 .. m
  <2>1. CASE last >= start
    BY <1>1, <2>1
  <2>2. CASE last < start
    <3>1. 1 .. last - start = 1 .. 0
      BY <1>1, <2>2
    <3> QED BY <3>1
  <2> QED BY <1>1, <2>1, <2>2
<1>4. Page(start) \in [1 .. m -> [name : B, aes : Content]]
  BY <1>2, <1>3 DEF Page
<1> QED BY <1>4, FunctionIsSeq

LEMMA PageType ==
    ASSUME TablesOK, NEW start \in Nat
    PROVE  Page(start) \in Pages
BY PageOf DEF TablesOK, Pages

\* A step that leaves the archive alone keeps its types when the new memory
\* has its type.
LEMMA GotoType ==
    ASSUME TypeInv, NEW next \in RunState, Holds(next), Goto(next)
    PROVE  TypeInv'
BY DEF TypeInv, TypeOK, DiskOK, TablesOK, StatusOK, Goto, NoFault, Holds, disk, db

LEMMA FaultType ==
    ASSUME TypeOK, NEW kind, NoFault \/ Fault(kind)
    PROVE  faults' \in 0 .. MaxFaults
BY BoundsAssumption DEF TypeOK, Fault, NoFault

LEMMA ExitType ==
    ASSUME DiskOK', TablesOK', StatusOK', Exit, faults' \in 0 .. MaxFaults
    PROVE  TypeInv'
BY IdleType DEF TypeOK, TypeInv, Holds, Exit

LEMMA UnchangedType ==
    ASSUME TypeOK, UNCHANGED <<disk, db>>
    PROVE  DiskOK' /\ TablesOK' /\ StatusOK'
BY DEF TypeOK, DiskOK, TablesOK, StatusOK, disk, db

LEMMA AbortType ==
    ASSUME TypeOK, Abort
    PROVE  TypeInv'
BY FaultType, ExitType, UnchangedType DEF Abort

LEMMA FailsType ==
    ASSUME TypeOK, NEW kind, Fails(kind)
    PROVE  TypeInv'
BY FaultType, ExitType, UnchangedType DEF Fails

LEMMA EnterPhaseType ==
    ASSUME TypeOK, NEW pc \in {"walk", "count"}, NEW phase \in {"transfer", "check"}
    PROVE  EnterPhase(phase, pc) \in RunState /\ Holds(EnterPhase(phase, pc))
<1> DEFINE next == EnterPhase(phase, pc)
<1>1. /\ pc \in Pcs /\ phase \in Phases
      /\ run.known \in SUBSET Locations /\ run.checksum \in BOOLEAN
  BY PcType DEF Phases, TypeOK, RunState
<1>2. next \in RunState
  BY <1>1, IdleType, Zenon DEF EnterPhase, RunState
<1>3. next.pc = pc
  BY DEF EnterPhase, Idle
<1> QED BY <1>2, <1>3, PcType DEF Holds

LEMMA IngestType ==
    ASSUME TypeInv, IngestStep
    PROVE  TypeInv'
<1> USE DEF TypeInv, TypeOK
<1>1. ASSUME NEW b \in Bagits, WalkZip(b) PROVE TypeInv'
  <2>1. CASE SkipZip(b)
    <3> DEFINE next == [run EXCEPT !.todo = @ \ {b}]
    <3>1. next \in RunState
      BY Zenon DEF RunState
    <3>2. Holds(next)
      BY <1>1, PcType DEF WalkZip, Holds, RunState
    <3> QED BY <2>1, <3>1, <3>2, GotoType DEF SkipZip
  <2>2. CASE AcceptZip(b)
    <3> DEFINE next == [run EXCEPT !.pc = "sum", !.todo = @ \ {b}, !.cur = b]
    <3>1. next \in RunState
      BY <1>1, PcType, Zenon DEF RunState, AtBagit
    <3>2. Holds(next)
      BY <1>1 DEF Holds, RunState, AtLocation
    <3> QED BY <2>2, <3>1, <3>2, GotoType DEF AcceptZip
  <2> QED BY <1>1, <2>1, <2>2, AbortType, FailsType DEF WalkZip, RejectZip
<1>2. CASE SumZip
  <2> DEFINE sum == Digest(file[run.cur][InitLoc])
             next == [run EXCEPT !.pc = "insert", !.hash = sum]
  <2>1. run.cur \in Bagits /\ sum \in Content
    BY <1>2, LocationsAssumption DEF SumZip, Digest, DiskOK, Holds, AtBagit
  <2>2. next \in RunState
    BY <2>1, PcType, Zenon DEF RunState, AtBagit
  <2>3. Holds(next)
    BY <2>1 DEF Holds, RunState, AtLocation
  <2> QED BY <1>2, <2>2, <2>3, GotoType, FailsType DEF SumZip
<1>3. CASE InsertBagit
  <2>1. run.pc = "insert" /\ run.cur \in Bagits /\ run.hash \in Content
    BY <1>3 DEF InsertBagit, Holds, AtBagit, RunState
  <2>2. CASE InsertRow
    <3> DEFINE next == [run EXCEPT !.pc = "init", !.hash = NoDigest]
    <3>1. next \in RunState
      BY PcType, ContentType, Zenon DEF RunState, AtBagit
    <3>2. Holds(next)
      BY <2>1 DEF Holds, RunState, AtLocation
    <3>3. TablesOK'
      BY <2>1, <2>2 DEF InsertRow, TablesOK
    <3>4. DiskOK' /\ StatusOK' /\ faults' \in 0 .. MaxFaults
      BY <2>2 DEF InsertRow, DiskOK, StatusOK, disk, NoFault
    <3> QED BY <2>2, <3>1, <3>2, <3>3, <3>4 DEF InsertRow, Holds
  <2> QED BY <1>3, <2>2, AbortType, FailsType DEF InsertBagit, DuplicateRow
<1>4. CASE StoreInitLocation
  <2>1. run.pc = "init" /\ run.cur \in Bagits
    BY <1>4 DEF StoreInitLocation, Holds, AtBagit
  <2>2. CASE StoreInitRow
    <3> DEFINE next == [run EXCEPT !.pc = "content", !.left = NumContent]
    <3>1. next \in RunState
      BY PcType, BoundsAssumption, Zenon DEF RunState, AtBagit
    <3>2. Holds(next)
      BY <2>1 DEF Holds, RunState, AtLocation
    <3>3. StatusOK'
      BY <2>1, <2>2 DEF StoreInitRow, StatusOK
    <3>4. DiskOK' /\ TablesOK' /\ faults' \in 0 .. MaxFaults
      BY <2>2 DEF StoreInitRow, DiskOK, TablesOK, disk, NoFault
    <3> QED BY <2>2, <3>1, <3>2, <3>3, <3>4 DEF StoreInitRow, Holds
  <2> QED BY <1>4, <2>2, FailsType DEF StoreInitLocation
<1>5. CASE AddContent
  <2> DEFINE next == [run EXCEPT !.left = @ - 1]
  <2>1. run.pc = "content" /\ run.cur \in Bagits /\ run.left - 1 \in Nat
    BY <1>5 DEF AddContent, Holds, AtBagit, RunState
  <2>2. next \in RunState
    BY <2>1, Zenon DEF RunState
  <2>3. Holds(next)
    BY <2>1 DEF Holds, RunState, AtLocation
  <2>4. TablesOK'
    BY <1>5 DEF AddContent, TablesOK
  <2>5. DiskOK' /\ StatusOK'
    BY <1>5 DEF AddContent, DiskOK, StatusOK, disk
  <2>6. faults' \in 0 .. MaxFaults
    BY <1>5, FaultType DEF AddContent
  <2> QED BY <1>5, <2>2, <2>3, <2>4, <2>5, <2>6 DEF AddContent, Holds
<1>6. CASE ZipDone
  <2> DEFINE next == [run EXCEPT !.pc = "walk", !.cur = None]
  <2>1. next \in RunState
    BY PcType, Zenon DEF RunState
  <2>2. Holds(next)
    BY DEF Holds, RunState, AtBagit, AtLocation
  <2> QED BY <1>6, <2>1, <2>2, GotoType DEF ZipDone
<1>7. CASE WalkDone
  BY <1>7, EnterPhaseType, GotoType DEF WalkDone
<1> QED BY <1>1, <1>2, <1>3, <1>4, <1>5, <1>6, <1>7 DEF IngestStep

LEMMA SeqTail ==
    ASSUME NEW S, NEW s \in Seq(S), s # <<>>
    PROVE  Head(s) \in S /\ Tail(s) \in Seq(S)
OBVIOUS

LEMMA SeqPrefix ==
    ASSUME NEW S, NEW s \in Seq(S), NEW n \in 0 .. Len(s)
    PROVE  SubSeq(s, 1, n) \in Seq(S)
<1>1. n \in Int /\ \A i \in 1 .. n : s[i] \in S
  OBVIOUS
<1> QED BY <1>1, SubSeqProperties

LEMMA PageStepType ==
    ASSUME TypeInv, PageStep
    PROVE  TypeInv'
<1> USE DEF TypeInv, TypeOK
<1>1. CASE CountRows
  <2> DEFINE next == [run EXCEPT !.pc = "load", !.n = Len(rows), !.start = 0]
  <2>1. Len(rows) \in Nat /\ 0 \in Nat
    BY DEF TablesOK
  <2>2. next \in RunState
    BY <2>1, PcType, Zenon DEF RunState
  <2>3. Holds(next)
    BY DEF Holds, RunState, AtBagit, AtLocation
  <2> QED BY <1>1, <2>2, <2>3, GotoType, FailsType DEF CountRows
<1>2. CASE LoadPage
  <2>1. ASSUME NEW page \in Pages PROVE WithPage(page) \in RunState /\ Holds(WithPage(page))
    <3>1. run.start + PageSize \in Nat
      BY BoundsAssumption DEF RunState
    <3>2. WithPage(page) \in RunState
      BY <2>1, <3>1, PcType, Zenon DEF RunState, WithPage
    <3> QED BY <3>2 DEF Holds, RunState, WithPage, AtBagit, AtLocation
  <2>2. Page(run.start) \in Pages
    BY PageType DEF RunState
  <2>3. CASE CutPage
    <3>1. PICK cut \in 0 .. Len(Page(run.start)) :
               run' = WithPage(SubSeq(Page(run.start), 1, cut))
      BY <2>3 DEF CutPage
    <3>2. SubSeq(Page(run.start), 1, cut) \in Pages
      BY <2>2, SeqPrefix DEF Pages
    <3>3. faults' \in 0 .. MaxFaults
      BY <2>3, FaultType DEF CutPage
    <3>4. DiskOK' /\ TablesOK' /\ StatusOK'
      BY <2>3, UnchangedType DEF CutPage
    <3> QED BY <2>1, <3>1, <3>2, <3>3, <3>4 DEF Holds
  <2>4. NextPhase \in RunState /\ Holds(NextPhase)
    BY EnterPhaseType, IdleType DEF NextPhase
  <2> QED BY <1>2, <2>1, <2>2, <2>3, <2>4, GotoType, FailsType DEF LoadPage, ReadPage, PagesDone
<1>3. CASE EndOfPage
  <2> DEFINE next == [run EXCEPT !.pc = "load"]
  <2>1. next \in RunState
    BY PcType, Zenon DEF RunState
  <2>2. Holds(next)
    BY DEF Holds, RunState, AtBagit, AtLocation
  <2> QED BY <1>3, <2>1, <2>2, GotoType DEF EndOfPage
<1> QED BY <1>1, <1>2, <1>3 DEF PageStep

LEMMA BeginBagitType ==
    ASSUME TypeInv, run.page # <<>>, NEW pc \in {"target", "test"},
           NEW source \in BOOLEAN, NEW locs \in SUBSET Locations,
           BeginBagit(pc, source, locs)
    PROVE  TypeInv'
<1> DEFINE bagit == Head(run.page)
           next == [run EXCEPT !.pc = pc, !.page = Tail(run.page), !.cur = bagit.name,
                               !.aes = bagit.aes, !.source = source, !.locs = locs]
<1>1. bagit \in [name : Bagits, aes : Content] /\ Tail(run.page) \in Pages
  BY SeqTail DEF TypeInv, TypeOK, RunState, Pages
<1>2. bagit.name \in Bagits /\ bagit.aes \in Content
  BY <1>1
<1>3. next \in RunState
  BY <1>1, <1>2, PcType, Zenon DEF TypeInv, TypeOK, RunState, AtBagit
<1>4. Holds(next)
  BY <1>2 DEF TypeInv, TypeOK, Holds, RunState, AtLocation
<1> QED BY <1>3, <1>4, GotoType DEF BeginBagit

LEMMA EndBagitType ==
    ASSUME TypeInv, EndBagit
    PROVE  TypeInv'
<1> DEFINE next == [run EXCEPT !.pc = "next", !.cur = None, !.aes = NoDigest,
                               !.source = FALSE]
<1>1. next \in RunState
  BY PcType, ContentType, Zenon DEF TypeInv, TypeOK, RunState
<1>2. Holds(next)
  BY DEF TypeInv, TypeOK, Holds, RunState, AtBagit, AtLocation
<1> QED BY <1>1, <1>2, GotoType DEF EndBagit

LEMMA NextLocationType ==
    ASSUME TypeInv, run.cur \in Bagits
    PROVE  NextLocation \in RunState /\ Holds(NextLocation)
<1>1. NextLocation \in RunState
  BY PcType, ContentType, Zenon DEF TypeInv, TypeOK, RunState, NextLocation, AtBagit
<1>2. Holds(NextLocation)
  BY DEF TypeInv, TypeOK, Holds, RunState, NextLocation, AtLocation
<1> QED BY <1>1, <1>2

LEMMA ErrorRowType ==
    ASSUME TypeOK, run.cur \in Bagits, run.loc \in Locations,
           ErrorRow, faults' \in 0 .. MaxFaults
    PROVE  TypeInv'
<1>1. StatusOK'
  <2>1. /\ test' = test /\ fresh' = fresh
        /\ SetRow("error") \/ UNCHANGED transfer
    BY DEF ErrorRow
  <2>2. CASE SetRow("error")
    BY <2>1, <2>2 DEF TypeOK, StatusOK, SetRow
  <2>3. CASE UNCHANGED transfer
    BY <2>1, <2>3 DEF TypeOK, StatusOK
  <2> QED BY <2>1, <2>2, <2>3
<1>2. DiskOK' /\ TablesOK'
  BY DEF TypeOK, DiskOK, TablesOK, ErrorRow, disk
<1> QED BY <1>1, <1>2, ExitType DEF ErrorRow

\* The steps between two statements of Transfer change the program counter
\* and not what is in hand.
LEMMA MoveType ==
    ASSUME TypeInv, run.cur \in Bagits, run.loc \in Locations, NEW pc \in AtLocation
    PROVE  /\ [run EXCEPT !.pc = pc] \in RunState
           /\ Holds([run EXCEPT !.pc = pc])
<1>1. [run EXCEPT !.pc = pc] \in RunState
  BY PcType, Zenon DEF TypeInv, TypeOK, RunState
<1> QED BY <1>1 DEF TypeInv, TypeOK, Holds, RunState

LEMMA KeyStepType ==
    ASSUME TypeInv, GetKey \/ SetKey \/ GetIV \/ SetIV \/ NewCipher
    PROVE  TypeInv'
<1> USE DEF TypeInv, TypeOK
<1>1. run.cur \in Bagits /\ run.loc \in Locations
  BY DEF GetKey, SetKey, GetIV, SetIV, NewCipher, Holds, AtLocation
<1>2. ASSUME NEW key \in Keys \cup {Missing, Torn}, NEW pc \in AtLocation
      PROVE  /\ [run EXCEPT !.pc = pc, !.key = key] \in RunState
             /\ Holds([run EXCEPT !.pc = pc, !.key = key])
  <2>1. [run EXCEPT !.pc = pc, !.key = key] \in RunState
    BY <1>2, PcType, Zenon DEF RunState
  <2> QED BY <1>1, <2>1 DEF Holds, RunState
<1>3. ASSUME NEW iv \in IVs \cup {Missing, Torn}, NEW pc \in AtLocation
      PROVE  /\ [run EXCEPT !.pc = pc, !.iv = iv] \in RunState
             /\ Holds([run EXCEPT !.pc = pc, !.iv = iv])
  <2>1. [run EXCEPT !.pc = pc, !.iv = iv] \in RunState
    BY <1>3, PcType, Zenon DEF RunState
  <2> QED BY <1>1, <2>1 DEF Holds, RunState
<1>4. \A pc \in {"create", "setkey", "getiv", "setiv", "cipher"} : pc \in AtLocation
  BY DEF AtLocation
<1>5. keyFile[run.cur] \in Keys \cup {Missing, Torn} /\ ivFile[run.cur] \in IVs \cup {Missing, Torn}
  BY <1>1 DEF DiskOK
<1>6. CASE GetKey
  <2>1. CASE Goto([run EXCEPT !.pc = "getiv", !.key = keyFile[run.cur]])
    BY <1>2, <1>4, <1>5, <2>1, GotoType
  <2>2. CASE /\ NoFault \/ Fault("keyread")
             /\ run' = [run EXCEPT !.pc = "setkey"]
             /\ UNCHANGED <<disk, db>>
    BY <1>1, <1>4, <2>2, MoveType, FaultType, UnchangedType DEF Holds
  <2> QED BY <1>6, <2>1, <2>2 DEF GetKey
<1>7. CASE SetKey
  <2>1. ASSUME NEW k \in Keys, WriteKey(k) PROVE TypeInv'
    <3>1. DiskOK'
      BY <2>1 DEF WriteKey, DiskOK
    <3>2. TablesOK' /\ StatusOK' /\ faults' \in 0 .. MaxFaults
      BY <2>1 DEF WriteKey, TablesOK, StatusOK, db, NoFault
    <3> QED BY <1>2, <1>4, <2>1, <3>1, <3>2 DEF WriteKey, Holds
  <2>2. CASE TearKey
    <3>1. DiskOK'
      BY <2>2 DEF TearKey, DiskOK
    <3>2. TablesOK' /\ StatusOK' /\ faults' \in 0 .. MaxFaults
      BY <2>2, FaultType DEF TearKey, TablesOK, StatusOK, db
    <3> QED BY <2>2, <3>1, <3>2, ExitType DEF TearKey
  <2> QED BY <1>7, <2>1, <2>2, FailsType DEF SetKey
<1>8. CASE GetIV
  <2>1. CASE Goto([run EXCEPT !.pc = "cipher", !.iv = ivFile[run.cur]])
    BY <1>3, <1>4, <1>5, <2>1, GotoType
  <2>2. CASE /\ NoFault \/ Fault("keyread")
             /\ run' = [run EXCEPT !.pc = "setiv"]
             /\ UNCHANGED <<disk, db>>
    BY <1>1, <1>4, <2>2, MoveType, FaultType, UnchangedType DEF Holds
  <2> QED BY <1>8, <2>1, <2>2 DEF GetIV
<1>9. CASE SetIV
  <2>1. ASSUME NEW i \in IVs, WriteIV(i) PROVE TypeInv'
    <3>1. DiskOK'
      BY <2>1 DEF WriteIV, DiskOK
    <3>2. TablesOK' /\ StatusOK' /\ faults' \in 0 .. MaxFaults
      BY <2>1 DEF WriteIV, TablesOK, StatusOK, db, NoFault
    <3> QED BY <1>3, <1>4, <2>1, <3>1, <3>2 DEF WriteIV, Holds
  <2>2. CASE TearIV
    <3>1. DiskOK'
      BY <2>2 DEF TearIV, DiskOK
    <3>2. TablesOK' /\ StatusOK' /\ faults' \in 0 .. MaxFaults
      BY <2>2, FaultType DEF TearIV, TablesOK, StatusOK, db
    <3> QED BY <2>2, <3>1, <3>2, ExitType DEF TearIV
  <2> QED BY <1>9, <2>1, <2>2, FailsType DEF SetIV
<1>10. CASE NewCipher
  <2>1. CASE NoFault /\ ErrorRow
    BY <1>1, <2>1, ErrorRowType, FaultType
  <2>2. CASE Goto([run EXCEPT !.pc = "create"])
    BY <1>1, <1>4, <2>2, MoveType, GotoType
  <2> QED BY <1>10, <2>1, <2>2, AbortType DEF NewCipher
<1> QED BY <1>6, <1>7, <1>8, <1>9, <1>10

LEMMA WriteTargetType ==
    ASSUME TypeInv, NEW bytes \in Content, NEW next \in RunState, Holds(next),
           WriteTarget(bytes, next)
    PROVE  TypeInv'
<1>1. DiskOK'
  BY DEF TypeInv, TypeOK, DiskOK, WriteTarget
<1>2. TablesOK' /\ StatusOK' /\ faults' \in 0 .. MaxFaults
  BY DEF TypeInv, TypeOK, TablesOK, StatusOK, db, WriteTarget, NoFault
<1> QED BY <1>1, <1>2 DEF TypeInv, TypeOK, WriteTarget, Holds

LEMMA CopyStepType ==
    ASSUME TypeInv, OpenSource \/ CreateTarget \/ CopyStream \/ VerifyStream \/ StoreOk
    PROVE  TypeInv'
<1> USE DEF TypeInv, TypeOK
<1>1. run.cur \in Bagits /\ run.loc \in Locations
  BY DEF OpenSource, CreateTarget, CopyStream, VerifyStream, StoreOk, Holds, AtLocation
<1>2. \A pc \in {"create", "getkey", "copy", "store"} : pc \in AtLocation
  BY DEF AtLocation
<1>3. \A kind : Fault(kind) /\ ErrorRow => TypeInv'
  BY <1>1, FaultType, ErrorRowType
<1>4. CASE OpenSource
  <2>1. CASE Goto([run EXCEPT !.pc = IF run.loc \in Encrypted THEN "getkey" ELSE "create"])
    BY <1>1, <1>2, <2>1, MoveType, GotoType
  <2> QED BY <1>3, <1>4, <2>1, AbortType, FailsType DEF OpenSource
<1>5. CASE CreateTarget
  <2>1. CASE WriteTarget(Partial, [run EXCEPT !.pc = "copy"])
    BY <1>1, <1>2, <2>1, ContentType, MoveType, WriteTargetType
  <2> QED BY <1>3, <1>5, <2>1, AbortType DEF CreateTarget
<1>6. CASE CopyStream
  <2> DEFINE next == [run EXCEPT !.pc = "verify", !.hash = Digest(Stream)]
  <2>1. Stream \in Content
    <3>1. At(run.cur, InitLoc) \in Content
      BY <1>1, AtType, LocationsAssumption
    <3>2. run.key \in Keys \cup {Missing, Torn} /\ run.iv \in IVs \cup {Missing, Torn}
      BY DEF RunState
    <3> QED BY <3>1, <3>2 DEF Stream, Content
  <2>2. next \in RunState
    BY <2>1, PcType, Zenon DEF RunState, Digest, AtLocation
  <2>3. Holds(next)
    BY <1>1 DEF Holds, RunState
  <2> QED BY <1>3, <1>6, <2>1, <2>2, <2>3, WriteTargetType DEF CopyStream
<1>7. CASE VerifyStream
  <2>1. CASE RecordDigest
    <3> DEFINE next == [run EXCEPT !.pc = "store", !.aes = run.hash]
    <3>1. run.hash \in Content
      BY DEF RunState
    <3>2. next \in RunState
      BY <1>2, <3>1, PcType, Zenon DEF RunState
    <3>3. Holds(next)
      BY <1>1 DEF Holds, RunState
    <3>4. TablesOK'
      BY <1>1, <2>1, <3>1 DEF RecordDigest, TablesOK
    <3>5. DiskOK' /\ StatusOK'
      BY <2>1 DEF RecordDigest, DiskOK, StatusOK, disk
    <3>6. faults' \in 0 .. MaxFaults
      BY <2>1, FaultType DEF RecordDigest
    <3> QED BY <2>1, <3>2, <3>3, <3>4, <3>5, <3>6 DEF RecordDigest, Holds
  <2>2. CASE CompareDigest
    BY <1>1, <1>2, <2>2, MoveType, NextLocationType, GotoType DEF CompareDigest
  <2> QED BY <1>7, <2>1, <2>2 DEF VerifyStream
<1>8. CASE StoreOk
  <2>1. CASE OkRow
    <3>1. StatusOK'
      BY <1>1, <2>1 DEF OkRow, SetRow, StatusOK
    <3>2. DiskOK' /\ TablesOK' /\ faults' \in 0 .. MaxFaults
      BY <2>1 DEF OkRow, DiskOK, TablesOK, disk, NoFault
    <3> QED BY <1>1, <2>1, <3>1, <3>2, NextLocationType DEF OkRow, Holds
  <2> QED BY <1>8, <2>1, FailsType DEF StoreOk
<1> QED BY <1>4, <1>5, <1>6, <1>7, <1>8

LEMMA TransferType ==
    ASSUME TypeInv, TransferStep
    PROVE  TypeInv'
<1> USE DEF TypeInv, TypeOK
<1>1. CASE LoadSource
  <2>1. /\ run.page # <<>>
        /\ run.known \ {InitLoc} \in SUBSET Locations
        /\ (transfer[Head(run.page).name][InitLoc] # None) \in BOOLEAN
    BY <1>1 DEF LoadSource, HasBagit, RunState
  <2> QED BY <1>1, <2>1, BeginBagitType, FailsType DEF LoadSource
<1>2. CASE TransferDone
  BY <1>2, EndBagitType DEF TransferDone
<1>3. ASSUME NEW l \in Locations, NextTarget(l) PROVE TypeInv'
  <2>1. run.pc = "target" /\ run.cur \in Bagits
    BY <1>3 DEF NextTarget, Holds, AtBagit
  <2>2. CASE SkipTarget(l)
    <3> DEFINE next == [run EXCEPT !.locs = @ \ {l}]
    <3>1. next \in RunState
      BY Zenon DEF RunState
    <3>2. Holds(next)
      BY <2>1 DEF Holds, RunState, AtLocation
    <3> QED BY <2>2, <3>1, <3>2, GotoType DEF SkipTarget
  <2>3. CASE PickTarget(l)
    <3> DEFINE next == [run EXCEPT !.pc = "open", !.locs = @ \ {l}, !.loc = l]
    <3>1. next \in RunState
      BY PcType, Zenon DEF RunState, AtLocation
    <3>2. Holds(next)
      BY <2>1 DEF Holds, RunState
    <3>3. faults' \in 0 .. MaxFaults
      BY <2>3, FaultType DEF PickTarget
    <3> QED BY <2>3, <3>1, <3>2, <3>3, UnchangedType DEF PickTarget, Holds
  <2> QED BY <1>3, <2>2, <2>3 DEF NextTarget
<1> QED BY <1>1, <1>2, <1>3, KeyStepType, CopyStepType DEF TransferStep

LEMMA CheckType ==
    ASSUME TypeInv, CheckStep
    PROVE  TypeInv'
<1> USE DEF TypeInv, TypeOK
<1>1. CASE BeginChecks
  <2>1. run.page # <<>> /\ run.known \in SUBSET Locations
    BY <1>1 DEF BeginChecks, HasBagit, RunState
  <2> QED BY <1>1, <2>1, BeginBagitType DEF BeginChecks
<1>2. CASE ChecksDone
  BY <1>2, EndBagitType DEF ChecksDone
<1>3. ASSUME NEW l \in Locations, NextTest(l) PROVE TypeInv'
  <2>1. run.pc = "test" /\ run.cur \in Bagits
    BY <1>3 DEF NextTest, Holds, AtBagit
  <2>2. CASE Goto([run EXCEPT !.locs = @ \ {l}])
    <3> DEFINE next == [run EXCEPT !.locs = @ \ {l}]
    <3>1. next \in RunState
      BY Zenon DEF RunState
    <3>2. Holds(next)
      BY <2>1 DEF Holds, RunState, AtLocation
    <3> QED BY <2>2, <3>1, <3>2, GotoType
  <2>3. CASE Goto([run EXCEPT !.pc = "read", !.locs = @ \ {l}, !.loc = l])
    <3> DEFINE next == [run EXCEPT !.pc = "read", !.locs = @ \ {l}, !.loc = l]
    <3>1. next \in RunState
      BY PcType, Zenon DEF RunState, AtLocation
    <3>2. Holds(next)
      BY <2>1 DEF Holds, RunState
    <3> QED BY <2>3, <3>1, <3>2, GotoType
  <2> QED BY <1>3, <2>2, <2>3, AbortType, FailsType DEF NextTest
<1>4. CASE ReadCopy
  <2>1. run.cur \in Bagits /\ run.loc \in Locations
    BY <1>4 DEF ReadCopy, Holds, AtLocation
  <2>2. ASSUME NEW hash \in Content
        PROVE  /\ [run EXCEPT !.pc = "result", !.hash = hash] \in RunState
               /\ Holds([run EXCEPT !.pc = "result", !.hash = hash])
    <3>1. [run EXCEPT !.pc = "result", !.hash = hash] \in RunState
      BY <2>2, PcType, Zenon DEF RunState, AtLocation
    <3> QED BY <2>1, <3>1 DEF Holds, RunState
  <2>3. CASE Goto([run EXCEPT !.pc = "result", !.hash = Digest(At(run.cur, run.loc))])
    BY <2>1, <2>2, <2>3, AtType, GotoType DEF Digest
  <2>4. CASE /\ Fault("io")
             /\ run' = [run EXCEPT !.pc = "result", !.hash = NoDigest]
             /\ UNCHANGED <<disk, db>>
    BY <2>2, <2>4, ContentType, FaultType, UnchangedType DEF Holds
  <2> QED BY <1>4, <2>3, <2>4 DEF ReadCopy
<1>5. CASE StoreResult
  <2>1. run.cur \in Bagits /\ run.loc \in Locations
    BY <1>5 DEF StoreResult, Holds, AtLocation
  <2>2. CASE TestRow
    <3> DEFINE next == [run EXCEPT !.pc = "test", !.loc = None, !.hash = NoDigest]
    <3>1. next \in RunState
      BY PcType, ContentType, Zenon DEF RunState, AtBagit
    <3>2. Holds(next)
      BY <2>1 DEF Holds, RunState, AtLocation
    <3>3. StatusOK'
      <4>1. Verdict \in {"passed", "failed"}
        BY DEF Verdict
      <4> QED BY <2>1, <2>2, <4>1 DEF TestRow, StatusOK
    <3>4. DiskOK' /\ TablesOK' /\ faults' \in 0 .. MaxFaults
      BY <2>2 DEF TestRow, DiskOK, TablesOK, disk, NoFault
    <3> QED BY <2>2, <3>1, <3>2, <3>3, <3>4 DEF TestRow, Holds
  <2> QED BY <1>5, <2>2, FailsType DEF StoreResult
<1> QED BY <1>1, <1>2, <1>3, <1>4, <1>5 DEF CheckStep

LEMMA StartType ==
    ASSUME TypeInv, StartRun
    PROVE  TypeInv'
<1> USE DEF TypeInv, TypeOK
<1>1. faults' \in 0 .. MaxFaults
  BY FaultType DEF StartRun
<1>2. ASSUME NEW locations \in SUBSET Locations, NEW checksum \in BOOLEAN,
             LoadAll(locations, checksum)
      PROVE  run' \in RunState /\ Holds(run')
  <2> DEFINE zips == {b \in Bagits : file[b][InitLoc] # Absent}
             next == [Idle EXCEPT !.pc = "walk", !.phase = "ingest", !.known = locations,
                                  !.checksum = checksum, !.todo = zips]
  <2>1. zips \in SUBSET Bagits /\ "ingest" \in Phases
    BY DEF Phases
  <2>2. next \in RunState
    <3> HIDE DEF zips
    <3> QED BY <1>2, <2>1, IdleType, PcType, Zenon DEF RunState
  <2>3. Holds(next)
    BY IdleType DEF Holds, RunState, AtBagit, AtLocation
  <2> QED BY <1>2, <2>2, <2>3, IdleType DEF LoadAll
<1>3. run' \in RunState /\ Holds(run')
  BY <1>2, IdleType DEF StartRun, Exit
<1> QED BY <1>1, <1>3, UnchangedType DEF StartRun, Holds

LEMMA EnvironmentType ==
    ASSUME TypeInv, Environment
    PROVE  TypeInv'
<1> USE DEF TypeInv, TypeOK
<1>1. ASSUME NEW b \in Bagits, BeginUpload(b) \/ EndUpload(b) PROVE TypeInv'
  <2>1. DiskOK'
    BY <1>1, ContentType, BoundsAssumption, LocationsAssumption
       DEF BeginUpload, EndUpload, DiskOK
  <2>2. TablesOK' /\ StatusOK' /\ run' = run /\ faults' \in 0 .. MaxFaults
    BY <1>1 DEF BeginUpload, EndUpload, TablesOK, StatusOK, db, NoFault
  <2> QED BY <2>1, <2>2 DEF Holds
<1>2. ASSUME NEW b \in Bagits, NEW l \in Locations, Damage(b, l) PROVE TypeInv'
  <2>1. faults' \in 0 .. MaxFaults
    BY <1>2, FaultType DEF Damage
  <2>2. DiskOK'
    BY <1>2, <2>1, ContentType DEF Damage, DiskOK
  <2>3. TablesOK' /\ StatusOK' /\ run' = run
    BY <1>2 DEF Damage, TablesOK, StatusOK, db
  <2> QED BY <2>1, <2>2, <2>3 DEF Holds
<1>3. ASSUME NEW b \in Bagits, NEW l \in Locations, Expire(b, l) PROVE TypeInv'
  <2>1. StatusOK'
    BY <1>3 DEF Expire, StatusOK
  <2>2. DiskOK' /\ TablesOK' /\ run' = run /\ faults' \in 0 .. MaxFaults
    BY <1>3 DEF Expire, DiskOK, TablesOK, disk, NoFault
  <2> QED BY <2>1, <2>2 DEF Holds
<1> QED BY <1>1, <1>2, <1>3 DEF Environment

LEMMA InitType == Init => TypeInv
<1> SUFFICES ASSUME Init PROVE TypeInv
  OBVIOUS
<1>1. DiskOK
  BY ContentType DEF Init, DiskOK
<1>2. TablesOK
  BY ContentType DEF Init, TablesOK
<1>3. StatusOK
  BY DEF Init, StatusOK
<1>4. run \in RunState /\ Holds(run) /\ faults \in 0 .. MaxFaults
  BY IdleType, BoundsAssumption DEF Init
<1> QED BY <1>1, <1>2, <1>3, <1>4 DEF TypeInv, TypeOK

LEMMA NextType == TypeInv /\ [Next]_vars => TypeInv'
<1> SUFFICES ASSUME TypeInv, [Next]_vars PROVE TypeInv'
  OBVIOUS
<1>1. CASE UNCHANGED vars
  BY <1>1 DEF vars, disk, db, TypeInv, TypeOK, DiskOK, TablesOK, StatusOK, Holds
<1>2. CASE Step
  BY <1>2, IngestType, PageStepType, TransferType, CheckType DEF Step
<1>3. CASE Crash
  BY <1>3, FailsType DEF Crash, TypeInv
<1> QED BY <1>1, <1>2, <1>3, StartType, EnvironmentType DEF Next

\* Every variable keeps its type, whatever fails and however many bagits,
\* locations and runs there are; the process never indexes a row or a file
\* with a bagit or a location it does not have in hand.
THEOREM TypeCorrect == Spec => []TypeOK
<1>1. Init => TypeInv
  BY InitType
<1>2. TypeInv /\ [Next]_vars => TypeInv'
  BY NextType
<1>3. TypeInv => TypeOK
  BY DEF TypeInv
<1> QED BY <1>1, <1>2, <1>3, PTL DEF Spec

(***************************************************************************)
(* Where the steps of the phases lead, and what they leave alone.          *)
(***************************************************************************)
LEMMA FailsFrame ==
    /\ Abort => run'.pc = "idle" /\ UNCHANGED <<disk, db>>
    /\ \A kind : Fails(kind) => run'.pc = "idle" /\ UNCHANGED <<disk, db>>
BY DEF Abort, Fails, Exit, Idle

LEMMA IngestFrame ==
    ASSUME TypeInv, IngestStep
    PROVE  /\ run'.pc \in {"idle", "walk", "sum", "insert", "init", "content", "count"}
           /\ UNCHANGED <<disk, aes>>
<1> USE FailsFrame DEF TypeInv, TypeOK, Goto
<1>1. ASSUME NEW b \in Bagits, WalkZip(b)
      PROVE  run'.pc \in {"idle", "walk", "sum"} /\ UNCHANGED <<disk, db>>
  BY <1>1 DEF WalkZip, SkipZip, AcceptZip, RejectZip, RunState
<1>2. CASE SumZip
  BY <1>2 DEF SumZip, RunState, db
<1>3. CASE InsertBagit
  BY <1>3 DEF InsertBagit, InsertRow, DuplicateRow, Abort, RunState, db
<1>4. CASE StoreInitLocation
  BY <1>4 DEF StoreInitLocation, StoreInitRow, RunState, db
<1>5. CASE AddContent
  BY <1>5 DEF AddContent, RunState
<1>6. CASE ZipDone
  BY <1>6 DEF ZipDone, RunState, db
<1>7. CASE WalkDone
  BY <1>7 DEF WalkDone, EnterPhase, Idle, db
<1> QED BY <1>1, <1>2, <1>3, <1>4, <1>5, <1>6, <1>7 DEF IngestStep, db

LEMMA PageFrame ==
    ASSUME TypeInv, PageStep
    PROVE  run'.pc \in {"idle", "count", "load", "next"} /\ UNCHANGED <<disk, db>>
<1> USE FailsFrame DEF TypeInv, TypeOK, Goto
<1>1. CASE CountRows
  BY <1>1 DEF CountRows, RunState
<1>2. CASE LoadPage
  <2>1. \A page : WithPage(page).pc = "next"
    BY DEF WithPage, RunState
  <2>2. NextPhase.pc \in {"idle", "count"}
    BY DEF NextPhase, EnterPhase, Idle
  <2> QED BY <1>2, <2>1, <2>2 DEF LoadPage, ReadPage, PagesDone, CutPage
<1>3. CASE EndOfPage
  BY <1>3 DEF EndOfPage, RunState
<1> QED BY <1>1, <1>2, <1>3 DEF PageStep

LEMMA CheckFrame ==
    ASSUME TypeInv, CheckStep
    PROVE  /\ run'.pc \in {"idle", "next", "test", "read", "result"}
           /\ UNCHANGED <<disk, rows, sha, aes, content, transfer>>
<1> USE FailsFrame DEF TypeInv, TypeOK, Goto
<1>1. CASE BeginChecks
  BY <1>1 DEF BeginChecks, BeginBagit, RunState, db
<1>2. CASE ChecksDone
  BY <1>2 DEF ChecksDone, EndBagit, RunState, db
<1>3. ASSUME NEW l \in Locations, NextTest(l)
      PROVE  run'.pc \in {"idle", "test", "read"} /\ UNCHANGED <<disk, db>>
  BY <1>3 DEF NextTest, RunState
<1>4. CASE ReadCopy
  BY <1>4 DEF ReadCopy, RunState, db
<1>5. CASE StoreResult
  BY <1>5 DEF StoreResult, TestRow, RunState, db
<1> QED BY <1>1, <1>2, <1>3, <1>4, <1>5 DEF CheckStep, db

LEMMA ErrorRowFrame ==
    ErrorRow => /\ run'.pc = "idle" /\ UNCHANGED <<disk, rows, sha, aes, content, test, fresh>>
BY DEF ErrorRow, Exit, Idle

LEMMA BeginBagitFrame ==
    ASSUME NEW pc, NEW source, NEW locs, BeginBagit(pc, source, locs), TypeOK
    PROVE  /\ run'.pc = pc /\ run'.cur = Head(run.page).name /\ run'.page = Tail(run.page)
           /\ run'.locs = locs
           /\ UNCHANGED <<disk, db>>
BY DEF BeginBagit, Goto, TypeOK, RunState

LEMMA StartFrame ==
    ASSUME StartRun
    PROVE  /\ run'.pc \in {"idle", "walk"} /\ run'.page = <<>>
           /\ UNCHANGED <<disk, db>>
<1>1. \A locations, checksum : LoadAll(locations, checksum) =>
           run'.pc \in {"idle", "walk"} /\ run'.page = <<>>
  BY DEF LoadAll, Idle
<1>2. Exit => run'.pc = "idle" /\ run'.page = <<>>
  BY DEF Exit, Idle
<1> QED BY <1>1, <1>2 DEF StartRun

(***************************************************************************)
(* The key directory always holds the key and the iv of every ciphertext,  *)
(* as long as a key file that exists can be read.                          *)
(***************************************************************************)
KeyPcs == {"setkey", "getiv", "setiv", "cipher", "create", "copy", "verify"}

\* What createEncrypt has established on the way to the cipher, and the copy
\* relies on: key and iv in memory are the ones in the files.
KeyHeld ==
    /\ run.pc = "setkey" => keyFile[run.cur] = Missing
    /\ run.pc = "setiv" => ivFile[run.cur] = Missing
    /\ \/ run.pc \in {"getiv", "setiv", "cipher"}
       \/ run.pc \in {"create", "copy", "verify"} /\ run.loc \in Encrypted
       => run.key = keyFile[run.cur] /\ run.key # Missing
    /\ \/ run.pc = "cipher"
       \/ run.pc \in {"create", "copy", "verify"} /\ run.loc \in Encrypted
       => run.iv = ivFile[run.cur] /\ run.iv # Missing
    /\ run.pc \in {"create", "copy", "verify"} /\ run.loc \in Encrypted =>
           Torn \notin {run.key, run.iv}
    /\ run.pc = "verify" /\ run.loc \in Encrypted =>
           run.hash.key = run.key /\ run.hash.iv = run.iv

\* KeyArchived of one ciphertext, and that it has an iv.
MadeWith(b, c) ==
    c.key # Missing =>
        /\ keyFile[b] = c.key /\ ivFile[b] = c.iv
        /\ c.iv # Missing /\ Torn \notin {c.key, c.iv}
Ciphers ==
    \A b \in Bagits : MadeWith(b, aes[b]) /\ \A l \in Encrypted : MadeWith(b, file[b][l])

KeyInv == Ciphers /\ KeyHeld

LEMMA KeyInvImplies == KeyInv => KeyArchived
BY DEF KeyInv, Ciphers, MadeWith, KeyArchived

(***************************************************************************)
(* Preservation.                                                           *)
(***************************************************************************)
LEMMA KeyQuiet ==
    ASSUME KeyInv, UNCHANGED <<disk, aes>>, run'.pc \notin KeyPcs
    PROVE  KeyInv'
BY DEF KeyInv, Ciphers, MadeWith, KeyHeld, KeyPcs, disk

\* A step that only moves the program counter, to where KeyHeld asks for nothing
\* that does not hold already.
LEMMA KeyMove ==
    ASSUME KeyInv, UNCHANGED <<disk, aes>>, KeyHeld'
    PROVE  KeyInv'
BY DEF KeyInv, Ciphers, MadeWith, disk

LEMMA KeyStepsKeep ==
    ASSUME "keyread" \notin FaultKinds, TypeInv, KeyInv,
           GetKey \/ SetKey \/ GetIV \/ SetIV \/ NewCipher
    PROVE  KeyInv'
<1> USE DEF TypeInv, TypeOK
<1>1. run.cur \in Bagits /\ run.loc \in Locations
  BY DEF GetKey, SetKey, GetIV, SetIV, NewCipher, Holds, AtLocation
<1>2. Missing # Torn /\ Missing \notin Keys /\ Missing \notin IVs
  BY KeysAssumption DEF Missing, Torn
<1>3. ~ Fault("keyread")
  BY DEF Fault
<1>4. CASE GetKey
  <2>1. CASE /\ keyFile[run.cur] # Missing
             /\ Goto([run EXCEPT !.pc = "getiv", !.key = keyFile[run.cur]])
    <3>1. /\ run'.pc = "getiv" /\ run'.key = keyFile[run.cur] /\ run'.cur = run.cur
          /\ UNCHANGED <<disk, aes>>
      BY <2>1 DEF Goto, RunState, db
    <3>2. KeyHeld'
      BY <2>1, <3>1 DEF KeyHeld, disk
    <3> QED BY <3>1, <3>2, KeyMove
  <2>2. CASE /\ keyFile[run.cur] = Missing
             /\ run' = [run EXCEPT !.pc = "setkey"]
             /\ UNCHANGED <<disk, db>>
    <3>1. run'.pc = "setkey" /\ run'.cur = run.cur /\ UNCHANGED <<disk, aes>>
      BY <2>2 DEF RunState, db
    <3>2. KeyHeld'
      BY <2>2, <3>1 DEF KeyHeld, disk
    <3> QED BY <3>1, <3>2, KeyMove
  <2> QED BY <1>3, <1>4, <2>1, <2>2 DEF GetKey
<1>5. CASE SetKey
  <2>1. keyFile[run.cur] = Missing
    BY <1>5 DEF SetKey, KeyInv, KeyHeld
  \* so no ciphertext of this bagit exists yet, and any key will do
  <2>2. ASSUME NEW k, keyFile' = [keyFile EXCEPT ![run.cur] = k],
               UNCHANGED <<file, ivFile, aes>>
        PROVE  Ciphers'
    BY <1>1, <2>1, <2>2 DEF KeyInv, Ciphers, MadeWith, DiskOK
  <2>3. ASSUME NEW k \in Keys, WriteKey(k) PROVE KeyInv'
    <3>1. Ciphers'
      BY <2>2, <2>3 DEF WriteKey, db
    <3>2. run'.pc = "getiv" /\ run'.key = k /\ run'.cur = run.cur
      BY <2>3 DEF WriteKey, RunState
    <3>3. keyFile'[run.cur] = k
      BY <1>1, <2>3 DEF WriteKey, DiskOK
    <3>4. KeyHeld'
      BY <1>2, <2>3, <3>2, <3>3 DEF KeyHeld
    <3> QED BY <3>1, <3>4 DEF KeyInv
  <2>4. CASE TearKey
    <3>1. Ciphers'
      BY <2>2, <2>4 DEF TearKey, db
    <3>2. KeyHeld'
      BY <2>4 DEF TearKey, Exit, Idle, KeyHeld
    <3> QED BY <3>1, <3>2 DEF KeyInv
  <2>5. CASE Fails("keywrite")
    BY <2>5, FailsFrame, KeyQuiet DEF KeyPcs, db
  <2> QED BY <1>5, <2>3, <2>4, <2>5 DEF SetKey
<1>6. CASE GetIV
  <2>1. run.key = keyFile[run.cur] /\ run.key # Missing
    BY <1>6 DEF GetIV, KeyInv, KeyHeld
  <2>2. CASE /\ ivFile[run.cur] # Missing
             /\ Goto([run EXCEPT !.pc = "cipher", !.iv = ivFile[run.cur]])
    <3>1. /\ run'.pc = "cipher" /\ run'.iv = ivFile[run.cur] /\ run'.cur = run.cur
          /\ run'.key = run.key /\ UNCHANGED <<disk, aes>>
      BY <2>2 DEF Goto, RunState, db
    <3>2. KeyHeld'
      BY <2>1, <2>2, <3>1 DEF KeyHeld, disk
    <3> QED BY <3>1, <3>2, KeyMove
  <2>3. CASE /\ ivFile[run.cur] = Missing
             /\ run' = [run EXCEPT !.pc = "setiv"]
             /\ UNCHANGED <<disk, db>>
    <3>1. /\ run'.pc = "setiv" /\ run'.cur = run.cur /\ run'.key = run.key
          /\ UNCHANGED <<disk, aes>>
      BY <2>3 DEF RunState, db
    <3>2. KeyHeld'
      BY <2>1, <2>3, <3>1 DEF KeyHeld, disk
    <3> QED BY <3>1, <3>2, KeyMove
  <2> QED BY <1>3, <1>6, <2>2, <2>3 DEF GetIV
<1>7. CASE SetIV
  <2>1. /\ ivFile[run.cur] = Missing
        /\ run.key = keyFile[run.cur] /\ run.key # Missing
    BY <1>7 DEF SetIV, KeyInv, KeyHeld
  <2>2. ASSUME NEW i, ivFile' = [ivFile EXCEPT ![run.cur] = i],
               UNCHANGED <<file, keyFile, aes>>
        PROVE  Ciphers'
    BY <1>1, <2>1, <2>2 DEF KeyInv, Ciphers, MadeWith, DiskOK
  <2>3. ASSUME NEW i \in IVs, WriteIV(i) PROVE KeyInv'
    <3>1. Ciphers'
      BY <2>2, <2>3 DEF WriteIV, db
    <3>2. /\ run'.pc = "cipher" /\ run'.iv = i /\ run'.cur = run.cur
          /\ run'.key = run.key
      BY <2>3 DEF WriteIV, RunState
    <3>3. ivFile'[run.cur] = i /\ keyFile' = keyFile
      BY <1>1, <2>3 DEF WriteIV, DiskOK
    <3>4. KeyHeld'
      BY <1>2, <2>1, <2>3, <3>2, <3>3 DEF KeyHeld
    <3> QED BY <3>1, <3>4 DEF KeyInv
  <2>4. CASE TearIV
    <3>1. Ciphers'
      BY <2>2, <2>4 DEF TearIV, db
    <3>2. KeyHeld'
      BY <2>4 DEF TearIV, Exit, Idle, KeyHeld
    <3> QED BY <3>1, <3>2 DEF KeyInv
  <2>5. CASE Fails("keywrite")
    BY <2>5, FailsFrame, KeyQuiet DEF KeyPcs, db
  <2> QED BY <1>7, <2>3, <2>4, <2>5 DEF SetIV
<1>8. CASE NewCipher
  <2>1. CASE NoFault /\ ErrorRow
    BY <2>1, ErrorRowFrame, KeyQuiet DEF KeyPcs
  <2>2. CASE Abort
    BY <2>2, FailsFrame, KeyQuiet DEF KeyPcs, db
  <2>3. CASE run.key # Torn /\ run.iv # Torn /\ Goto([run EXCEPT !.pc = "create"])
    <3>1. /\ run'.pc = "create" /\ run'.cur = run.cur /\ run'.key = run.key
          /\ run'.iv = run.iv /\ UNCHANGED <<disk, aes>>
      BY <2>3 DEF Goto, RunState, db
    <3>2. KeyHeld'
      BY <1>8, <2>3, <3>1 DEF NewCipher, KeyInv, KeyHeld, disk
    <3> QED BY <3>1, <3>2, KeyMove
  <2> QED BY <1>8, <2>1, <2>2, <2>3 DEF NewCipher
<1> QED BY <1>4, <1>5, <1>6, <1>7, <1>8

LEMMA CopyStepsKeep ==
    ASSUME TypeInv, KeyInv,
           OpenSource \/ CreateTarget \/ CopyStream \/ VerifyStream \/ StoreOk
    PROVE  KeyInv'
<1> USE DEF TypeInv, TypeOK
<1>1. run.cur \in Bagits /\ run.loc \in Locations
  BY DEF OpenSource, CreateTarget, CopyStream, VerifyStream, StoreOk, Holds, AtLocation
<1>2. ErrorRow => KeyInv'
  BY ErrorRowFrame, KeyQuiet DEF KeyPcs
<1>3. (Abort => KeyInv') /\ \A kind : Fails(kind) => KeyInv'
  BY FailsFrame, KeyQuiet DEF KeyPcs, db
<1>4. CASE OpenSource
  <2>1. CASE Goto([run EXCEPT !.pc = IF run.loc \in Encrypted THEN "getkey" ELSE "create"])
    <3>1. /\ run'.pc = IF run.loc \in Encrypted THEN "getkey" ELSE "create"
          /\ run'.loc = run.loc /\ UNCHANGED <<disk, aes>>
      BY <2>1 DEF Goto, RunState, db
    <3>2. KeyHeld'
      BY <3>1 DEF KeyHeld
    <3> QED BY <3>1, <3>2, KeyMove
  <2> QED BY <1>2, <1>3, <1>4, <2>1 DEF OpenSource
\* Opening the target and filling it write one file, and no key.
<1>5. ASSUME NEW bytes, NEW next, WriteTarget(bytes, next),
             run.loc \in Encrypted => MadeWith(run.cur, bytes)
      PROVE  Ciphers' /\ run' = next /\ UNCHANGED <<keyFile, ivFile>>
  <2>1. \A b \in Bagits, l \in Encrypted :
           file'[b][l] = file[b][l] \/ (b = run.cur /\ l = run.loc /\ file'[b][l] = bytes)
    BY <1>1, <1>5, LocationsAssumption DEF WriteTarget, DiskOK
  <2>2. /\ run' = next /\ UNCHANGED <<keyFile, ivFile, aes>>
    BY <1>5 DEF WriteTarget, db
  <2> QED BY <1>5, <2>1, <2>2 DEF KeyInv, Ciphers, MadeWith
<1>6. CASE CreateTarget
  <2>1. CASE WriteTarget(Partial, [run EXCEPT !.pc = "copy"])
    <3>1. MadeWith(run.cur, Partial)
      BY DEF MadeWith, Partial
    <3>2. /\ Ciphers' /\ run' = [run EXCEPT !.pc = "copy"] /\ UNCHANGED <<keyFile, ivFile>>
      BY <1>5, <2>1, <3>1
    <3>3. /\ run'.pc = "copy" /\ run'.cur = run.cur /\ run'.loc = run.loc
          /\ run'.key = run.key /\ run'.iv = run.iv
      BY <3>2 DEF RunState
    <3>4. KeyHeld'
      BY <1>6, <3>2, <3>3 DEF CreateTarget, KeyInv, KeyHeld
    <3> QED BY <3>2, <3>4 DEF KeyInv
  <2> QED BY <1>2, <1>3, <1>6, <2>1 DEF CreateTarget
<1>7. CASE CopyStream
  <2> DEFINE next == [run EXCEPT !.pc = "verify", !.hash = Digest(Stream)]
  <2>1. CASE WriteTarget(Stream, next)
    <3>1. Stream.key = run.key /\ Stream.iv = run.iv
      <4>1. At(run.cur, InitLoc) \in Content
        BY <1>1, AtType, LocationsAssumption
      <4> QED BY <4>1 DEF Stream, Content
    <3>2. run.loc \in Encrypted =>
            /\ run.key = keyFile[run.cur] /\ run.key # Missing
            /\ run.iv = ivFile[run.cur] /\ run.iv # Missing
            /\ Torn \notin {run.key, run.iv}
      BY <1>7 DEF CopyStream, KeyInv, KeyHeld
    <3>3. run.loc \in Encrypted => MadeWith(run.cur, Stream)
      BY <3>1, <3>2 DEF MadeWith
    <3>4. Ciphers' /\ run' = next /\ UNCHANGED <<keyFile, ivFile>>
      BY <1>5, <2>1, <3>3
    <3>5. /\ run'.pc = "verify" /\ run'.cur = run.cur /\ run'.loc = run.loc
          /\ run'.key = run.key /\ run'.iv = run.iv /\ run'.hash = Stream
      BY <3>4 DEF RunState, Digest
    <3>6. KeyHeld'
      BY <3>1, <3>2, <3>4, <3>5 DEF KeyHeld
    <3> QED BY <3>4, <3>6 DEF KeyInv
  <2> QED BY <1>2, <1>7, <2>1 DEF CopyStream
<1>8. CASE VerifyStream
  <2>1. CASE RecordDigest
    <3>1. MadeWith(run.cur, run.hash)
      BY <1>8, <2>1 DEF VerifyStream, RecordDigest, KeyInv, KeyHeld, MadeWith
    <3>2. \A b \in Bagits : aes'[b] = aes[b] \/ (b = run.cur /\ aes'[b] = run.hash)
      BY <1>1, <2>1 DEF RecordDigest, TablesOK
    <3>3. UNCHANGED disk /\ run'.pc = "store"
      BY <2>1 DEF RecordDigest, RunState
    <3>4. Ciphers'
      BY <3>1, <3>2, <3>3 DEF KeyInv, Ciphers, MadeWith, disk
    <3>5. KeyHeld'
      BY <3>3 DEF KeyHeld
    <3> QED BY <3>4, <3>5 DEF KeyInv
  <2>2. CASE CompareDigest
    <3>1. run'.pc \in {"store", "target"} /\ UNCHANGED <<disk, aes>>
      BY <2>2 DEF CompareDigest, Goto, NextLocation, RunState, db
    <3> QED BY <3>1, KeyQuiet DEF KeyPcs
  <2> QED BY <1>8, <2>1, <2>2 DEF VerifyStream
<1>9. CASE StoreOk
  <2>1. CASE OkRow
    <3>1. run'.pc = "target" /\ UNCHANGED <<disk, aes>>
      BY <2>1 DEF OkRow, NextLocation, RunState
    <3> QED BY <3>1, KeyQuiet DEF KeyPcs
  <2> QED BY <1>3, <1>9, <2>1 DEF StoreOk
<1> QED BY <1>4, <1>6, <1>7, <1>8, <1>9

LEMMA TransferKeeps ==
    ASSUME "keyread" \notin FaultKinds, TypeInv, KeyInv, TransferStep
    PROVE  KeyInv'
<1> USE FailsFrame, KeyQuiet DEF TypeInv, TypeOK, KeyPcs, db
<1>1. CASE LoadSource
  BY <1>1, BeginBagitFrame DEF LoadSource
<1>2. CASE TransferDone
  BY <1>2 DEF TransferDone, EndBagit, Goto, RunState
<1>3. ASSUME NEW l \in Locations, NextTarget(l) PROVE KeyInv'
  <2>1. run'.pc \in {"target", "open"} /\ UNCHANGED <<disk, db>>
    BY <1>3 DEF NextTarget, SkipTarget, PickTarget, Goto, RunState
  <2> QED BY <2>1
<1> QED BY <1>1, <1>2, <1>3, KeyStepsKeep, CopyStepsKeep DEF TransferStep

LEMMA SurroundingsKeep ==
    ASSUME TypeInv, KeyInv, StartRun \/ Environment
    PROVE  KeyInv'
<1> USE DEF TypeInv, TypeOK
<1>1. CASE StartRun
  BY <1>1, StartFrame, KeyQuiet DEF KeyPcs, db
<1>2. CASE Environment
  <2>1. UNCHANGED <<keyFile, ivFile, aes, run>>
    BY <1>2 DEF Environment, BeginUpload, EndUpload, Damage, Expire, disk, db
  <2>2. \A b \in Bagits, l \in Encrypted :
           file'[b][l] = file[b][l] \/ file'[b][l].key = Missing
    BY <1>2, LocationsAssumption
       DEF Environment, BeginUpload, EndUpload, Damage, Expire, disk, DiskOK, Plain, Partial
  <2> QED BY <2>1, <2>2 DEF KeyInv, Ciphers, MadeWith, KeyHeld
<1> QED BY <1>1, <1>2

LEMMA InitKey == Init => KeyInv
BY LocationsAssumption DEF Init, KeyInv, Ciphers, MadeWith, KeyHeld, Idle, NoDigest, Absent

LEMMA NextKeepsKey ==
    ASSUME "keyread" \notin FaultKinds, TypeInv, KeyInv, [Next]_vars
    PROVE  KeyInv'
<1>1. CASE UNCHANGED vars
  BY <1>1 DEF vars, disk, db, KeyInv, Ciphers, MadeWith, KeyHeld
<1>2. CASE IngestStep
  BY <1>2, IngestFrame, KeyQuiet DEF KeyPcs
<1>3. CASE PageStep
  BY <1>3, PageFrame, KeyQuiet DEF KeyPcs, db
<1>4. CASE TransferStep
  BY <1>4, TransferKeeps
<1>5. CASE CheckStep
  BY <1>5, CheckFrame, KeyQuiet DEF KeyPcs
<1>6. CASE Crash
  BY <1>6, FailsFrame, KeyQuiet DEF Crash, KeyPcs, db
<1> QED BY <1>1, <1>2, <1>3, <1>4, <1>5, <1>6, SurroundingsKeep DEF Next, Step

\* No schedule of runs, crashes, half-written key files, lost statements and
\* decay leaves a ciphertext, or the digest of one, whose key and iv are not
\* whole or not the ones in the key directory, provided a key file that exists is never
\* taken for a missing one (GetKey, GetIV).
THEOREM KeyCorrect ==
    ASSUME "keyread" \notin FaultKinds
    PROVE  Spec => []KeyArchived
<1>1. TypeInv /\ KeyInv /\ [Next]_vars => KeyInv'
  BY NextKeepsKey
<1> QED BY <1>1, InitType, NextType, InitKey, KeyInvImplies, PTL DEF Spec

(***************************************************************************)
(* An "ok" row is only found next to a complete file and is never taken    *)
(* back, as long as Exists can read the row.                               *)
(***************************************************************************)
RowPcs == {"open", "getkey", "setkey", "getiv", "setiv", "cipher", "create", "copy",
           "verify", "store"}
InRows == {b \in Bagits : Registered(b)}

\* What the deep check and bagitLoad promise to the transfer: a bagit that is
\* in the database, on a page or in hand has a complete zip.
ZipsWhole ==
    /\ \A b \in InRows : file[b][InitLoc].kind = "whole"
    /\ run.pc \in {"sum", "insert"} => file[run.cur][InitLoc].kind = "whole"
    /\ run.page \in Seq([name : InRows, aes : Content])
    /\ run.pc \in RowPcs \cup {"target"} => run.cur \in InRows

\* While a location is worked on it is not the initial one, and it has no "ok"
\* row, as long as Exists can read the row it looks for.
TargetOpen ==
    /\ run.pc \in RowPcs \cup {"target"} => InitLoc \notin run.locs
    /\ run.pc \in RowPcs => run.loc # InitLoc
    /\ run.pc \in RowPcs /\ "dbread" \notin FaultKinds => transfer[run.cur][run.loc] # "ok"
    /\ run.pc \in RowPcs \ {"open", "verify", "store"} => run.cur \notin Nested
    /\ run.pc \in {"verify", "store"} => file[run.cur][run.loc].kind = "whole"

RowsWritten == "dbread" \notin FaultKinds => OkMeansWritten

WrittenInv == ZipsWhole /\ TargetOpen /\ RowsWritten

LEMMA RowsOfInRows == ASSUME TypeOK PROVE rows \in Seq(InRows)
<1>1. rows \in [1 .. Len(rows) -> InRows] /\ Len(rows) \in Nat
  BY DEF TypeOK, TablesOK, InRows, Registered
<1> QED BY <1>1, FunctionIsSeq

\* A step that leaves the archive alone and ends outside the transfer of a bagit.
LEMMA WrittenQuiet ==
    ASSUME WrittenInv, UNCHANGED <<disk, rows, transfer>>,
           run'.page \in Seq([name : InRows, aes : Content]),
           run'.pc \notin RowPcs \cup {"target", "sum", "insert"}
    PROVE  WrittenInv'
<1>1. InRows' = InRows
  BY DEF InRows, Registered
<1> QED BY <1>1 DEF WrittenInv, ZipsWhole, TargetOpen, RowsWritten, OkMeansWritten, RowPcs, disk

LEMMA WrittenExit ==
    ASSUME WrittenInv, UNCHANGED <<disk, rows, transfer>>, Exit
    PROVE  WrittenInv'
<1>1. run'.pc = "idle" /\ run'.page = <<>>
  BY DEF Exit, Idle
<1> QED BY <1>1, WrittenQuiet DEF RowPcs

LEMMA WrittenFails ==
    ASSUME WrittenInv
    PROVE  (Abort => WrittenInv') /\ \A kind : Fails(kind) => WrittenInv'
BY WrittenExit DEF Abort, Fails, db

\* An "error" row at the location in hand, or none.
LEMMA WrittenErrorRow ==
    ASSUME TypeInv, WrittenInv, run.pc \in RowPcs, ErrorRow
    PROVE  WrittenInv'
<1>1. run.cur \in Bagits /\ run.loc \in Locations
  BY DEF TypeInv, Holds, AtLocation, RowPcs
<1>2. \A b \in Bagits, l \in Locations :
         transfer'[b][l] = transfer[b][l] \/ transfer'[b][l] = "error"
  <2>1. SetRow("error") \/ UNCHANGED transfer
    BY DEF ErrorRow
  <2> QED BY <1>1, <2>1 DEF SetRow, TypeInv, TypeOK, StatusOK
<1>3. run'.pc = "idle" /\ run'.page = <<>> /\ UNCHANGED <<disk, rows>>
  BY DEF ErrorRow, Exit, Idle
<1>4. InRows' = InRows
  BY <1>3 DEF InRows, Registered
<1> QED BY <1>2, <1>3, <1>4
        DEF WrittenInv, ZipsWhole, TargetOpen, RowsWritten, OkMeansWritten, RowPcs, disk

LEMMA IngestKeepsWritten ==
    ASSUME TypeInv, WrittenInv, IngestStep
    PROVE  WrittenInv'
<1> USE DEF TypeInv, TypeOK
<1>1. ASSUME NEW b \in Bagits, WalkZip(b) PROVE WrittenInv'
  <2>1. CASE SkipZip(b)
    <3>1. run'.pc = "walk" /\ run'.page = run.page /\ UNCHANGED <<disk, db>>
      BY <1>1, <2>1 DEF WalkZip, SkipZip, Goto, RunState
    <3> QED BY <3>1, WrittenQuiet DEF WrittenInv, ZipsWhole, RowPcs, db
  <2>2. CASE AcceptZip(b)
    <3>1. /\ run'.pc = "sum" /\ run'.page = run.page /\ run'.cur = b
          /\ UNCHANGED <<disk, db>>
      BY <2>2 DEF AcceptZip, Goto, RunState
    <3>2. file[b][InitLoc].kind = "whole"
      BY <2>2 DEF AcceptZip, DeepCheck, Plain
    <3>3. InRows' = InRows
      BY <3>1 DEF InRows, Registered, db
    <3> QED BY <3>1, <3>2, <3>3
            DEF WrittenInv, ZipsWhole, TargetOpen, RowsWritten, OkMeansWritten, RowPcs, disk, db
  <2> QED BY <1>1, <2>1, <2>2, WrittenFails DEF WalkZip, RejectZip
<1>2. CASE SumZip
  <2> DEFINE next == [run EXCEPT !.pc = "insert", !.hash = Digest(file[run.cur][InitLoc])]
  <2>1. CASE Goto(next)
    <3>1. /\ run'.pc = "insert" /\ run'.page = run.page /\ run'.cur = run.cur
          /\ UNCHANGED <<disk, db>>
      BY <2>1 DEF Goto, RunState
    <3>2. InRows' = InRows
      BY <3>1 DEF InRows, Registered, db
    <3> QED BY <1>2, <3>1, <3>2
            DEF SumZip, WrittenInv, ZipsWhole, TargetOpen, RowsWritten, OkMeansWritten, RowPcs, disk, db
  <2> QED BY <1>2, <2>1, WrittenFails DEF SumZip
<1>3. CASE InsertBagit
  <2>1. CASE InsertRow
    <3>1. run.cur \in Bagits /\ file[run.cur][InitLoc].kind = "whole"
      BY <1>3 DEF InsertBagit, Holds, AtBagit, WrittenInv, ZipsWhole
    <3>2. InRows' = InRows \cup {run.cur}
      BY <2>1, <3>1 DEF InsertRow, InRows, Registered, TablesOK
    <3>3. run'.pc = "init" /\ run'.page = run.page /\ UNCHANGED <<disk, transfer>>
      BY <2>1 DEF InsertRow, RunState
    <3>4. run'.page \in Seq([name : InRows', aes : Content])
      <4>1. [name : InRows, aes : Content] \subseteq [name : InRows', aes : Content]
        BY <3>2
      <4> QED BY <3>3, <4>1, SeqMonotonic DEF WrittenInv, ZipsWhole
    <3> QED BY <3>1, <3>2, <3>3, <3>4
            DEF WrittenInv, ZipsWhole, TargetOpen, RowsWritten, OkMeansWritten, RowPcs, disk
  <2> QED BY <1>3, <2>1, WrittenFails DEF InsertBagit, DuplicateRow
<1>4. CASE StoreInitLocation
  <2>1. CASE StoreInitRow
    <3>1. /\ run'.pc = "content" /\ run'.page = run.page /\ UNCHANGED <<disk, rows>>
      BY <2>1 DEF StoreInitRow, RunState
    <3>2. \A b \in Bagits, l \in Locations \ {InitLoc} : transfer'[b][l] = transfer[b][l]
      BY <2>1 DEF StoreInitRow, StatusOK
    <3>3. InRows' = InRows
      BY <3>1 DEF InRows, Registered
    <3> QED BY <3>1, <3>2, <3>3
            DEF WrittenInv, ZipsWhole, TargetOpen, RowsWritten, OkMeansWritten, RowPcs, disk
  <2> QED BY <1>4, <2>1, WrittenFails DEF StoreInitLocation
<1>5. CASE AddContent
  <2>1. run'.pc = "content" /\ run'.page = run.page /\ UNCHANGED <<disk, rows, transfer>>
    BY <1>5 DEF AddContent, RunState
  <2> QED BY <2>1, WrittenQuiet DEF WrittenInv, ZipsWhole, RowPcs
<1>6. CASE ZipDone
  <2>1. run'.pc = "walk" /\ run'.page = run.page /\ UNCHANGED <<disk, db>>
    BY <1>6 DEF ZipDone, Goto, RunState
  <2> QED BY <2>1, WrittenQuiet DEF WrittenInv, ZipsWhole, RowPcs, db
<1>7. CASE WalkDone
  <2>1. run'.pc = "count" /\ run'.page = <<>> /\ UNCHANGED <<disk, db>>
    BY <1>7 DEF WalkDone, EnterPhase, Idle, Goto
  <2> QED BY <2>1, WrittenQuiet DEF RowPcs, db
<1> QED BY <1>1, <1>2, <1>3, <1>4, <1>5, <1>6, <1>7 DEF IngestStep

LEMMA PageKeepsWritten ==
    ASSUME TypeInv, WrittenInv, PageStep
    PROVE  WrittenInv'
<1> USE DEF TypeInv, TypeOK
<1>1. run.page \in Seq([name : InRows, aes : Content])
  BY DEF WrittenInv, ZipsWhole
<1>2. CASE CountRows
  <2>1. CASE Goto([run EXCEPT !.pc = "load", !.n = Len(rows), !.start = 0])
    <3>1. run'.pc = "load" /\ run'.page = run.page /\ UNCHANGED <<disk, db>>
      BY <2>1 DEF Goto, RunState
    <3> QED BY <1>1, <3>1, WrittenQuiet DEF RowPcs, db
  <2> QED BY <1>2, <2>1, WrittenFails DEF CountRows
<1>3. CASE LoadPage
  <2>1. \A page : WithPage(page).pc = "next" /\ WithPage(page).page = page
    BY DEF WithPage, RunState
  <2>2. Page(run.start) \in Seq([name : InRows, aes : Content])
    BY PageOf, RowsOfInRows DEF InRows, RunState
  <2>3. CASE Goto(WithPage(Page(run.start)))
    BY <2>1, <2>2, <2>3, WrittenQuiet DEF Goto, RowPcs, db
  <2>4. CASE CutPage
    <3>1. PICK cut \in 0 .. Len(Page(run.start)) :
               run' = WithPage(SubSeq(Page(run.start), 1, cut))
      BY <2>4 DEF CutPage
    <3>2. SubSeq(Page(run.start), 1, cut) \in Seq([name : InRows, aes : Content])
      BY <2>2, SeqPrefix
    <3> QED BY <2>1, <2>4, <3>1, <3>2, WrittenQuiet DEF CutPage, RowPcs, db
  <2>5. CASE Goto(NextPhase)
    <3>1. NextPhase.pc \in {"idle", "count"} /\ NextPhase.page = <<>>
      BY DEF NextPhase, EnterPhase, Idle
    <3> QED BY <2>5, <3>1, WrittenQuiet DEF Goto, RowPcs, db
  <2> QED BY <1>3, <2>3, <2>4, <2>5, WrittenFails DEF LoadPage, ReadPage, PagesDone
<1>4. CASE EndOfPage
  <2>1. run'.pc = "load" /\ run'.page = run.page /\ UNCHANGED <<disk, db>>
    BY <1>4 DEF EndOfPage, Goto, RunState
  <2> QED BY <1>1, <2>1, WrittenQuiet DEF RowPcs, db
<1> QED BY <1>2, <1>3, <1>4 DEF PageStep

\* A step inside the transfer of one bagit to one location: only the file of
\* that location can change, and it has no "ok" row.
LEMMA WrittenInside ==
    ASSUME TypeInv, WrittenInv, run.pc \in RowPcs,
           UNCHANGED <<rows, transfer>>,
           \A b \in Bagits, l \in Locations :
               file'[b][l] = file[b][l] \/ (b = run.cur /\ l = run.loc),
           run'.pc \in RowPcs, run'.cur = run.cur, run'.loc = run.loc,
           run'.locs = run.locs, run'.page = run.page,
           run'.pc \in RowPcs \ {"open", "verify", "store"} => run.cur \notin Nested,
           run'.pc \in {"verify", "store"} => file'[run.cur][run.loc].kind = "whole"
    PROVE  WrittenInv'
<1>1. InRows' = InRows
  BY DEF InRows, Registered
<1>2. /\ run.cur \in InRows /\ run.loc # InitLoc
      /\ "dbread" \notin FaultKinds => transfer[run.cur][run.loc] # "ok"
  BY DEF WrittenInv, ZipsWhole, TargetOpen
<1>3. ZipsWhole'
  BY <1>1, <1>2, LocationsAssumption DEF WrittenInv, ZipsWhole, RowPcs, InRows
<1>4. TargetOpen'
  BY <1>2 DEF WrittenInv, TargetOpen, RowPcs
<1>5. RowsWritten'
  BY <1>2 DEF WrittenInv, RowsWritten, OkMeansWritten
<1> QED BY <1>3, <1>4, <1>5 DEF WrittenInv

LEMMA KeyStepsKeepWritten ==
    ASSUME TypeInv, WrittenInv, GetKey \/ SetKey \/ GetIV \/ SetIV \/ NewCipher
    PROVE  WrittenInv'
<1> USE DEF TypeInv, TypeOK
<1>1. run.pc \in RowPcs \ {"open", "verify", "store"}
  BY DEF GetKey, SetKey, GetIV, SetIV, NewCipher, RowPcs
<1>2. run.cur \notin Nested
  BY <1>1 DEF WrittenInv, TargetOpen
<1>3. ASSUME UNCHANGED <<file, rows, transfer>>,
             run'.pc \in {"setkey", "getiv", "setiv", "cipher", "create"},
             run'.cur = run.cur, run'.loc = run.loc, run'.locs = run.locs,
             run'.page = run.page
      PROVE  WrittenInv'
  BY <1>1, <1>2, <1>3, WrittenInside DEF RowPcs
<1>4. ErrorRow => WrittenInv'
  BY <1>1, WrittenErrorRow
<1>5. CASE GetKey
  BY <1>3, <1>5 DEF GetKey, Goto, RunState, disk, db
<1>6. CASE SetKey
  <2>1. ASSUME NEW k \in Keys, WriteKey(k) PROVE WrittenInv'
    BY <1>3, <2>1 DEF WriteKey, RunState, db
  <2>2. CASE TearKey
    <3>1. /\ run'.pc = "idle" /\ run'.page = <<>> /\ UNCHANGED <<file, rows, transfer>>
      BY <2>2 DEF TearKey, Exit, Idle, db
    <3>2. InRows' = InRows
      BY <3>1 DEF InRows, Registered
    <3> QED BY <3>1, <3>2 DEF WrittenInv, ZipsWhole, TargetOpen, RowsWritten, OkMeansWritten, RowPcs
  <2> QED BY <1>6, <2>1, <2>2, WrittenFails DEF SetKey
<1>7. CASE GetIV
  BY <1>3, <1>7 DEF GetIV, Goto, RunState, disk, db
<1>8. CASE SetIV
  <2>1. ASSUME NEW i \in IVs, WriteIV(i) PROVE WrittenInv'
    BY <1>3, <2>1 DEF WriteIV, RunState, db
  <2>2. CASE TearIV
    <3>1. /\ run'.pc = "idle" /\ run'.page = <<>> /\ UNCHANGED <<file, rows, transfer>>
      BY <2>2 DEF TearIV, Exit, Idle, db
    <3>2. InRows' = InRows
      BY <3>1 DEF InRows, Registered
    <3> QED BY <3>1, <3>2 DEF WrittenInv, ZipsWhole, TargetOpen, RowsWritten, OkMeansWritten, RowPcs
  <2> QED BY <1>8, <2>1, <2>2, WrittenFails DEF SetIV
<1>9. CASE NewCipher
  <2>1. CASE Goto([run EXCEPT !.pc = "create"])
    BY <1>3, <2>1 DEF Goto, RunState, disk, db
  <2> QED BY <1>4, <1>9, <2>1, WrittenFails DEF NewCipher
<1> QED BY <1>5, <1>6, <1>7, <1>8, <1>9

LEMMA CopyStepsKeepWritten ==
    ASSUME TypeInv, WrittenInv,
           OpenSource \/ CreateTarget \/ CopyStream \/ VerifyStream \/ StoreOk
    PROVE  WrittenInv'
<1> USE DEF TypeInv, TypeOK
<1>1. run.pc \in RowPcs /\ run.cur \in Bagits /\ run.loc \in Locations
  BY DEF OpenSource, CreateTarget, CopyStream, VerifyStream, StoreOk, Holds, AtLocation, RowPcs
<1>2. /\ run.cur \in InRows /\ run.loc # InitLoc
      /\ file[run.cur][InitLoc].kind = "whole"
  BY <1>1 DEF WrittenInv, ZipsWhole, TargetOpen
<1>3. ErrorRow => WrittenInv'
  BY <1>1, WrittenErrorRow
<1>4. ASSUME NEW bytes, NEW next, WriteTarget(bytes, next)
      PROVE  /\ file'[run.cur][run.loc] = bytes
             /\ \A b \in Bagits, l \in Locations :
                   file'[b][l] = file[b][l] \/ (b = run.cur /\ l = run.loc)
             /\ run' = next /\ UNCHANGED <<rows, transfer>>
  BY <1>1, <1>4 DEF WriteTarget, DiskOK, db
<1>5. CASE OpenSource
  <2>1. CASE /\ At(run.cur, InitLoc) # Absent
             /\ Goto([run EXCEPT !.pc = IF run.loc \in Encrypted THEN "getkey" ELSE "create"])
    <3>1. run.cur \notin Nested
      BY <2>1 DEF At
    <3>2. /\ run'.pc \in {"getkey", "create"} /\ run'.cur = run.cur /\ run'.loc = run.loc
          /\ run'.locs = run.locs /\ run'.page = run.page /\ UNCHANGED <<disk, db>>
      BY <2>1 DEF Goto, RunState
    <3> QED BY <1>1, <3>1, <3>2, WrittenInside DEF RowPcs, disk, db
  <2> QED BY <1>3, <1>5, <2>1, WrittenFails DEF OpenSource
<1>6. CASE CreateTarget
  <2> DEFINE next == [run EXCEPT !.pc = "copy"]
  <2>1. CASE WriteTarget(Partial, next)
    <3>1. run.cur \notin Nested
      BY <1>6 DEF CreateTarget, WrittenInv, TargetOpen, RowPcs
    <3>2. run' = next
      BY <1>4, <2>1
    <3>3. /\ run'.pc = "copy" /\ run'.cur = run.cur /\ run'.loc = run.loc
          /\ run'.locs = run.locs /\ run'.page = run.page
      BY <3>2 DEF RunState
    <3> QED BY <1>1, <1>4, <2>1, <3>1, <3>3, WrittenInside DEF RowPcs
  <2> QED BY <1>3, <1>6, <2>1, WrittenFails DEF CreateTarget
<1>7. CASE CopyStream
  <2> DEFINE next == [run EXCEPT !.pc = "verify", !.hash = Digest(Stream)]
  <2>1. CASE WriteTarget(Stream, next)
    <3>1. run.cur \notin Nested
      BY <1>7 DEF CopyStream, WrittenInv, TargetOpen, RowPcs
    <3>2. Stream.kind = "whole"
      <4>1. At(run.cur, InitLoc) = file[run.cur][InitLoc]
        BY <3>1 DEF At
      <4>2. file[run.cur][InitLoc] \in Content
        BY <1>1, LocationsAssumption DEF DiskOK
      <4> QED BY <1>2, <4>1, <4>2 DEF Stream, Content
    <3>3. run' = next
      BY <1>4, <2>1
    <3>4. /\ run'.pc = "verify" /\ run'.cur = run.cur /\ run'.loc = run.loc
          /\ run'.locs = run.locs /\ run'.page = run.page
      BY <3>3 DEF RunState
    <3> QED BY <1>1, <1>4, <2>1, <3>2, <3>4, WrittenInside DEF RowPcs
  <2> QED BY <1>3, <1>7, <2>1 DEF CopyStream
\* Back to the loop over the locations.
<1>8. ASSUME run' = NextLocation, UNCHANGED <<disk, rows>>,
             \A b \in Bagits, l \in Locations :
                 transfer'[b][l] = transfer[b][l] \/ (b = run.cur /\ l = run.loc),
             transfer'[run.cur][run.loc] = "ok" => file[run.cur][run.loc].kind = "whole"
      PROVE  WrittenInv'
  <2>1. /\ run'.pc = "target" /\ run'.cur = run.cur /\ run'.page = run.page
        /\ run'.locs = run.locs
    BY <1>8 DEF NextLocation, RunState
  <2>2. InRows' = InRows
    BY <1>8 DEF InRows, Registered
  <2>3. ZipsWhole'
    BY <1>2, <1>8, <2>1, <2>2 DEF WrittenInv, ZipsWhole, RowPcs, disk
  <2>4. TargetOpen'
    BY <1>1, <2>1 DEF WrittenInv, TargetOpen, RowPcs
  <2>5. RowsWritten'
    BY <1>8 DEF WrittenInv, RowsWritten, OkMeansWritten, disk
  <2> QED BY <2>3, <2>4, <2>5 DEF WrittenInv
<1>9. CASE VerifyStream
  <2>1. file[run.cur][run.loc].kind = "whole"
    BY <1>9 DEF VerifyStream, WrittenInv, TargetOpen
  <2>2. ASSUME UNCHANGED <<disk, rows, transfer>>, run'.pc = "store",
               run'.cur = run.cur, run'.loc = run.loc, run'.locs = run.locs,
               run'.page = run.page
        PROVE  WrittenInv'
    BY <1>1, <2>1, <2>2, WrittenInside DEF RowPcs, disk
  <2>3. CASE RecordDigest
    BY <2>2, <2>3 DEF RecordDigest, RunState
  <2>4. CASE Goto([run EXCEPT !.pc = "store"])
    BY <2>2, <2>4 DEF Goto, RunState, db
  <2>5. CASE Goto(NextLocation)
    BY <1>8, <2>1, <2>5 DEF Goto, db
  <2> QED BY <1>9, <2>3, <2>4, <2>5 DEF VerifyStream, CompareDigest
<1>10. CASE StoreOk
  <2>1. file[run.cur][run.loc].kind = "whole"
    BY <1>10 DEF StoreOk, WrittenInv, TargetOpen
  <2>2. CASE OkRow
    <3>1. \A b \in Bagits, l \in Locations :
             transfer'[b][l] = transfer[b][l] \/ (b = run.cur /\ l = run.loc)
      BY <1>1, <2>2 DEF OkRow, SetRow, StatusOK
    <3> QED BY <1>8, <2>1, <2>2, <3>1 DEF OkRow
  <2> QED BY <1>10, <2>2, WrittenFails DEF StoreOk
<1> QED BY <1>5, <1>6, <1>7, <1>9, <1>10

LEMMA TransferKeepsWritten ==
    ASSUME TypeInv, WrittenInv, TransferStep
    PROVE  WrittenInv'
<1> USE DEF TypeInv, TypeOK
<1>1. CASE LoadSource
  <2>1. CASE Fails("dbread")
    BY <2>1, WrittenFails
  <2>2. CASE \E source : BeginBagit("target", source, run.known \ {InitLoc})
    <3>1. /\ run'.pc = "target" /\ run'.cur = Head(run.page).name
          /\ run'.page = Tail(run.page) /\ run'.locs = run.known \ {InitLoc}
          /\ UNCHANGED <<disk, db>>
      BY <2>2, BeginBagitFrame
    <3>2. /\ Head(run.page) \in [name : InRows, aes : Content]
          /\ Tail(run.page) \in Seq([name : InRows, aes : Content])
      BY <1>1, SeqTail DEF LoadSource, HasBagit, WrittenInv, ZipsWhole
    <3>3. InRows' = InRows
      BY <3>1 DEF InRows, Registered, db
    <3>4. ZipsWhole'
      BY <3>1, <3>2, <3>3 DEF WrittenInv, ZipsWhole, disk
    <3> QED BY <3>1, <3>4 DEF WrittenInv, TargetOpen, RowsWritten, OkMeansWritten, RowPcs, disk, db
  <2> QED BY <1>1, <2>1, <2>2 DEF LoadSource
<1>2. CASE TransferDone
  <2>1. run'.pc = "next" /\ run'.page = run.page /\ UNCHANGED <<disk, db>>
    BY <1>2 DEF TransferDone, EndBagit, Goto, RunState
  <2> QED BY <2>1, WrittenQuiet DEF WrittenInv, ZipsWhole, RowPcs, db
<1>3. ASSUME NEW l \in Locations, NextTarget(l) PROVE WrittenInv'
  <2>1. run.cur \in InRows /\ InitLoc \notin run.locs
    BY <1>3 DEF NextTarget, WrittenInv, ZipsWhole, TargetOpen
  <2>2. /\ UNCHANGED <<disk, db>> /\ run'.page = run.page /\ run'.cur = run.cur
        /\ run'.locs = run.locs \ {l}
        /\ \/ run'.pc = "target"
           \/ run'.pc = "open" /\ run'.loc = l
              /\ ("dbread" \notin FaultKinds => transfer[run.cur][l] # "ok")
    <3>1. CASE SkipTarget(l)
      BY <1>3, <3>1 DEF NextTarget, SkipTarget, Goto, RunState
    <3>2. CASE PickTarget(l)
      BY <3>2 DEF PickTarget, Fault, Exists, RunState
    <3> QED BY <1>3, <3>1, <3>2 DEF NextTarget
  <2>3. InRows' = InRows
    BY <2>2 DEF InRows, Registered, db
  <2>4. ZipsWhole'
    BY <2>1, <2>2, <2>3 DEF WrittenInv, ZipsWhole, disk
  <2>5. TargetOpen'
    BY <1>3, <2>1, <2>2 DEF NextTarget, TargetOpen, RowPcs, db
  <2> QED BY <2>2, <2>4, <2>5 DEF WrittenInv, RowsWritten, OkMeansWritten, disk, db
<1> QED BY <1>1, <1>2, <1>3, KeyStepsKeepWritten, CopyStepsKeepWritten DEF TransferStep

LEMMA CheckKeepsWritten ==
    ASSUME TypeInv, WrittenInv, CheckStep
    PROVE  WrittenInv'
<1>1. run'.page \in Seq([name : InRows, aes : Content])
  <2>1. /\ run.page \in Seq([name : InRows, aes : Content])
        /\ run.page # <<>> => Tail(run.page) \in Seq([name : InRows, aes : Content])
    BY SeqTail DEF WrittenInv, ZipsWhole
  <2>2. run'.page = <<>> \/ run'.page = run.page \/ (run.page # <<>> /\ run'.page = Tail(run.page))
    <3> USE DEF TypeInv, TypeOK, Goto, RunState
    <3>1. (Abort => run'.page = <<>>) /\ \A kind : Fails(kind) => run'.page = <<>>
      BY DEF Abort, Fails, Exit, Idle
    <3>2. CASE BeginChecks
      BY <3>2 DEF BeginChecks, HasBagit, BeginBagit
    <3>3. CASE ChecksDone
      BY <3>3 DEF ChecksDone, EndBagit
    <3>4. ASSUME NEW l \in Locations, NextTest(l)
          PROVE  run'.page = <<>> \/ run'.page = run.page
      BY <3>1, <3>4 DEF NextTest
    <3>5. CASE ReadCopy
      BY <3>5 DEF ReadCopy
    <3>6. CASE StoreResult
      BY <3>1, <3>6 DEF StoreResult, TestRow
    <3> QED BY <3>2, <3>3, <3>4, <3>5, <3>6 DEF CheckStep
  <2>3. <<>> \in Seq([name : InRows, aes : Content])
    OBVIOUS
  <2> QED BY <2>1, <2>2, <2>3
<1> QED BY <1>1, CheckFrame, WrittenQuiet DEF RowPcs

LEMMA EnvironmentKeepsWritten ==
    ASSUME TypeInv, WrittenInv, Environment
    PROVE  WrittenInv'
<1> USE DEF TypeInv, TypeOK
<1>1. UNCHANGED <<rows, transfer, run>>
  BY DEF Environment, BeginUpload, EndUpload, Damage, Expire, db
<1>2. \A b \in Bagits, l \in Locations : file[b][l].kind = "whole" => file'[b][l].kind = "whole"
  BY LocationsAssumption
     DEF Environment, BeginUpload, EndUpload, Damage, Expire, disk, DiskOK, Plain, Partial, Absent
<1>3. InRows' = InRows
  BY <1>1 DEF InRows, Registered
<1>4. /\ run.pc \in RowPcs \cup {"sum", "insert", "target"} => run.cur \in Bagits
      /\ run.pc \in RowPcs => run.loc \in Locations
  BY DEF Holds, AtBagit, AtLocation, RowPcs
<1>5. ZipsWhole'
  BY <1>1, <1>2, <1>3, <1>4, LocationsAssumption DEF WrittenInv, ZipsWhole, InRows
<1>6. TargetOpen'
  BY <1>1, <1>2, <1>4 DEF WrittenInv, TargetOpen, RowPcs
<1> QED BY <1>1, <1>2, <1>5, <1>6 DEF WrittenInv, RowsWritten, OkMeansWritten

LEMMA InitWritten == Init => WrittenInv
BY DEF Init, Idle, WrittenInv, ZipsWhole, TargetOpen, RowsWritten, OkMeansWritten, InRows, Registered,
       RowPcs, None

LEMMA NextKeepsWritten ==
    ASSUME TypeInv, WrittenInv, [Next]_vars
    PROVE  WrittenInv'
<1>1. CASE UNCHANGED vars
  BY <1>1 DEF vars, disk, db, WrittenInv, ZipsWhole, TargetOpen, RowsWritten, OkMeansWritten, InRows,
              Registered
<1>2. CASE StartRun
  <2>1. <<>> \in Seq([name : InRows, aes : Content])
    OBVIOUS
  <2> QED BY <1>2, <2>1, StartFrame, WrittenQuiet DEF RowPcs, db
<1>3. CASE Crash
  BY <1>3, WrittenFails DEF Crash
<1> QED BY <1>1, <1>2, <1>3, IngestKeepsWritten, PageKeepsWritten, TransferKeepsWritten,
           CheckKeepsWritten, EnvironmentKeepsWritten DEF Next, Step

\* No run, crash, failed statement or decay leaves an "ok" row next to a file
\* that is missing or half written, provided Exists can read the row it looks
\* for: Transfer drops the error of Exists.
THEOREM WrittenCorrect ==
    ASSUME "dbread" \notin FaultKinds
    PROVE  Spec => []OkMeansWritten
<1>1. TypeInv /\ WrittenInv /\ [Next]_vars => WrittenInv'
  BY NextKeepsWritten
<1>2. WrittenInv => OkMeansWritten
  BY DEF WrittenInv, RowsWritten
<1> QED BY <1>1, <1>2, InitType, NextType, InitWritten, PTL DEF Spec

(***************************************************************************)
(* The same invariant keeps the program away from what is archived: it     *)
(* writes only at the location in hand, and that has no "ok" row.          *)
(***************************************************************************)
OnlyInHand ==
    \A b \in Bagits, l \in Locations \ {InitLoc} :
        \/ UNCHANGED <<file[b][l], transfer[b][l]>>
        \/ run.pc \in RowPcs /\ b = run.cur /\ l = run.loc

LEMMA IngestOnlyInHand == ASSUME TypeInv, IngestStep PROVE OnlyInHand
<1> USE FailsFrame DEF TypeInv, TypeOK, StatusOK, Goto
<1>1. ASSUME NEW b \in Bagits, WalkZip(b) PROVE UNCHANGED transfer
  BY <1>1 DEF WalkZip, SkipZip, AcceptZip, RejectZip, db
<1>2. CASE SumZip
  BY <1>2, IngestFrame DEF SumZip, OnlyInHand, disk, db
<1>3. CASE InsertBagit
  BY <1>3, IngestFrame DEF InsertBagit, InsertRow, DuplicateRow, Abort, OnlyInHand, disk, db
<1>4. CASE StoreInitLocation
  BY <1>4, IngestFrame DEF StoreInitLocation, StoreInitRow, OnlyInHand, disk, db
<1>5. CASE AddContent
  BY <1>5, IngestFrame DEF AddContent, OnlyInHand, disk
<1>6. CASE ZipDone \/ WalkDone
  BY <1>6, IngestFrame DEF ZipDone, WalkDone, OnlyInHand, disk, db
<1> QED BY <1>1, <1>2, <1>3, <1>4, <1>5, <1>6, IngestFrame DEF IngestStep, OnlyInHand, disk

LEMMA TransferOnlyInHand == ASSUME TypeInv, TransferStep PROVE OnlyInHand
<1> USE FailsFrame DEF TypeInv, TypeOK, DiskOK, StatusOK, Goto
<1>1. CASE LoadSource \/ TransferDone
  BY <1>1 DEF LoadSource, TransferDone, BeginBagit, EndBagit, OnlyInHand, disk, db
<1>2. ASSUME NEW l \in Locations, NextTarget(l) PROVE OnlyInHand
  BY <1>2 DEF NextTarget, SkipTarget, PickTarget, OnlyInHand, disk, db
<1>3. SUFFICES ASSUME OpenSource \/ GetKey \/ SetKey \/ GetIV \/ SetIV \/ NewCipher
                      \/ CreateTarget \/ CopyStream \/ VerifyStream \/ StoreOk
               PROVE  OnlyInHand
  BY <1>1, <1>2 DEF TransferStep
<1>4. run.pc \in RowPcs /\ run.cur \in Bagits /\ run.loc \in Locations
  BY <1>3 DEF OpenSource, GetKey, SetKey, GetIV, SetIV, NewCipher, CreateTarget, CopyStream,
              VerifyStream, StoreOk, Holds, AtLocation, RowPcs
<1>5. UNCHANGED <<file, transfer>> => OnlyInHand
  BY DEF OnlyInHand
<1>6. \A status : UNCHANGED file /\ SetRow(status) => OnlyInHand
  BY <1>4 DEF SetRow, OnlyInHand
<1>7. ErrorRow => OnlyInHand
  BY <1>5, <1>6 DEF ErrorRow, disk
<1>8. \A bytes, next : WriteTarget(bytes, next) => OnlyInHand
  BY <1>4 DEF WriteTarget, OnlyInHand, db
<1>9. CASE OpenSource \/ GetKey \/ GetIV \/ NewCipher
  BY <1>5, <1>7, <1>9 DEF OpenSource, GetKey, GetIV, NewCipher, disk, db
<1>10. CASE SetKey \/ SetIV
  BY <1>5, <1>10 DEF SetKey, SetIV, WriteKey, TearKey, WriteIV, TearIV, disk, db
<1>11. CASE CreateTarget \/ CopyStream
  BY <1>5, <1>7, <1>8, <1>11 DEF CreateTarget, CopyStream, disk, db
<1>12. CASE VerifyStream
  BY <1>5, <1>12 DEF VerifyStream, RecordDigest, CompareDigest, disk, db
<1>13. CASE StoreOk
  BY <1>5, <1>6, <1>13 DEF StoreOk, OkRow, disk, db
<1> QED BY <1>3, <1>9, <1>10, <1>11, <1>12, <1>13

LEMMA EnvironmentIsFinal ==
    ASSUME TypeInv, Environment, NEW b \in Bagits, NEW l \in Locations \ {InitLoc},
           file'[b][l] # file[b][l]
    PROVE  UNCHANGED run /\ file'[b][l].ver = faults'
<1> USE DEF TypeInv, TypeOK, DiskOK
<1>1. ASSUME NEW c \in Bagits, NEW m \in Locations, Damage(c, m)
      PROVE  UNCHANGED run /\ file'[b][l].ver = faults'
  <2>1. c = b /\ m = l
    BY <1>1 DEF Damage
  <2> QED BY <1>1, <2>1 DEF Damage, Plain
<1>2. ASSUME NEW c \in Bagits, BeginUpload(c) \/ EndUpload(c) \/ \E m \in Locations : Expire(c, m)
      PROVE  FALSE
  BY <1>2, LocationsAssumption DEF BeginUpload, EndUpload, Expire, disk
<1> QED BY <1>1, <1>2 DEF Environment

LEMMA NextIsFinal ==
    ASSUME "dbread" \notin FaultKinds, TypeInv, WrittenInv, [Next]_vars,
           NEW b \in Bagits, NEW l \in Locations \ {InitLoc}, transfer[b][l] = "ok"
    PROVE  /\ transfer'[b][l] = "ok"
           /\ file'[b][l] # file[b][l] => UNCHANGED run /\ file'[b][l].ver = faults'
<1>1. CASE UNCHANGED vars \/ StartRun \/ PageStep \/ CheckStep \/ Crash
  BY <1>1, StartFrame, PageFrame, CheckFrame, FailsFrame DEF vars, disk, db, Crash
<1>2. CASE Environment
  BY <1>2, EnvironmentIsFinal DEF Environment, BeginUpload, EndUpload, Damage, Expire, db
<1>3. CASE IngestStep \/ TransferStep
  <2>1. ~ (run.pc \in RowPcs /\ b = run.cur /\ l = run.loc)
    BY DEF WrittenInv, TargetOpen
  <2>2. OnlyInHand
    BY <1>3, IngestOnlyInHand, TransferOnlyInHand
  <2> QED BY <2>1, <2>2 DEF OnlyInHand
<1> QED BY <1>1, <1>2, <1>3 DEF Next, Step

\* The program never takes an "ok" row back and never writes to its file
\* again (Exists and the O_TRUNC of Transfer), provided Exists can read.
THEOREM FinalCorrect ==
    ASSUME "dbread" \notin FaultKinds
    PROVE  Spec => ArchivedIsFinal
<1>1. TypeInv /\ WrittenInv /\ [Next]_vars => WrittenInv'
  BY NextKeepsWritten
<1>2. TypeInv /\ WrittenInv /\ [Next]_vars =>
         [\A b \in Bagits, l \in Locations \ {InitLoc} :
            transfer[b][l] = "ok" =>
              /\ transfer'[b][l] = "ok"
              /\ file'[b][l] # file[b][l] => UNCHANGED run /\ file'[b][l].ver = faults']_vars
  BY NextIsFinal
<1> QED BY <1>1, <1>2, InitType, NextType, InitWritten, PTL DEF Spec, ArchivedIsFinal
=============================================================================
