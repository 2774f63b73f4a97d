----------------------------- MODULE IngestWalk -----------------------------
(***************************************************************************)
(* Ingest.Ingest: walk the initial location, check every zip the database  *)
(* does not know and enter it, one SQL statement after the other and with  *)
(* no transaction around them.                                             *)
(***************************************************************************)
EXTENDS Archive

\* checker.Check of the gocfl bagit package: every checksum of the manifest fits.
DeepCheck(b) == file[b][InitLoc] = Plain(0)

\* bagitLoad finds the name: the file is left alone.
SkipZip(b) ==
    /\ Registered(b)
    /\ Goto([run EXCEPT !.todo = @ \ {b}])

AcceptZip(b) ==
    /\ ~ Registered(b)
    /\ DeepCheck(b)
    /\ Goto([run EXCEPT !.pc = "sum", !.todo = @ \ {b}, !.cur = b])

\* The error of one zip is the error of the walk.
RejectZip(b) ==
    /\ ~ Registered(b)
    /\ ~ DeepCheck(b)
    /\ Abort

\* io stands for the folder that cannot be listed, the file that cannot be
\* stat'ed, and the temporary folder and badger database of the checker.
WalkZip(b) ==
    /\ run.pc = "walk"
    /\ b \in run.todo
    /\ SkipZip(b) \/ AcceptZip(b) \/ RejectZip(b) \/ Fails("dbread") \/ Fails("io")

SumZip ==
    /\ run.pc = "sum"
    /\ \/ Goto([run EXCEPT !.pc = "insert", !.hash = Digest(file[run.cur][InitLoc])])
       \/ Fails("io")

InsertRow ==
    /\ rows' = Append(rows, run.cur)
    /\ sha' = [sha EXCEPT ![run.cur] = run.hash]
    /\ run' = [run EXCEPT !.pc = "init", !.hash = NoDigest]
    /\ NoFault
    /\ UNCHANGED <<disk, aes, content, transfer, test, fresh>>

InsertAnyRow == run.pc = "insert" /\ (InsertRow \/ Fails("dbwrite"))

\* The unique key of table bagit: a run that overlaps this one was faster.
DuplicateRow == Registered(run.cur) /\ Abort

InsertBagit ==
    /\ run.pc = "insert"
    /\ \/ ~ Registered(run.cur) /\ InsertRow
       \/ DuplicateRow
       \/ Fails("dbwrite")

StoreInitRow ==
    /\ transfer' = [transfer EXCEPT ![run.cur][InitLoc] = "ok"]
    /\ run' = [run EXCEPT !.pc = "content", !.left = NumContent]
    /\ NoFault
    /\ UNCHANGED <<disk, rows, sha, aes, content, test, fresh>>

StoreInitLocation == run.pc = "init" /\ (StoreInitRow \/ Fails("dbwrite"))

\* The error of AddContent is not looked at.
AddContent ==
    /\ run.pc = "content"
    /\ run.left > 0
    /\ \/ NoFault /\ content' = [content EXCEPT ![run.cur] = @ + 1]
       \/ Fault("dbwrite") /\ UNCHANGED content
    /\ run' = [run EXCEPT !.left = @ - 1]
    /\ UNCHANGED <<disk, rows, sha, aes, transfer, test, fresh>>

ZipDoneEarly ==
    /\ run.pc = "content"
    /\ run.left <= 1
    /\ Goto([run EXCEPT !.pc = "walk", !.cur = None, !.left = 0])

ZipDone ==
    /\ run.pc = "content"
    /\ run.left = 0
    /\ Goto([run EXCEPT !.pc = "walk", !.cur = None])

WalkDone ==
    /\ run.pc = "walk"
    /\ run.todo = {}
    /\ Goto(EnterPhase("transfer", "count"))

IngestStep ==
    \/ \E b \in Bagits : WalkZip(b)
    \/ SumZip \/ InsertBagit \/ StoreInitLocation
    \/ AddContent \/ ZipDone \/ WalkDone
=============================================================================
