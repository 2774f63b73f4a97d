---------------------------- MODULE FixityCheck ----------------------------
(***************************************************************************)
(* Ingest.Check and IngestBagitTestLocation.Test: every bagit is read back *)
(* from every location, the initial one included, unless a test passed     *)
(* there within the interval of the location.                              *)
(***************************************************************************)
EXTENDS BagitPages

BeginChecks == HasBagit("check") /\ BeginBagit("test", FALSE, run.known)

ChecksDone ==
    /\ run.pc = "test"
    /\ run.locs = {}
    /\ EndBagit

TestNeededOnce(b, l) == test[b][l] = None
TestNeeded(b, l) == ~ fresh[b][l]

NextTest(l) ==
    /\ run.pc = "test"
    /\ l \in run.locs
    /\ \/ ~ TestNeeded(run.cur, l) /\ Goto([run EXCEPT !.locs = @ \ {l}])
       \/ TestNeeded(run.cur, l) /\ l \in Unsupported /\ Abort
       \/ /\ TestNeeded(run.cur, l)
          /\ l \notin Unsupported
          /\ Goto([run EXCEPT !.pc = "read", !.locs = @ \ {l}, !.loc = l])
       \/ Fails("dbread")

\* A file that cannot be read leaves the checksum empty; the test goes on.
ReadCopy ==
    /\ run.pc = "read"
    /\ \/ Goto([run EXCEPT !.pc = "result", !.hash = Digest(At(run.cur, run.loc))])
       \/ /\ Fault("io")
          /\ run' = [run EXCEPT !.pc = "result", !.hash = NoDigest]
          /\ UNCHANGED <<disk, db>>

TargetChecksum == IF run.loc \in Encrypted THEN run.aes ELSE sha[run.cur]

VerdictOk == IF run.hash = TargetChecksum /\ TargetChecksum # NoDigest
             THEN "ok" ELSE "failed"
VerdictOnNothing == IF run.hash = TargetChecksum THEN "passed" ELSE "failed"

Verdict == IF run.hash = TargetChecksum /\ TargetChecksum # NoDigest
           THEN "passed" ELSE "failed"

TestRow ==
    /\ test' = [test EXCEPT ![run.cur][run.loc] = Verdict]
    /\ fresh' = [fresh EXCEPT ![run.cur][run.loc] = @ \/ Verdict = "passed"]
    /\ run' = [run EXCEPT !.pc = "test", !.loc = None, !.hash = NoDigest]
    /\ NoFault
    /\ UNCHANGED <<disk, rows, sha, aes, content, transfer>>

StoreResult == run.pc = "result" /\ (TestRow \/ Fails("dbwrite"))

CheckStep ==
    \/ BeginChecks \/ ChecksDone
    \/ \E l \in Locations : NextTest(l)
    \/ ReadCopy \/ StoreResult
=============================================================================
