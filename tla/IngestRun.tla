----------------------------- MODULE IngestRun -----------------------------
(***************************************************************************)
(* The action "ingest" of cmd/main, run again and again over one archive:  *)
(* Ingest, Transfer and Check in that order, the first error ending the    *)
(* run.  Between and during the runs zips are deposited, files decay and   *)
(* test results grow old.                                                  *)
(***************************************************************************)
EXTENDS IngestWalk, TransferPhase, FixityCheck

\* NewIngest loads the locations and the tests; a result that the server cuts
\* short is not noticed unless the initial location is missing.  filepath.Walk
\* has all names before it visits the first of them.
LoadAll(locations, checksum) ==
    run' = IF InitLoc \in locations
           THEN [Idle EXCEPT !.pc = "walk", !.phase = "ingest",
                             !.known = locations, !.checksum = checksum,
                             !.todo = {b \in Bagits : file[b][InitLoc] # Absent}]
           ELSE Idle

StartRun ==
    /\ run.pc = "idle"
    /\ \/ NoFault /\ LoadAll(Locations, TRUE)
       \/ Fault("dbcut") /\ LoadAll(Locations, FALSE)
       \/ Fault("dbcut") /\ \E some \in SUBSET Locations : LoadAll(some, TRUE)
       \/ Fault("dbread") /\ Exit
    /\ UNCHANGED <<disk, db>>

Crash == run.pc # "idle" /\ Fails("crash")

(***************************************************************************)
(* The surroundings.                                                       *)
(***************************************************************************)
BeginUpload(b) ==
    /\ file[b][InitLoc] = Absent
    /\ file' = [file EXCEPT ![b][InitLoc] = Partial]
    /\ NoFault
    /\ UNCHANGED <<keyFile, ivFile, db, run>>

EndUpload(b) ==
    /\ file[b][InitLoc] = Partial
    /\ file' = [file EXCEPT ![b][InitLoc] = Plain(0)]
    /\ NoFault
    /\ UNCHANGED <<keyFile, ivFile, db, run>>

\* A file decays at rest, into bytes that were never there before: the zip
\* ("rot") or a copy ("decay").
Damage(b, l) ==
    /\ file[b][l].kind = "whole"
    /\ Fault(IF l = InitLoc THEN "rot" ELSE "decay")
    /\ file' = [file EXCEPT ![b][l] = Plain(faults')]
    /\ UNCHANGED <<keyFile, ivFile, db, run>>

\* The testinterval of the location has gone by since the last passed test.
Expire(b, l) ==
    /\ fresh[b][l]
    /\ fresh' = [fresh EXCEPT ![b][l] = FALSE]
    /\ NoFault
    /\ UNCHANGED <<disk, rows, sha, aes, content, transfer, test, run>>

Environment ==
    \/ \E b \in Bagits : BeginUpload(b) \/ EndUpload(b)
    \/ \E b \in Bagits, l \in Locations : Damage(b, l) \/ Expire(b, l)

PageStep == CountRows \/ LoadPage \/ EndOfPage
Step == IngestStep \/ PageStep \/ TransferStep \/ CheckStep

Next == StartRun \/ Step \/ Crash \/ Environment

Spec == Init /\ [][Next]_vars

(***************************************************************************)
(* Cron starts the program again after it has ended, a started process     *)
(* makes progress, an upload that has begun is finished, and time passes.  *)
(***************************************************************************)
Fairness ==
    /\ WF_vars(StartRun)
    /\ WF_vars(Step)
    /\ \A b \in Bagits : WF_vars(EndUpload(b))
    /\ \A b \in Bagits, l \in Locations : WF_vars(Expire(b, l))
FairSpec == Spec /\ Fairness

(***************************************************************************)
(* Properties.                                                             *)
(***************************************************************************)
Pcs == {"idle", "walk", "sum", "insert", "init", "content", "count", "load", "next",
        "target", "open", "getkey", "setkey", "getiv", "setiv", "cipher", "create",
        "copy", "verify", "store", "test", "read", "result"}
Phases == {None, "ingest", "transfer", "check"}
Pages == Seq([name : Bagits, aes : Content])

RunState ==
    [pc : Pcs, phase : Phases, known : SUBSET Locations, checksum : BOOLEAN,
     todo : SUBSET Bagits, page : Pages, start : Nat, n : Nat,
     cur : Bagits \cup {None}, aes : Content, source : BOOLEAN,
     locs : SUBSET Locations, loc : Locations \cup {None}, hash : Content,
     key : Keys \cup {Missing, Torn}, iv : IVs \cup {Missing, Torn}, left : Nat]

DiskOK ==
    /\ file \in [Bagits -> [Locations -> Content]]
    /\ keyFile \in [Bagits -> Keys \cup {Missing, Torn}]
    /\ ivFile \in [Bagits -> IVs \cup {Missing, Torn}]

TablesOK ==
    /\ rows \in Seq(Bagits)
    /\ sha \in [Bagits -> Content]
    /\ aes \in [Bagits -> Content]
    /\ content \in [Bagits -> Nat]

StatusOK ==
    /\ transfer \in [Bagits -> [Locations -> {None, "ok", "error"}]]
    /\ test \in [Bagits -> [Locations -> {None, "passed", "failed"}]]
    /\ fresh \in [Bagits -> [Locations -> BOOLEAN]]

\* Every variable has its type.
TypeOK ==
    /\ DiskOK /\ TablesOK /\ StatusOK
    /\ run \in RunState
    /\ faults \in 0 .. MaxFaults

\* The digest the database expects of the copy of b at l.
Recorded(b, l) == IF l \in Encrypted THEN aes[b] ELSE sha[b]

(***************************************************************************)
(* The archive as Preservation sees it.                                    *)
(***************************************************************************)
Copied == Locations \ {InitLoc}

Locked(b, copy) == copy.key # Missing /\ ~ (keyFile[b] = copy.key /\ ivFile[b] = copy.iv)

Worth(b, copy) ==
    IF copy.kind # "whole" THEN "nothing"
    ELSE IF Locked(b, copy) THEN "locked"
    ELSE IF copy.ver = sha[b].ver THEN "sound" ELSE "decayed"

Exam == IF run.pc = "result" /\ run.loc # InitLoc
        THEN [copy |-> <<run.cur, run.loc>>, sound |-> Verdict = "passed"]
        ELSE [copy |-> <<>>, sound |-> FALSE]

Promise == INSTANCE Preservation WITH
    Places    <- Copied,
    entered   <- {b \in Bagits : Registered(b)},
    bytes     <- [b \in Bagits |-> [l \in Copied |-> Worth(b, file[b][l])]],
    archived  <- {c \in Bagits \X Copied : transfer[c[1]][c[2]] = "ok"},
    exam      <- Exam,
    certified <- {c \in Bagits \X Copied : test[c[1]][c[2]] = "passed"}

\* The program keeps the promise, crashes and failures at any point of a run
\* included: every step of it is a step of Preservation, or changes nothing
\* the promise is about.
Preserves == Promise!Spec

\* Every ciphertext that exists, and the one whose digest is recorded, was
\* made with the key and the iv the key directory holds now, and with whole
\* ones, whatever failed while they were made (createEncrypt, SetKey, SetIV).
KeyArchived ==
    \A b \in Bagits :
        \A c \in {aes[b]} \cup {file[b][l] : l \in Encrypted} :
            c.key # Missing =>
                keyFile[b] = c.key /\ ivFile[b] = c.iv /\ Torn \notin {c.key, c.iv}

\* An "ok" row is only ever found next to the complete file with the digest
\* the bagit row records, also after a run died between the copy, the two
\* statements of Transfer and the rewriting of a copy.
OkMeansRecorded ==
    \A b \in Bagits, l \in Locations :
        transfer[b][l] = "ok" =>
            At(b, l) = Recorded(b, l) /\ Recorded(b, l) # NoDigest

\* An "ok" row is only ever found next to a complete file, be its bytes the
\* recorded ones or not.
OkMeansWritten ==
    \A b \in Bagits, l \in Locations \ {InitLoc} :
        transfer[b][l] = "ok" => file[b][l].kind = "whole"

\* The program never takes an "ok" row back and never writes to the file
\* again: only decay changes it.
ArchivedIsFinal ==
    [][\A b \in Bagits, l \in Locations \ {InitLoc} :
          transfer[b][l] = "ok" =>
              /\ transfer'[b][l] = "ok"
              /\ file'[b][l] # file[b][l] => UNCHANGED run /\ file'[b][l].ver = faults']_vars

\* A copy gets its "ok" row only with the digest the database records for it,
\* as it was taken while the copy was written, though the zip may have decayed
\* since it was entered, and though a mismatch is reported as no error at all
\* (Transfer).
ArchivedAsRecorded ==
    [][\A b \in Bagits, l \in Locations \ {InitLoc} :
          transfer[b][l] # "ok" /\ transfer'[b][l] = "ok" =>
              run.hash = Recorded(b, l) /\ run.hash # NoDigest]_vars

\* A test passes only for a copy whose transfer was completed: the file a
\* dead run left behind is not certified before its row is there.
PassedMeansArchived ==
    \A b \in Bagits, l \in Locations :
        test[b][l] = "passed" => transfer[b][l] = "ok"

\* A bagit the walk skips as already ingested is completely ingested.
IngestedIsComplete ==
    \A b \in Bagits :
        Registered(b) /\ run.cur # b =>
            transfer[b][InitLoc] = "ok" /\ content[b] = NumContent

\* When the check phase begins every bagit is at every location.
CheckedIsTransferred ==
    run.phase = "check" =>
        \A b \in Bagits, l \in Locations : Registered(b) => transfer[b][l] = "ok"

\* A deposited zip reaches every location, as long as failures end.
EventuallyArchived ==
    \A b \in Bagits, l \in Locations :
        file[b][InitLoc] # Absent ~> transfer[b][l] = "ok"

\* A zip the deep check refuses, before its upload is finished or because it
\* decayed unseen, keeps every run from its check phase.
Blocked == \E b \in Bagits : ~ Registered(b) /\ file[b][InitLoc].ver # 0

Corrupt(b, l) ==
    /\ transfer[b][l] = "ok"
    /\ file[b][l] # Recorded(b, l)

\* A copy that is not what the database says it is, because it decayed or was
\* overwritten with the bytes of a zip that did, is reported by a test or
\* repaired, unless a decayed zip blocks the runs.
DamageIsReported ==
    \A b \in Bagits, l \in Locations :
        Corrupt(b, l) ~> (test[b][l] = "failed" \/ Blocked \/ ~ Corrupt(b, l))
=============================================================================
