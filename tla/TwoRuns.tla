------------------------------ MODULE TwoRuns ------------------------------
(***************************************************************************)
(* Two processes of the action "ingest" over one archive, in which nothing *)
(* else goes wrong: cron starts a run while the last one is still copying. *)
(***************************************************************************)
EXTENDS IngestRun

CONSTANT Aging  \* bound: the locations whose passed tests grow old

ASSUME AgingAssumption == Aging \subseteq Locations

VARIABLE second   \* memory of the second process, as `run` is of the first

First  == INSTANCE OverlappingRun WITH other <- second
Second == INSTANCE OverlappingRun WITH run <- second, other <- run

twoVars == <<vars, second>>

StartFirst  == First!Beside(First!StartRun)
FirstStep   == First!Beside(First!StepBeside)
StartSecond == Second!Beside(Second!StartRun)
SecondStep  == Second!Beside(Second!StepBeside)

Upload(b) == (BeginUpload(b) \/ EndUpload(b)) /\ UNCHANGED second
Age(b, l) == Expire(b, l) /\ UNCHANGED second

TwoInit == Init /\ second = Idle

TwoNext ==
    \/ StartFirst \/ FirstStep
    \/ StartSecond \/ SecondStep
    \/ \E b \in Bagits : Upload(b)
    \/ \E b \in Bagits, l \in Aging : Age(b, l)

TwoSpec == TwoInit /\ [][TwoNext]_twoVars

\* The fairness of IngestRun, for either process.
TwoFairSpec ==
    /\ TwoSpec
    /\ WF_twoVars(StartFirst) /\ WF_twoVars(FirstStep)
    /\ WF_twoVars(StartSecond) /\ WF_twoVars(SecondStep)
    /\ \A b \in Bagits, l \in Aging : WF_twoVars(Age(b, l))

Entering(process, b) == process.phase = "ingest" /\ process.cur = b

\* However two walks race for a zip, it is entered once and by one of them:
\* one row, all its content rows and none of them twice, and the row of the
\* initial location, unless a process is still at it (Ingest.Ingest, bagitStore).
EnteredOnce ==
    \A b \in Bagits :
        /\ Cardinality({k \in 1 .. Len(rows) : rows[k] = b}) <= 1
        /\ content[b] <= NumContent
        /\ Registered(b) /\ ~ Entering(run, b) /\ ~ Entering(second, b) =>
              content[b] = NumContent /\ transfer[b][InitLoc] = "ok"

\* Whatever two runs do to a copy the database calls archived - truncate it,
\* encrypt it anew, record the digest of one and keep the bytes of the other -
\* it is made good, or a test reports it (Transfer, Test).
HarmIsReported ==
    \A b \in Bagits, l \in Locations :
        Corrupt(b, l) ~> (test[b][l] = "failed" \/ ~ Corrupt(b, l))

\* A ciphertext that passed its latest test can be decrypted with the key
\* directory (createEncrypt, SetKey, Test).
PassedMeansDecryptable ==
    \A b \in Bagits, l \in Encrypted :
        test[b][l] = "passed" /\ file[b][l].key # Missing =>
            keyFile[b] = file[b][l].key /\ ivFile[b] = file[b][l].iv
=============================================================================
