------------------------------ MODULE Archive ------------------------------
(***************************************************************************)
(* What a run of the ingest program (cmd/main, action "ingest") works on:  *)
(* the files of the storage locations, the key directory and the rows of   *)
(* the MySQL schema.  All of it survives a crash; `run` is the memory of   *)
(* the process and does not.  The phases of a run are in IngestWalk,       *)
(* TransferPhase and FixityCheck, the paging they share in BagitPages, and *)
(* IngestRun composes them.                                                *)
(***************************************************************************)
EXTENDS Integers, Sequences, FiniteSets

CONSTANTS
    Bagits,       \* names of the zip files, the key of a bagit in the database
    Locations,    \* rows of table location
    InitLoc,      \* the location the configuration names as `initlocation`
    Encrypted,    \* locations with the column `encrypted` set
    Unsupported,  \* locations whose path is neither a file nor an sftp url
    Nested,       \* zips deposited in a subfolder of the initial location
    Keys, IVs,    \* the outcomes of crypto.CreateKey and rand.Read
    PageSize,     \* pageSize of BagitLoadAll
    NumContent,   \* content rows of a bagit
    FaultKinds,   \* which operations may fail
    MaxFaults     \* bound: how many operations fail in one behaviour

None    == "none"     \* a pointer that is nil, a row that does not exist
Missing == "missing"  \* no key (or iv) file, or it cannot be read
Torn    == "torn"     \* a key (or iv) file that os.WriteFile did not finish

ASSUME LocationsAssumption ==
    /\ InitLoc \in Locations
    /\ Encrypted \subseteq Locations \ {InitLoc}
    /\ Unsupported \subseteq Locations \ {InitLoc}
    /\ Nested \subseteq Bagits
ASSUME KeysAssumption == {Missing, Torn} \cap (Keys \cup IVs) = {}
ASSUME BoundsAssumption ==
    PageSize \in Nat \ {0} /\ NumContent \in Nat /\ MaxFaults \in Nat
ASSUME NamesAssumption == None \notin Bagits \cup Locations

VARIABLES
    file,      \* file[b][l]: the file of bagit b at location l; at InitLoc the zip
    keyFile,   \* keyFile[b], ivFile[b]: <keydir>/<b>.key and <b>.iv
    ivFile,
    rows,      \* table bagit in the order of bagitid
    sha,       \* its columns sha512 and sha512_aes
    aes,
    content,   \* how many rows table content has for b
    transfer,  \* table bagit_location: its status, None if there is no row
    test,      \* table bagit_test_location: the status of the latest row
    fresh,     \* a "passed" row is younger than the location's testinterval
    run,       \* memory of the process
    faults     \* how many operations have failed

disk == <<file, keyFile, ivFile>>
db   == <<rows, sha, aes, content, transfer, test, fresh>>
vars == <<disk, db, run, faults>>

(***************************************************************************)
(* The bytes of a file are abstracted to whether they are all there, the   *)
(* key and iv they are encrypted with (Missing when they are not) and a    *)
(* version: 0 for the bytes as deposited, v > 0 for what the v-th fault    *)
(* made of them.  A SHA-512 digest identifies the bytes, so it is          *)
(* represented by them; the digest of nothing is the empty column.         *)
(***************************************************************************)
Content == [kind : {"absent", "partial", "whole"}, key : Keys \cup {Missing, Torn},
            iv : IVs \cup {Missing, Torn}, ver : 0 .. MaxFaults]
Absent   == [kind |-> "absent",  key |-> Missing, iv |-> Missing, ver |-> 0]
Partial  == [kind |-> "partial", key |-> Missing, iv |-> Missing, ver |-> 0]
Plain(v) == [kind |-> "whole",   key |-> Missing, iv |-> Missing, ver |-> v]
Digest(bytes) == bytes
NoDigest == Absent

\* What opening <path of l>/<name of b> finds: a zip from a subfolder is not there.
At(b, l) == IF l = InitLoc /\ b \in Nested THEN Absent ELSE file[b][l]

Registered(b) == b \in {rows[k] : k \in 1 .. Len(rows)}

(***************************************************************************)
(* The process.                                                            *)
(***************************************************************************)
Idle == [pc |-> "idle", phase |-> None,
         known |-> {},                      \* i.locations, as NewIngest loaded it
         checksum |-> FALSE,                \* i.tests has the test "checksum"
         todo |-> {},                       \* zips Walk has still to visit
         page |-> <<>>, start |-> 0, n |-> 0,  \* locals of BagitLoadAll
         cur |-> None, aes |-> NoDigest,    \* the IngestBagit and its SHA512_aes
         source |-> FALSE,                  \* bagitLocationLoad found the initial row
         locs |-> {}, loc |-> None,         \* range over i.locations
         hash |-> NoDigest,                 \* cs, hashSha512 or the test's checksum
         key |-> Missing, iv |-> Missing,   \* locals of createEncrypt
         left |-> 0]                        \* metadata entries still to store

Init ==
    /\ file = [b \in Bagits |-> [l \in Locations |-> Absent]]
    /\ keyFile = [b \in Bagits |-> Missing]
    /\ ivFile = [b \in Bagits |-> Missing]
    /\ rows = <<>>
    /\ sha = [b \in Bagits |-> NoDigest]
    /\ aes = [b \in Bagits |-> NoDigest]
    /\ content = [b \in Bagits |-> 0]
    /\ transfer = [b \in Bagits |-> [l \in Locations |-> None]]
    /\ test = [b \in Bagits |-> [l \in Locations |-> None]]
    /\ fresh = [b \in Bagits |-> [l \in Locations |-> FALSE]]
    /\ run = Idle
    /\ faults = 0

(***************************************************************************)
(* Failures.  An error that reaches main is logger.Fatalf and a panic is   *)
(* not recovered: both end the process, and what is on disk stays.         *)
(***************************************************************************)
NoFault == UNCHANGED faults
Fault(kind) == kind \in FaultKinds /\ faults < MaxFaults /\ faults' = faults + 1
Exit == run' = Idle
Abort == Exit /\ NoFault /\ UNCHANGED <<disk, db>>
Fails(kind) == Fault(kind) /\ Exit /\ UNCHANGED <<disk, db>>

\* What is left of the memory when one phase has returned to main.
EnterPhase(phase, pc) == [Idle EXCEPT !.pc = pc, !.phase = phase, !.known = run.known,
                                      !.checksum = run.checksum]

\* A step that changes nothing but the memory of the process.
Goto(next) == run' = next /\ NoFault /\ UNCHANGED <<disk, db>>
=============================================================================
