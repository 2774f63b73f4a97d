--------------------------- MODULE TransferPhase ---------------------------
(***************************************************************************)
(* Ingest.Transfer and IngestBagitLocation.Transfer: every bagit is copied *)
(* from the initial location to the locations that have no "ok" row of it, *)
(* through a cipher when the location is encrypted.                        *)
(***************************************************************************)
EXTENDS BagitPages

LoadSource ==
    /\ HasBagit("transfer")
    /\ \/ BeginBagit("target", transfer[Head(run.page).name][InitLoc] # None,
                     run.known \ {InitLoc})
       \/ Fails("dbread")

TransferDone ==
    /\ run.pc = "target"
    /\ run.locs = {}
    /\ EndBagit

ExistsInError(b, l) == transfer[b][l] = "error"
ExistsAnyRow(b, l)  == transfer[b][l] # None
Exists(b, l) == transfer[b][l] = "ok"

\* The order in which range visits the locations is not defined.  The error
\* of Exists is dropped: a row that cannot be read counts as none.
SkipTarget(l) ==
    /\ Exists(run.cur, l)
    /\ Goto([run EXCEPT !.locs = @ \ {l}])

PickTarget(l) ==
    /\ \/ ~ Exists(run.cur, l) /\ NoFault
       \/ Fault("dbread")
    /\ run' = [run EXCEPT !.pc = "open", !.locs = @ \ {l}, !.loc = l]
    /\ UNCHANGED <<disk, db>>

NextTarget(l) ==
    /\ run.pc = "target"
    /\ l \in run.locs
    /\ SkipTarget(l) \/ PickTarget(l)

\* Transfer returns nil for the location it has worked on.
NextLocation == [run EXCEPT !.pc = "target", !.loc = None, !.hash = NoDigest,
                            !.key = Missing, !.iv = Missing]

SetRow(status) == transfer' = [transfer EXCEPT ![run.cur][run.loc] = status]

ErrorRowOk ==
    /\ SetRow("ok")
    /\ Exit
    /\ UNCHANGED <<disk, rows, sha, aes, content, test, fresh>>

\* status = "error"; Store(); whether that succeeded is not looked at.
ErrorRow ==
    /\ SetRow("error") \/ ("dbwrite" \in FaultKinds /\ UNCHANGED transfer)
    /\ Exit
    /\ UNCHANGED <<disk, rows, sha, aes, content, test, fresh>>

\* Without the initial row source is a nil pointer, and the first line of
\* Transfer dereferences it.
OpenSource ==
    /\ run.pc = "open"
    /\ \/ ~ run.source /\ Abort
       \/ run.source /\ At(run.cur, InitLoc) = Absent /\ Abort
       \/ run.source /\ Fails("io")
       \/ run.source /\ Fault("io") /\ ErrorRow
       \/ /\ run.source
          /\ At(run.cur, InitLoc) # Absent
          /\ Goto([run EXCEPT !.pc = IF run.loc \in Encrypted THEN "getkey" ELSE "create"])

(***************************************************************************)
(* createEncrypt.  A file that cannot be read counts as one that does not  *)
(* exist, and a write that is not finished leaves a file without a key.    *)
(***************************************************************************)
GetKeyAnew == run.pc = "getkey" /\ Goto([run EXCEPT !.pc = "setkey"])

GetKey ==
    /\ run.pc = "getkey"
    /\ \/ /\ keyFile[run.cur] # Missing
          /\ Goto([run EXCEPT !.pc = "getiv", !.key = keyFile[run.cur]])
       \/ /\ (keyFile[run.cur] = Missing /\ NoFault) \/ Fault("keyread")
          /\ run' = [run EXCEPT !.pc = "setkey"]
          /\ UNCHANGED <<disk, db>>

WriteKey(k) ==
    /\ keyFile' = [keyFile EXCEPT ![run.cur] = k]
    /\ run' = [run EXCEPT !.pc = "getiv", !.key = k]
    /\ NoFault
    /\ UNCHANGED <<file, ivFile, db>>

TearKey ==
    /\ Fault("keywrite") \/ Fault("crash")
    /\ keyFile' = [keyFile EXCEPT ![run.cur] = Torn]
    /\ Exit
    /\ UNCHANGED <<file, ivFile, db>>

SetKey ==
    /\ run.pc = "setkey"
    /\ (\E k \in Keys : WriteKey(k)) \/ TearKey \/ Fails("keywrite")

GetIV ==
    /\ run.pc = "getiv"
    /\ \/ /\ ivFile[run.cur] # Missing
          /\ Goto([run EXCEPT !.pc = "cipher", !.iv = ivFile[run.cur]])
       \/ /\ (ivFile[run.cur] = Missing /\ NoFault) \/ Fault("keyread")
          /\ run' = [run EXCEPT !.pc = "setiv"]
          /\ UNCHANGED <<disk, db>>

WriteIV(i) ==
    /\ ivFile' = [ivFile EXCEPT ![run.cur] = i]
    /\ run' = [run EXCEPT !.pc = "cipher", !.iv = i]
    /\ NoFault
    /\ UNCHANGED <<file, keyFile, db>>

TearIV ==
    /\ Fault("keywrite") \/ Fault("crash")
    /\ ivFile' = [ivFile EXCEPT ![run.cur] = Torn]
    /\ Exit
    /\ UNCHANGED <<file, keyFile, db>>

SetIV ==
    /\ run.pc = "setiv"
    /\ (\E i \in IVs : WriteIV(i)) \/ TearIV \/ Fails("keywrite")

CipherOfAnyKey == run.pc = "cipher" /\ Goto([run EXCEPT !.pc = "create"])

\* aes.NewCipher refuses an empty key with an error, cipher.NewCTR an empty
\* iv with a panic.
NewCipher ==
    /\ run.pc = "cipher"
    /\ \/ run.key = Torn /\ NoFault /\ ErrorRow
       \/ run.key # Torn /\ run.iv = Torn /\ Abort
       \/ run.key # Torn /\ run.iv # Torn /\ Goto([run EXCEPT !.pc = "create"])

(***************************************************************************)
(* The copy.  The target is truncated when it is opened; the digest is     *)
(* taken of what is written, behind the cipher.                            *)
(***************************************************************************)
WriteTarget(bytes, next) ==
    /\ file' = [file EXCEPT ![run.cur][run.loc] = bytes]
    /\ run' = next
    /\ NoFault
    /\ UNCHANGED <<keyFile, ivFile, db>>

CreateTarget ==
    /\ run.pc = "create"
    /\ IF run.loc \in Unsupported
       THEN Abort
       ELSE \/ WriteTarget(Partial, [run EXCEPT !.pc = "copy"])
            \/ Fault("io") /\ ErrorRow

\* What the read queue makes of the source at this location.
Stream == [At(run.cur, InitLoc) EXCEPT !.key = run.key, !.iv = run.iv]

CopyStream ==
    /\ run.pc = "copy"
    /\ \/ WriteTarget(Stream, [run EXCEPT !.pc = "verify", !.hash = Digest(Stream)])
       \/ Fault("io") /\ ErrorRow

Expected == IF run.loc \in Encrypted THEN run.aes ELSE sha[run.cur]

RecordInMemory ==
    /\ run.loc \in Encrypted /\ run.aes = NoDigest
    /\ Goto([run EXCEPT !.pc = "store", !.aes = run.hash])

\* The first ciphertext sets the expectation.  bagitStore reports an error
\* for every UPDATE, so its result is dropped.
RecordDigest ==
    /\ run.loc \in Encrypted /\ run.aes = NoDigest
    /\ \/ NoFault /\ aes' = [aes EXCEPT ![run.cur] = run.hash]
       \/ Fault("dbwrite") /\ UNCHANGED aes
    /\ run' = [run EXCEPT !.pc = "store", !.aes = run.hash]
    /\ UNCHANGED <<disk, rows, sha, content, transfer, test, fresh>>

CompareNothing ==
    /\ ~ (run.loc \in Encrypted /\ run.aes = NoDigest)
    /\ Goto([run EXCEPT !.pc = "store"])

\* The error of a mismatch is made by errors.Wrapf of an err that is nil, and
\* so is nil: nothing is stored, and the loop goes on.
CompareDigest ==
    /\ ~ (run.loc \in Encrypted /\ run.aes = NoDigest)
    /\ Goto(IF run.hash = Expected THEN [run EXCEPT !.pc = "store"] ELSE NextLocation)

VerifyStream == run.pc = "verify" /\ (RecordDigest \/ CompareDigest)

StoreOkUnchecked ==
    /\ run.pc = "store"
    /\ (SetRow("ok") /\ NoFault) \/ (Fault("dbwrite") /\ UNCHANGED transfer)
    /\ run' = NextLocation
    /\ UNCHANGED <<disk, rows, sha, aes, content, test, fresh>>

OkRow ==
    /\ SetRow("ok")
    /\ run' = NextLocation
    /\ NoFault
    /\ UNCHANGED <<disk, rows, sha, aes, content, test, fresh>>

StoreOk == run.pc = "store" /\ (OkRow \/ Fails("dbwrite"))

TransferStep ==
    \/ LoadSource \/ TransferDone
    \/ \E l \in Locations : NextTarget(l)
    \/ OpenSource \/ GetKey \/ SetKey \/ GetIV \/ SetIV \/ NewCipher
    \/ CreateTarget \/ CopyStream \/ VerifyStream \/ StoreOk
=============================================================================
