---------------------------- MODULE Preservation ----------------------------
(***************************************************************************)
(* What the archive promises, without runs, statements, keys and crashes:  *)
(* a copy of an entered bagit is written until it is archived and never    *)
(* again, only decay harms it, and a certificate says that it was sound    *)
(* when it was examined.                                                   *)
(***************************************************************************)
CONSTANTS
    Bagits,
    Places   \* where copies are kept

VARIABLES
    entered,    \* the bagits that were checked and entered
    bytes,      \* bytes[b][p]: "nothing" usable, "sound", "decayed", or
                \* "locked", which can be written but not be read again
    archived,   \* the copies the database vouches for
    exam,       \* the copy that is being examined, and what was seen of it
    certified   \* the copies whose last examination was passed

vars == <<entered, bytes, archived, exam, certified>>

Copies == Bagits \X Places
NoExam == [copy |-> <<>>, sound |-> FALSE]

Init ==
    /\ entered = {}
    /\ bytes = [b \in Bagits |-> [p \in Places |-> "nothing"]]
    /\ archived = {}
    /\ exam = NoExam
    /\ certified = {}

\* A bagit is entered for good.
Enter(b) ==
    /\ entered' = entered \cup {b}
    /\ UNCHANGED <<bytes, archived, exam, certified>>

\* An attempt to copy, which may fail and be repeated until it is archived.
Write(b, p) ==
    /\ b \in entered
    /\ <<b, p>> \notin archived
    /\ \E outcome \in {"nothing", "sound"} : bytes' = [bytes EXCEPT ![b][p] = outcome]
    /\ UNCHANGED <<entered, archived, exam, certified>>

\* Only what was written in full is archived, and it stays archived.
Archive(b, p) ==
    /\ bytes[b][p] \in {"sound", "decayed"}
    /\ archived' = archived \cup {<<b, p>>}
    /\ UNCHANGED <<entered, bytes, exam, certified>>

Decay(b, p) ==
    /\ bytes[b][p] = "sound"
    /\ bytes' = [bytes EXCEPT ![b][p] = "decayed"]
    /\ UNCHANGED <<entered, archived, exam, certified>>

\* A copy that cannot be read is seen as not sound.
Examine(b, p) ==
    /\ <<b, p>> \in archived
    /\ \E sound \in {FALSE, bytes[b][p] = "sound"} :
          exam' = [copy |-> <<b, p>>, sound |-> sound]
    /\ UNCHANGED <<entered, bytes, archived, certified>>

Certify ==
    /\ exam # NoExam
    /\ certified' = IF exam.sound THEN certified \cup {exam.copy}
                                  ELSE certified \ {exam.copy}
    /\ exam' = NoExam
    /\ UNCHANGED <<entered, bytes, archived>>

\* The examiner dies: no verdict.
Abandon == exam' = NoExam /\ UNCHANGED <<entered, bytes, archived, certified>>

Next ==
    \/ \E b \in Bagits : Enter(b)
    \/ \E b \in Bagits, p \in Places :
          Write(b, p) \/ Archive(b, p) \/ Decay(b, p) \/ Examine(b, p)
    \/ Certify \/ Abandon

Spec == Init /\ [][Next]_vars
=============================================================================
