--------------------------- MODULE OverlappingRun ---------------------------
(***************************************************************************)
(* A run of the action "ingest" while another process, started before the  *)
(* first had ended, works on the same archive.  Nothing in cmd/main keeps  *)
(* the two apart, so besides the steps of a run alone there are those that *)
(* meet a file the other process has open.                                 *)
(***************************************************************************)
EXTENDS IngestRun

VARIABLE other   \* memory of the other process

\* os.WriteFile truncates the key file before it fills it.
ReadTornKey ==
    /\ run.pc = "getkey"
    /\ other.pc = "setkey" /\ other.cur = run.cur
    /\ Goto([run EXCEPT !.pc = "getiv", !.key = Torn])

ReadTornIV ==
    /\ run.pc = "getiv"
    /\ other.pc = "setiv" /\ other.cur = run.cur
    /\ Goto([run EXCEPT !.pc = "cipher", !.iv = Torn])

\* The other process has the target open too, or has written other bytes
\* since this one truncated it: what is left is a hole or a mixture, while the
\* digest is that of the stream.
SharesTarget == other.pc = "copy" /\ other.cur = run.cur /\ other.loc = run.loc

MixedCopy ==
    /\ run.pc = "copy"
    /\ SharesTarget \/ file[run.cur][run.loc] \notin {Partial, Stream}
    /\ WriteTarget(Partial, [run EXCEPT !.pc = "verify", !.hash = Digest(Stream)])

StepBeside == Step \/ ReadTornKey \/ ReadTornIV \/ MixedCopy

Beside(A) == A /\ UNCHANGED other
=============================================================================
