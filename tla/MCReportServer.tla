--------------------------- MODULE MCReportServer ---------------------------
(***************************************************************************)
(* A server with a few visitors for TLC.                                   *)
(***************************************************************************)
EXTENDS ReportServer, TLC

CONSTANTS r1, r2   \* connections
=============================================================================
