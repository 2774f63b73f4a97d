---------------------------- MODULE MCReportRun ----------------------------
(***************************************************************************)
(* Small archives with a report for TLC.                                   *)
(***************************************************************************)
EXTENDS ReportRun, TLC

CONSTANTS b1, b2,   \* bagits
          inbox,    \* initial location
          vault1,   \* encrypted location
          k1, k2,   \* outcomes of the random generator
          i1, i2

\* bound: the report begins when a bagit is settled, and no test grows old
HasContents ==
    /\ since.n > 0 => since.settled # {}
    /\ \A b \in Bagits, l \in Locations : test[b][l] = "passed" => fresh[b][l]

Symmetry == Permutations({b1, b2}) \cup Permutations({k1, k2}) \cup Permutations({i1, i2})
=============================================================================
