---------------------------- MODULE MCIngestRun ----------------------------
(***************************************************************************)
(* Small archives for TLC.                                                 *)
(***************************************************************************)
EXTENDS IngestRun, TLC

CONSTANTS b1, b2,           \* bagits
          inbox,            \* initial location
          disk1,            \* plain location
          vault1, vault2,   \* encrypted locations
          tape,             \* a location with an unknown scheme
          k1, k2, i1, i2    \* outcomes of the random generator

Symmetry == Permutations({b1, b2}) \cup Permutations({k1, k2}) \cup Permutations({i1, i2})
            \cup Permutations({vault1, vault2})
=============================================================================
