----------------------------- MODULE MCTwoRuns -----------------------------
(***************************************************************************)
(* Small archives with two processes for TLC.                              *)
(***************************************************************************)
EXTENDS TwoRuns, TLC

CONSTANTS b1,        \* bagit
          inbox,     \* initial location
          vault1,    \* encrypted location
          k1, k2, i1 \* outcomes of the random generator

Symmetry == Permutations({k1, k2})
=============================================================================
