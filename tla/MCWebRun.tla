------------------------------ MODULE MCWebRun ------------------------------
(***************************************************************************)
(* Small archives with a visitor for TLC.                                  *)
(***************************************************************************)
EXTENDS WebRun, TLC

CONSTANTS b1, b2,        \* bagits
          inbox,         \* initial location
          vault1,        \* encrypted location
          tape,          \* a location with an unknown scheme
          k1, i1         \* key and iv

\* The zip and its copy are worth one half each.
Halves == [l \in Locations |-> IF l = tape THEN 0 ELSE 1]
=============================================================================
