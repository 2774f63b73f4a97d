SPECIFICATION TwoSpec
CONSTANTS
  b1 = b1 inbox = inbox vault1 = vault1 k1 = k1 k2 = k2 i1 = i1
  InitLoc = inbox
  Bagits = {b1}
  Locations = {inbox, vault1}
  Encrypted = {vault1}
  Unsupported = {}
  Nested = {}
  Keys = {k1, k2}
  IVs = {i1}
  PageSize = 1
  NumContent = 1
  FaultKinds = {}
  MaxFaults = 0
  Aging = {vault1}
INVARIANTS PassedMeansDecryptable
