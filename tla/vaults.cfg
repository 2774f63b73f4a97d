SPECIFICATION Spec
CONSTANTS
  b1 = b1 b2 = b2 inbox = inbox disk1 = disk1 vault1 = vault1 vault2 = vault2
  tape = tape k1 = k1 k2 = k2 i1 = i1 i2 = i2
  InitLoc = inbox
  Bagits = {b1, b2}
  Locations = {inbox, vault1, vault2}
  Encrypted = {vault1, vault2}
  Unsupported = {}
  Nested = {}
  Keys = {k1, k2}
  IVs = {i1}
  PageSize = 2
  NumContent = 0
  FaultKinds = {"crash", "io"}
  MaxFaults = 2
SYMMETRY Symmetry
INVARIANTS OkMeansRecorded CheckedIsTransferred
