SPECIFICATION FairSpec
CONSTANTS
  b1 = b1 b2 = b2 inbox = inbox disk1 = disk1 vault1 = vault1 vault2 = vault2
  tape = tape k1 = k1 k2 = k2 i1 = i1 i2 = i2
  InitLoc = inbox
  Bagits = {b1}
  Locations = {inbox, disk1, vault1}
  Encrypted = {vault1}
  Unsupported = {}
  Nested = {}
  Keys = {k1}
  IVs = {i1}
  PageSize = 1
  NumContent = 0
  FaultKinds = {"rot", "decay", "io", "dbread"}
  MaxFaults = 3
PROPERTIES DamageIsReported ArchivedAsRecorded
