SPECIFICATION SpecBoth
CONSTANTS
  b1 = b1 b2 = b2 inbox = inbox vault1 = vault1 k1 = k1 k2 = k2 i1 = i1 i2 = i2
  InitLoc = inbox
  Bagits = {b1, b2}
  Locations = {inbox, vault1}
  Encrypted = {vault1}
  Unsupported = {}
  Nested = {}
  Keys = {k1, k2}
  IVs = {i1, i2}
  PageSize = 1
  NumContent = 1
  FaultKinds = {"report", "crash"}
  MaxFaults = 1
  MaxReports = 1
SYMMETRY Symmetry
INVARIANTS KeysTxtDecrypts TableIsComplete PagesTellArchive
CONSTRAINT HasContents
