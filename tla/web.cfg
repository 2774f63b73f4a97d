SPECIFICATION WebSpec
CONSTANTS
  b1 = b1 b2 = b2 inbox = inbox vault1 = vault1 tape = tape k1 = k1 i1 = i1
  InitLoc = inbox
  Bagits = {b1, b2}
  Locations = {inbox, vault1, tape}
  Encrypted = {vault1}
  Unsupported = {tape}
  Nested = {b2}
  Keys = {k1}
  IVs = {i1}
  PageSize = 1
  NumContent = 1
  FaultKinds = {"dbcut", "query"}
  MaxFaults = 2
  Quality <- Halves
  Healthy = 2
  Misshapen = {b2}
INVARIANTS PassedMeansArchived HealthIsBacked LinksLead
