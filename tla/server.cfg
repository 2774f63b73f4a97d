SPECIFICATION FairSpec
CONSTANTS
  r1 = r1 r2 = r2
  Requests = {r1, r2}
  MaxEdits = 2
INVARIANTS EndsOnDemand AloneIsFresh
PROPERTIES SignalEnds
CHECK_DEADLOCK FALSE
