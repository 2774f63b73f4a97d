SPECIFICATION Spec
CONSTANTS
  r1 = r1 r2 = r2
  Requests = {r1}
  MaxEdits = 0
INVARIANTS RequestsAreDrained
CHECK_DEADLOCK FALSE
