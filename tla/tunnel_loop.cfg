SPECIFICATION Spec
CONSTANTS
  Instances = {i1, i2}
  Requests = {r1}
  None = None
  MaxMoves = 3
  Failures = {}
CHECK_DEADLOCK FALSE
INVARIANT
  NoForwardLoop
