SPECIFICATION StartSpec
CONSTANTS
  Pids = {p1, p2, p3}
  NoPid = NoPid
CHECK_DEADLOCK FALSE
INVARIANT
  OrphanIsDead
