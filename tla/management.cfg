SPECIFICATION Spec
CONSTANTS
  c1 = c1
  c2 = c2
  u1 = u1
  Cids = {c1, c2}
  UuidOf <- SameUuid
  NL = NL
  MaxMessages = 3
  MaxBytes = 2
  MaxClock = 1
CHECK_DEADLOCK FALSE
INVARIANTS
  ManagementInv
  NoEventLost
  BytesCountedOnce
  LatestBytesCounted
  BitratesAreTrue
