SPECIFICATION FairSpec
CONSTANTS
  Instances = {i1, i2}
  Requests = {r1}
  None = None
  MaxMoves = 3
  Failures = {"api", "connect", "peer"}
CHECK_DEADLOCK FALSE
INVARIANTS
  TunnelInv
  AnsweredOnce
  TunnelReachesDevice
  TunnelCountedOnce
  ForwardsFollowTheDevice
  ConnectedDeviceIsFound
PROPERTY
  EveryRequestAnswered
