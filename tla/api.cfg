SPECIFICATION ApiFairSpec
CONSTANTS
  d1 = d1
  d2 = d2
  w1 = w1
  w2 = w2
  s1 = s1
  s2 = s2
  s3 = s3
  Devices = {d1, d2}
  Workers = {w1, w2}
  NoWorker = NoWorker
  BatchSize = 1
  Faults = {"rejected"}
  Sessions = {s1, s2, s3}
  UuidOf <- TwoDevices
  WorkerOf <- TwoDevicesAt
  SessionFaults = {"eventLost", "killed"}
CHECK_DEADLOCK FALSE
INVARIANTS
  ApiTypeOK
  TargetFollowsCount
  GaugeCountsOnline
  ShownIffLive
  SettledMeansShown
PROPERTIES
  ImplementsClients
  ImplementsReporter
  EventuallyAccurate
