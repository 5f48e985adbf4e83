SPECIFICATION FairSpec
CONSTANTS
  Logins = {l1, l2}
  MaxAge = 2
  RequestTimeout = 1
  MaxClock = 4
  MaxChanges = 2
  Samples = {x1, x2}
  Scrapes = {s1, s2, s3}
  Ids = {i1, i2, i3}
  NoId = NoId
  Width = 6
  Largest = 2
  BaseIps = {0, 21, 40, 63}
  MaxCount = 5
  Pids = {p1, p2, p3}
  NoPid = NoPid
  Ips = {1, 2, 3}
  Devs <- OneDev
  DevOf <- OneDevOf
  MaxClassid = 2
CHECK_DEADLOCK FALSE
INVARIANTS
  PartsInv
  NoOneInWithOldKey
  OutageIsForgotten
  NoSampleLost
  OneFetchAtATime
  AddressesAreSound
  DefaultServesEveryone
  UniqueClassid
  EveryoneHasClass
PROPERTIES
  EveryLoginDecided
  StaysRegistered
  EndsUpWithOwnServer
