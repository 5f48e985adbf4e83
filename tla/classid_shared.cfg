SPECIFICATION LearnSpec
CONSTANTS
  Ips = {1, 2, 3, 4}
  Devs <- TwoDevs
  DevOf <- TwoDevsOf
  MaxClassid = 4
CHECK_DEADLOCK FALSE
INVARIANT
  UniqueClassid
