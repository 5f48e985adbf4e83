SPECIFICATION FairSpec
CONSTANTS
  Workers = {w1, w2}
  Conns = {c1}
  MaxSigterm = 1
  MaxSignal = 1
  MaxCommands = 1
  Runs = {1}
  Adversity = {"early", "crash", "slow", "killFails"}
CHECK_DEADLOCK FALSE
PROPERTY
  ShutdownCompletes
