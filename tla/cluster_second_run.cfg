SPECIFICATION Spec
CONSTANTS
  Workers = {w1, w2}
  Conns = {c1}
  MaxSigterm = 1
  MaxSignal = 1
  MaxCommands = 2
  Runs = {1, 2}
  Adversity = {}
CHECK_DEADLOCK FALSE
INVARIANT
  OneDrainRun
