SPECIFICATION Spec
CONSTANTS
  Workers = {w1, w2}
  Conns = {c1}
  MaxSigterm = 2
  MaxSignal = 1
  MaxCommands = 2
  Runs = {1, 2}
  Adversity = {"early", "crash", "slow", "killFails"}
CHECK_DEADLOCK FALSE
SYMMETRY Symmetry
INVARIANTS
  ClusterInv
  OneRunForMessages
  KilledOnlyWhenDrained
  ExitOnlyWhenDrained
