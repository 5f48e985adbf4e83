SPECIFICATION Spec
CONSTANTS
  Devices = {d1, d2}
  Workers = {w1, w2}
  NoWorker = NoWorker
  BatchSize = 1
  Faults = {"rejected", "answerLost", "late"}
SYMMETRY Symmetry
INVARIANTS
  NoUpdateLost
  OnePostPerDevice
  LoopInv
