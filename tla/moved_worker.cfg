SPECIFICATION MovedSpec
CONSTANTS
  Devices = {d1}
  Workers = {w1, w2}
  NoWorker = NoWorker
  BatchSize = 1
  Faults = {}
INVARIANT
  SentSinceWorkerConnected
