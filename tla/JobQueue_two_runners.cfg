SPECIFICATION Spec
CONSTANTS
  Jobs = {j1, j2}
  Workers = {w1, w2}
  Embedded = {}
  NoJob = NoJob
  NoWorker = NoWorker
  MaxAttempts = 2
  LockTimeout = 2
  MaxRun = 3
  MaxStep = 1
  BackoffBase = 1
  Backoff <- DoublingBackoff
  MaxKills = 0
  MaxStops = 0
SYMMETRY Symmetry
INVARIANTS NeverTheSameJob
