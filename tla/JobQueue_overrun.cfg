SPECIFICATION Spec
CONSTANTS
  Jobs = {j1}
  Workers = {w1, w2}
  Embedded = {w2}
  NoJob = NoJob
  NoWorker = NoWorker
  MaxAttempts = 2
  LockTimeout = 1
  MaxRun = 3
  MaxStep = 1
  BackoffBase = 1
  Backoff <- DoublingBackoff
  MaxKills = 0
  MaxStops = 2
INVARIANTS StoppedLeavesNothing AnAttemptSavesAtMostOnce SucceededHasItinerary
