SPECIFICATION PageFairSpec
CONSTANTS
  Jobs = {j1}
  Workers = {w1, w2}
  Embedded = {}
  NoJob = NoJob
  NoWorker = NoWorker
  MaxAttempts = 2
  LockTimeout = 1
  MaxRun = 1
  MaxStep = 1
  BackoffBase = 1
  Backoff <- DoublingBackoff
  MaxKills = 1
  MaxStops = 0
  Watched = {j1}
  MaxPolls = 2
INVARIANTS SuccessShowsThePlan FailureIsTheEnd
PROPERTIES EnqueuedSettles OutcomeIsShown
