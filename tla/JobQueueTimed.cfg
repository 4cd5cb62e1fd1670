CONSTANTS
  w1 = w1
  w2 = w2
  j1 = j1
  j2 = j2
  Workers <- MCWorkers
  Jobs <- MCTwoJobs
  NoWorker = NoWorker
  NoJob = NoJob
  MaxAttempts = 2
  LeaseDuration = 4
  HeartbeatInterval = 1
  AckTimeout = 1
  Latency = 1
  Backoff <- MCBackoff
  MaxFaults = 1
  Timely = TRUE
  ReuseIDs = FALSE
SPECIFICATION Spec
SYMMETRY Symmetry
INVARIANTS NoLimbo LiveHandlerOwnsJob
PROPERTIES AcksSettleOwnAttempt ImplementsLedger
