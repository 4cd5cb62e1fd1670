CONSTANTS
  w1 = w1
  w2 = w2
  j1 = j1
  j2 = j2
  Workers <- MCWorkers
  Jobs <- MCJobs
  NoWorker = NoWorker
  NoJob = NoJob
  MaxAttempts = 2
  LeaseDuration = 4
  HeartbeatInterval = 1
  AckTimeout = 1
  Latency = 1
  Backoff <- MCBackoff
  MaxFaults = 2
  Timely = TRUE
  ReuseIDs = TRUE
SPECIFICATION FairSpec
INVARIANTS AttemptsDistinct CurrentAttemptIsLockers
PROPERTY EveryJobSettles
