CONSTANTS
  thumbnail = thumbnail
  preview = preview
  k1 = k1
  k2 = k2
  Variants <- MCVariants
  Cleaners <- MCCleaners
  MaxAttempts = 2
  MaxFaults = 1
  Patient = TRUE
SPECIFICATION FairSpec
INVARIANTS LiveMediaIsStored RemovedMediaLeavesNothing SucceededJobSettlesMedia
PROPERTIES ImplementsMediaContract StaleMediaIsRemoved
CHECK_DEADLOCK FALSE
