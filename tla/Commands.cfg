CONSTANTS
  MaxDuration = 31  MaxAttempt = 8
  Relatives = {p1, p2, p3}  Center = p1  Types = {birth, adoption}
  MaxBackup = 5
  Runs = {r1, r2, r3}  Nobody = Nobody  Assets = {1, 2}  MaxFaults = 3
  Depths = {0, 2}  Limits = {2, 3}  MaxRelations = 2  MaxGraphWrites = 1
  Listed = {1, 2, 3, 4}  Names = {1, 2}  PageLengths = {1, 2}  MaxListWrites = 2
  Addresses = {a1, a2}  Accounts = {u1}  Requests = {q1, q2}
  AddressLimit = 2  AccountLimit = 1
  Window = 2  MaxKeys = 2  MaxClock = 3
  Deployers = {d1, d2}  NoOne = NoOne  Versions <- SomeVersions  Builds <- SomeBuilds
  Processes = {w1, w2}  Interval = 3  MaxTime = 9
  Exported = {1, 2, 3, 4}  Deletable = {2}  Marriages = {1}  Kinships = {1, 2}
  MaxDrawn = 3  MaxDrawnUnions = 2
SPECIFICATION CommandsSpec
CHECK_DEADLOCK FALSE
INVARIANTS
  DelayIsCappedDoubling RejectsExactlyCycles
  CompleteUnlessDoubted SuccessIsOwn
  AnswerIsOneMoment UntouchedShownOnce
  BurstBelowTwice
  AtSomeVersionOfABuild CleanupEveryInterval
  FlattestDrawing ExportsActiveTree
PROPERTIES CompensatesOwnObjects
