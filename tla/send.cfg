\* One message: overlapping retry and cancellation, or two of a retry, a cancellation, reports and failures.
SPECIFICATION FairSpec
ACTION_CONSTRAINT Scene
CONSTANTS
  None = None
  r1 = r1
  r2 = r2
  Messages = {m1}
  Requests = {r1, r2}
  Reporters = {p1}
  MaxAttempts = 2
  MaxStalled = 1
  MaxRetries = 1
  MaxCancels = 1
  MaxReports = 2
  Faults = {"abandoned", "workerCrash", "redisLoss", "dbError", "lostAnswer"}
  MaxFaults = 2
INVARIANTS
  TypeOK
  GivenUpIsAnnounced
  HistoryComplete
  ExtraCopiesAreAskedFor
  SentOnlyIfAccepted
  CallsBounded
PROPERTIES
  CancelledRequeuedByRetryOnly
  StuckRecovered
  ReportsAdvance
CHECK_DEADLOCK FALSE
