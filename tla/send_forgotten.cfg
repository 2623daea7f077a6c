\* One message, a retry, and one API handler or scheduler claim that dies half-way.
SPECIFICATION FairSpec
CONSTANTS
  None = None
  r1 = r1
  r2 = r2
  Messages = {m1}
  Requests = {r1}
  Reporters = {p1}
  MaxAttempts = 2
  MaxStalled = 1
  MaxRetries = 1
  MaxCancels = 0
  MaxReports = 0
  Faults = {"abandoned"}
  MaxFaults = 1
PROPERTIES
  StuckReenqueued
CHECK_DEADLOCK FALSE
