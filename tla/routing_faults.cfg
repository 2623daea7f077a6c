\* Two overlapping ticks that take one row of two, failing calls and crashes.
CONSTANTS
  e1 = e1
  e2 = e2
  e3 = e3
  r1 = r1
  r2 = r2
  r3 = r3
  x1 = x1
  x2 = x2
  Events = {e1, e2}
  EventData <- MCEventData
  ApiEvents = {}
  Rules = {r1}
  RuleData <- MCRuleData
  Destinations = {x1, x2}
  Links <- MCLinks
  Ticks = {t1, t2}
  None = None
  Batch = 1
  MaxEdits = 0
  Faults = {"callFails", "workerCrash"}
  MaxFaults = 1
SPECIFICATION FairSpec
PROPERTIES KeepsPromise
CHECK_DEADLOCK FALSE
