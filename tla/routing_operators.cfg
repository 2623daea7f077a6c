\* An operator edits rules and destinations under a running tick.
CONSTANTS
  e1 = e1
  e2 = e2
  e3 = e3
  r1 = r1
  r2 = r2
  r3 = r3
  x1 = x1
  x2 = x2
  Events = {e1, e3}
  EventData <- MCEventData
  ApiEvents = {e3}
  Rules = {r1, r2, r3}
  RuleData <- MCRuleData
  Destinations = {x1, x2}
  Links <- MCLinks
  Ticks = {t1, t2}
  None = None
  Batch = 1
  MaxEdits = 1
  Faults = {"callFails"}
  MaxFaults = 1
SPECIFICATION Spec
INVARIANTS TypeOK PublishedIsQueued
CHECK_DEADLOCK FALSE
