SPECIFICATION FairSpec
CONSTANTS
  UCS2_PART_UNITS = 3
  GSM7_PART_SEPTETS = 4
  Scenes <- MCScenes
  Flushes = {f1, f2}
  MaxRepeats = 1
  Faults = {"persistFails", "workerCrash", "endpointGone"}
  MaxFaults = 1
INVARIANTS NothingLost StoredOnce ReadsAsWritten
PROPERTY HeldIsStored
CHECK_DEADLOCK FALSE
