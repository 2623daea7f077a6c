SPECIFICATION FairSpec
CONSTANTS
  e0 = e0 e1 = e1 n0 = n0 n1 = n1 None = None
  Endpoints = {e0, e1}
  Numbers = {n0, n1}
  Sessions = {s1}
  Calls = {h1, h2}
  Channels = {"signal-cli-rest-api", "gwmd", "unoapi"}
  Asks = {n0, n1}
  Paired <- OnePaired
  Ops = {"unlink", "reattach", "delete", "cancel", "edit"}
  MaxOps = 1
  Faults = {"listFails", "mintFails", "unlinkFails", "dbFails", "snapshotFails"}
  MaxFaults = 1
INVARIANTS KeepsEarlierNumbers LinkedWasScanned
PROPERTY WizardEnds
CHECK_DEADLOCK FALSE
