SPECIFICATION Spec
CONSTANTS
  e0 = e0 e1 = e1 n0 = n0 n1 = n1 None = None
  Endpoints = {e0, e1}
  Numbers = {n0, n1}
  Sessions = {s1, s2}
  Calls = {h1, h2}
  Channels = {"signal-cli-rest-api"}
  Asks = {}
  Paired <- NonePaired
  Ops = {}
  MaxOps = 0
  Faults = {}
  MaxFaults = 0
PROPERTY NeverSteals
CHECK_DEADLOCK FALSE
