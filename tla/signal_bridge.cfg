SPECIFICATION FairBridgeSpec
CONSTANTS
  e0 = e0 e1 = e1 n0 = n0 n1 = n1 None = None
  Endpoints = {e0, e1}
  Numbers = {n0, n1}
  Sessions = {s1}
  Calls = {h1}
  Channels = {"signal-cli-rest-api"}
  Asks = {}
  Paired <- OnePaired
  Ops = {"unlink", "reattach", "edit", "close"}
  MaxOps = 1
  Faults = {}
  MaxFaults = 0
  Socks = {k1, k2, k3}
  Ticks = {t1, t2}
  MaxBreaks = 1
INVARIANTS NoSocketLeaks
PROPERTY BridgeConverges
CHECK_DEADLOCK FALSE
