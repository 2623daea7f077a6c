\* Every adapter, lost answers, repeated and reordered webhooks; balances of a SIM; accounts and the test chat.
CONSTANTS
  m1 = m1 m2 = m2 i1 = i1 i2 = i2 i3 = i3
  Adapters = {"gwmd", "goip-vendor", "unoapi", "signal-cli-rest-api", "mock"}
  Msgs = {m1, m2}
  To <- SameNumber
  Heard = {i1, i2, i3}
  Said <- MCSaid
  MaxTries = 2
  MaxCopies = 2
  MaxPosts = 2
  MaxRepeats = 1
  Funds <- MCFunds
  UssdCodes = {"*111#", "*101#"}
  Thresholds = {1, 20}
  MaxDays = 3
  MaxChecks = 1
  MaxChanges = 2
  Configured = {"gwmd", "unoapi"}
  MaxAccounts = 3
  MaxLines = 3
  MaxAdmin = 3
  MaxStarts = 2
  Peers = {"p"}
  MaxDrafts = 1
  MaxRequests = 2
  MaxLost = 1
SPECIFICATION ScenesSpec
SYMMETRY MessageSymmetry
INVARIANTS StatusBacked ReportsCount StoredExactlyOnce BalanceTold SeededOnce RepliesGoRight
CHECK_DEADLOCK FALSE
