\* One delivery with a crash, a loss, a deletion and a resolved alert, or two with one of these.
CONSTANTS
  x1 = x1 d1 = d1 d2 = d2
  Deliveries = {d1, d2}
  Destinations = {x1, x2}
  KindOf <- WebhookAndMail
  Makers = {c1}
  None = None
  MaxAttempts = 3
  MaxStalled = 1
  MaxResolves = 1
  MaxDeletes = 1
  MaxCrashes = 2
  MaxLosses = 1
  Losses = {"abandoned", "redisLoss", "callFails"}
SPECIFICATION SceneSpec
INVARIANTS AttemptsBounded OpenIsPursued SettledTruthfully
PROPERTIES TerminalStays DeliverySettles
CHECK_DEADLOCK FALSE
