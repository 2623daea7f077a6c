SPECIFICATION SceneSpec
CONSTANTS
  f1 = f1 f2 = f2 b1 = b1 b2 = b2 e1 = e1 e2 = e2 h2 = h2 None = None
  Files = {f1, f2}
  Inbound = {f2}
  Deletes = {d1}
  Received = received
  BATCH_LIMIT = 1
  MediaFaults = {"apiCrash", "workerCrash", "unlinkFails", "emitFails"}
  MaxFaults = 1
  Handlers = {h1, h2}
  Keys = {k1}
  Bodies = {b1, b2}
  AttOf <- MCAttOf
  EndpointOf <- MCEndpointOf
  Lines <- MCLines
  Messages = {m1, m2}
  MaxRequests = 2
  MaxEdits = 1
INVARIANTS RowsMatchFiles KeyNamesOneMessage
PROPERTIES RowsFollow GoesOutWhole
CHECK_DEADLOCK FALSE
