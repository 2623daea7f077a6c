\* A repeated webhook, an older frame, an API send, and failures.
CONSTANTS
  n1 = n1
  n2 = n2
  n3 = n3
  y1 = y1
  y2 = y2
  p1 = p1
  Notices = {n1, n2, n3}
  Frames = {n3}
  Externals = {y1, y2}
  ExtOf <- MCExtOf
  Peers = {p1}
  Numbered = {p1}
  PeerOf <- MCPeerOf
  AtOf <- MCAtOf
  Senders = {s1}
  Threads = {c1, c2}
  None = None
  MaxTime = 1
  MaxAttempts = 2
  MaxStalled = 1
  Faults = {"callFails", "workerCrash"}
  MaxFaults = 2
SPECIFICATION FairSpec
INVARIANTS QueueStoresOnce FiledAndAnnounced OneThreadPerNumber
PROPERTIES AcceptedIsStored
CHECK_DEADLOCK FALSE
