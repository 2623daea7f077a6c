--------------------------- MODULE MCSendRequests ---------------------------
(* An instance of SendRequests for TLC. *)
EXTENDS SendRequests

CONSTANTS f1, f2, b1, b2, e1, e2, h2

\* Both requests name the same file; one says which endpoint it wants.
MCAttOf == [b \in Bodies |-> {f1}]
MCEndpointOf == [b \in Bodies |-> IF b = b1 THEN None ELSE e1]
MCLines == <<e1, e2>>

\* Either requests are posted or a received file is kept beside the uploaded one:
\* requests never name a received file.  Handlers are alike: h1 is the first.
Scene ==
  /\ count'.requests = 0 \/ (f2 \notin disk' /\ att'[f2] = NoRow)
  /\ count'.requests < 2 => call'[h2] = IdleCall
SceneSpec == Init /\ [][Next /\ Scene]_vars /\ Fairness
=============================================================================
