--------------------------- MODULE MCSignalBridge ---------------------------
(* An instance of SignalBridge for TLC: one endpoint is linked already. *)
EXTENDS SignalBridge

CONSTANTS e0, e1, n0, n1

OnePaired == [e \in Endpoints |-> IF e = e0 THEN n0 ELSE None]
=============================================================================
