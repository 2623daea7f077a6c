--------------------------- MODULE MCProvisioning ---------------------------
(* Instances of Provisioning for TLC. *)
EXTENDS Provisioning

CONSTANTS e0, e1, n0, n1

\* One endpoint is linked already.
OnePaired == [e \in Endpoints |-> IF e = e0 THEN n0 ELSE None]

NonePaired == [e \in Endpoints |-> None]
=============================================================================
