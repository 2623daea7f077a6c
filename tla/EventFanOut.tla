----------------------------- MODULE EventFanOut -----------------------------
(***************************************************************************)
(* What the transactional outbox promises, without its ticks: an accepted  *)
(* event stays pending until a delivery job has been queued for each of    *)
(* its recipients, and then it is done.  Delivery is at least once: a      *)
(* recipient may be served again, even after the event is done, by a       *)
(* dispatcher that took the event up before; nobody else is ever served.   *)
(***************************************************************************)
EXTENDS Integers

CONSTANTS
  Events,        \* events that may be accepted
  Destinations,
  Recipients     \* the set of destinations each event has to reach

VARIABLES
  phase,   \* "new", "pending" or "done"
  copies   \* how many delivery jobs were queued, by event and destination

vars == <<phase, copies>>

Init ==
  /\ phase = [e \in Events |-> "new"]
  /\ copies = [e \in Events |-> [x \in Destinations |-> 0]]

Accept(e) ==
  /\ phase[e] = "new"
  /\ phase' = [phase EXCEPT ![e] = "pending"]
  /\ UNCHANGED copies

Serve(e, x) ==
  /\ phase[e] \in {"pending", "done"}
  /\ x \in Recipients[e]
  /\ copies' = [copies EXCEPT ![e][x] = @ + 1]
  /\ UNCHANGED phase

Finish(e) ==
  /\ phase[e] = "pending"
  /\ \A x \in Recipients[e] : copies[e][x] > 0
  /\ phase' = [phase EXCEPT ![e] = "done"]
  /\ UNCHANGED copies

Next == \E e \in Events : Accept(e) \/ Finish(e) \/ \E x \in Destinations : Serve(e, x)

\* An accepted event is done in the end.
Fairness == \A e \in Events : phase[e] = "pending" ~> phase[e] = "done"

SafeSpec == Init /\ [][Next]_vars
Spec == SafeSpec /\ Fairness
=============================================================================
