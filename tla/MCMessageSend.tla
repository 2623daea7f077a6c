--------------------------- MODULE MCMessageSend ---------------------------
(* Instances of MessageSend for TLC.                                         *)
EXTENDS MessageSend

CONSTANTS r1, r2

Busy(api1) == {r \in Requests : api1[r] # IdleRequest}

\* Two handlers overlap while nothing fails and no report comes; or there is one handler
\* at a time, and at most two of everything that is not the pipeline's own progress.
\* Which of two idle handlers serves a request makes no difference.
Scene ==
  /\ \/ used'.fault + used'.report = 0
     \/ /\ used'.fault + used'.retry + used'.cancel + used'.report <= 2
        /\ Cardinality(Busy(api')) <= 1
  /\ Busy(api') = {r2} => r2 \in Busy(api)
============================================================================
