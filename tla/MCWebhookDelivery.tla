-------------------------- MODULE MCWebhookDelivery --------------------------
(* Small instances of WebhookDelivery for TLC.                               *)
EXTENDS WebhookDelivery, TLC

\* One destination is reached over HTTP, where all answers are possible, the
\* other by mail.
CONSTANTS x1, d1, d2
WebhookAndMail == [x \in Destinations |-> IF x = x1 THEN "webhook" ELSE "email"]

\* Either one delivery with everything that can happen to it, or two to the same
\* destination with one disturbance.  Rows are alike: d1 is the first.
Wanted == {d \in Deliveries : row[d] # "none"} \cup {c \in Makers : maker[c].pc = "create"}
Scene ==
  /\ Cardinality(Wanted') > 1 =>
       /\ {dest'[d] : d \in Deliveries} \cup {maker'[c].dest : c \in Makers} \subseteq {x1, None}
       /\ used'.crash + used'.loss + used'.delete + used'.resolve <= 1
  /\ row'[d2] # "none" => row'[d1] # "none"
SceneSpec == Init /\ [][Next /\ Scene]_vars /\ Fairness
=============================================================================
