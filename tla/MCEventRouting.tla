--------------------------- MODULE MCEventRouting ---------------------------
(* Small instances of EventRouting for TLC.                                  *)
EXTENDS EventRouting, TLC

CONSTANTS e1, e2, e3,  \* events
          r1, r2, r3,  \* rules
          x1, x2       \* destinations

\* An incoming SMS, a dead-lettered webhook (its alert is a warning) and the
\* message.queued of an outgoing SMS, which the API emits.
Event(type, channel, direction, severity) ==
  [type |-> type, channelType |-> channel, accountId |-> "a1", endpointId |-> "p1",
   direction |-> direction, severity |-> severity]

MCEventData ==
  [e \in Events |->
     CASE e = e1 -> Event("message.received", "sms", "inbound", "none")
       [] e = e2 -> Event("webhook.dead_lettered", "none", "none", "warning")
       [] e = e3 -> Event("message.queued", "sms", "outbound", "none")]

\* r1 takes everything; r2 incoming SMS; r3 warnings, by a severity filter.
Filters(r) == CASE r = r1 -> <<>>
                [] r = r2 -> [channelType |-> "sms", direction |-> "inbound"]
                [] r = r3 -> [severity |-> "warning"]

MCRuleData ==
  [r \in Rules |->
     [priority |-> IF r = r1 THEN 1 ELSE 100,
      types |-> {"message.received", "webhook.dead_lettered", "message.queued"},
      filters |-> Filters(r)]]

MCLinks == [r \in Rules |-> IF r = r1 THEN {x1, x2} \cap Destinations ELSE {x2} \cap Destinations]
=============================================================================
