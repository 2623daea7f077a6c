--------------------------- MODULE ChannelTraffic ---------------------------
(***************************************************************************)
(* Messages between an endpoint and the vendor behind its adapter: what    *)
(* the vendor takes, the ids both sides know a message by, the webhooks    *)
(* and frames about it, repeated and out of order, and InboundIngestService *)
(* telling reports from messages.  The job around a send, the thread of a  *)
(* stored message and the buffer of SMS segments are the business of       *)
(* MessageSend, InboundIngest and SmsConcat.                               *)
(***************************************************************************)
EXTENDS ChannelAdapters

CONSTANTS
  Adapters,    \* the adapters an account may have
  Msgs,        \* messages to send
  To,          \* the recipient of each
  Heard,       \* messages people write to the endpoint or from its phone
  Said,        \* of each: sender, second it was stamped with, text, own phone
  MaxTries,    \* bound: attempts for a message
  MaxCopies,   \* bound: messages the vendor takes
  MaxPosts,    \* bound: webhooks and frames
  MaxRepeats   \* bound: how many of them come again

\* The vendor gives every message an id of its own.  Who writes the same text twice is
\* stamped, and not with the same second.
ASSUME TrafficAssumption ==
  /\ Adapters \subseteq AdapterNames
  /\ {MaxTries, MaxCopies, MaxPosts, MaxRepeats} \subseteq Nat
  /\ DOMAIN To = Msgs
  /\ DOMAIN Said = Heard /\ Heard \cap (Msgs \cup 1..MaxCopies) = {}
  /\ \A i, j \in Heard : i # j /\ Said[i].from = Said[j].from /\ Said[i].text = Said[j].text =>
       Said[i].stamp # Said[j].stamp /\ 0 \notin {Said[i].stamp, Said[j].stamp}

VARIABLES
  adapter,  \* of the endpoint's account
  msg,      \* outgoing messages
  copy,     \* what the vendor has taken
  net,      \* webhooks and frames on their way
  stored,   \* rows made from them
  seen,     \* history: messages of Heard that were ingested
  told,     \* history: the best report ingested of a message whose id was known
  used      \* what is used up of each bound

vars == <<adapter, msg, copy, net, stored, seen, told, used>>

Copies == 1..MaxCopies
Rank(st) == CASE st = "queued" -> 1 [] st = "calling" -> 2 [] st = "sent" -> 4
              [] st = "delivered" -> 5 [] st = "read" -> 6 [] OTHER -> 0

NoResult == Refused(FALSE)
NoCopy == [of |-> "none", state |-> "none"]

\* The id under which the vendor reports copy k.
VendorId(k) == IF adapter = "goip-vendor" THEN <<k, To[copy[k].of]>> ELSE <<k>>
KnownIds == {VendorId(k) : k \in {x \in Copies : copy[x].state # "none"}}

\* The type invariant.
TypeOK ==
  /\ adapter \in Adapters
  /\ \A m \in Msgs :
       /\ msg[m].state \in {"queued", "calling", "sent", "delivered", "read", "failed"}
       /\ msg[m].tries \in 0..MaxTries
       /\ msg[m].ext # <<>> => msg[m].ext \in KnownIds
  /\ \A k \in Copies :
       copy[k].state \in {"none", "waiting", "sent", "answered", "delivered", "read", "failed"}
  /\ seen \subseteq Heard
  /\ \A r \in stored : r.direction \in {"inbound", "outbound"}
  /\ told \in [Msgs -> 0..6]
  /\ used \in [copies : 0..MaxCopies, posts : 0..MaxPosts, repeats : 0..MaxRepeats]

Init ==
  /\ adapter \in Adapters
  /\ msg = [m \in Msgs |-> [state |-> "queued", tries |-> 0, ext |-> <<>>, result |-> NoResult]]
  /\ copy = [k \in Copies |-> NoCopy]
  /\ net = {} /\ stored = {} /\ seen = {}
  /\ told = [m \in Msgs |-> 0]
  /\ used = [copies |-> 0, posts |-> 0, repeats |-> 0]

-----------------------------------------------------------------------------
(* Sending.                                                                  *)

\* What the adapter makes of an answer.
Send(r, m) ==
  CASE adapter = "gwmd" -> GwmdSend(r)
    [] adapter = "unoapi" -> UnoSend(r)
    [] adapter = "goip-vendor" -> GoipSend(r, To[m])
    [] adapter = "signal-cli-rest-api" -> SignalSend(r, r.lookup)
    [] adapter = "mock" -> MockSend(r.id)

Answer(http, body, id) ==
  [http |-> http, body |-> body, id |-> id, lookup |-> [http |-> 200, body |-> "registered"]]

\* The vendor refuses, is busy or down, or the recipient has no account.
Refusals ==
  IF adapter = "mock" THEN {}
  ELSE {Answer(c, "none", <<>>) : c \in {400, 401, 429, 500, NoAnswer}}
    \cup {Answer(200, b, <<>>) : b \in IF adapter = "goip-vendor" THEN {"none_line", "none_provider"}
                                       ELSE IF adapter = "signal-cli-rest-api" THEN {"errors"}
                                       ELSE {}}
    \cup {[Answer(400, "none", <<>>) EXCEPT !.lookup.body = "unregistered"]}

Calling(m, r) ==
  msg' = [msg EXCEPT ![m].state = "calling", ![m].tries = @ + 1, ![m].result = Send(r, m)]

VendorRefuses(m) ==
  /\ msg[m].state = "queued" /\ msg[m].tries < MaxTries
  /\ \E r \in Refusals : Calling(m, r)
  /\ UNCHANGED <<adapter, copy, net, stored, seen, told, used>>

\* Its answer has the id, or none, or is lost.
VendorTakes(m) ==
  /\ msg[m].state = "queued" /\ msg[m].tries < MaxTries
  /\ used.copies < MaxCopies
  /\ LET k == used.copies + 1
         id == <<k>>
     IN  /\ copy' = [copy EXCEPT ![k] = [of |-> m, state |-> "waiting"]]
         /\ used' = [used EXCEPT !.copies = k]
         /\ \/ Calling(m, Answer(200, "accept", id))
            \/ adapter # "mock" /\ Calling(m, Answer(200, "accept", <<>>))
            \/ adapter # "mock" /\ Calling(m, Answer(NoAnswer, "none", <<>>))
  /\ UNCHANGED <<adapter, net, stored, seen, told>>

\* What the send processor writes.
RecordResult(m) ==
  /\ msg[m].state = "calling"
  /\ LET r == msg[m].result
     IN  msg' = [msg EXCEPT
                   ![m].state = CASE r.accepted -> "sent"
                                  [] ~r.accepted /\ r.retryable /\ msg[m].tries < MaxTries -> "queued"
                                  [] OTHER -> "failed",
                   ![m].ext = IF r.accepted THEN r.id ELSE @,
                   ![m].result = NoResult]
  /\ UNCHANGED <<adapter, copy, net, stored, seen, told, used>>

-----------------------------------------------------------------------------
(* The vendor.                                                               *)

\* "answered": the line of a GoIP has a response from the subscriber, which does not
\* tell whether the message has been delivered.
After == [waiting |-> {"sent", "failed"}, sent |-> {"answered", "delivered", "failed"},
          answered |-> {"delivered"}, delivered |-> {"read"}]

Progress(k) ==
  /\ copy[k].state \in DOMAIN After
  /\ \E st \in After[copy[k].state] :
       /\ st = "read" => Capabilities(adapter).read
       /\ st = "answered" => adapter = "goip-vendor"
       /\ copy' = [copy EXCEPT ![k].state = st]
  /\ UNCHANGED <<adapter, msg, net, stored, seen, told, used>>

Payload == [event |-> "none", id |-> <<>>, status |-> "none", receipt |-> FALSE, own |-> FALSE,
            content |-> FALSE, outside |-> FALSE, from |-> "none", stamp |-> 0, text |-> "none",
            about |-> "none"]

\* What it posts about copy k: in its own words.  The receipt of a GoIP is the response.
ReportOf(k) ==
  LET st == copy[k].state
      p == [Payload EXCEPT !.id = VendorId(k), !.about = copy[k].of]
  IN  CASE adapter = "gwmd" ->
             [p EXCEPT !.event = "message_status", !.status = IF st = "waiting" THEN "pending" ELSE st]
        [] adapter = "goip-vendor" ->
             [p EXCEPT !.status = CASE st = "waiting" -> "unsend" [] st = "failed" -> "failed"
                                    [] OTHER -> "succeeded",
                       !.receipt = st \in {"answered", "delivered"}]
        [] OTHER -> [p EXCEPT !.event = "receiptMessage"]

\* gwmd also posts back what was sent through it.
EchoOf(k) == [Payload EXCEPT !.event = "message", !.id = VendorId(k), !.own = TRUE, !.content = TRUE,
                             !.about = copy[k].of]

MessageOf(i) ==
  LET p == [Payload EXCEPT !.content = TRUE, !.from = Said[i].from, !.about = i, !.id = <<i>>]
  IN  CASE adapter = "gwmd" -> [p EXCEPT !.event = "message", !.own = Said[i].own]
        [] adapter = "goip-vendor" -> [p EXCEPT !.stamp = Said[i].stamp, !.text = Said[i].text]
        [] OTHER -> [p EXCEPT !.event = IF Said[i].own THEN "sentMessage" ELSE "dataMessage"]

\* Only these post to the gateway.
Posting == adapter \in {"gwmd", "goip-vendor", "signal-cli-rest-api"}

Post(p) ==
  /\ Posting
  /\ used.posts < MaxPosts
  /\ p \notin net
  /\ net' = net \cup {p}
  /\ used' = [used EXCEPT !.posts = @ + 1]
  /\ UNCHANGED <<adapter, msg, copy, stored, seen, told>>

PostReport(k) ==
  /\ copy[k].state # "none"
  /\ adapter = "signal-cli-rest-api" => copy[k].state = "delivered"
  /\ Post(ReportOf(k))

PostEcho(k) ==
  /\ copy[k].state # "none" /\ adapter = "gwmd"
  /\ Post(EchoOf(k))

\* A SIM has no phone beside it: its own messages are like any other.
PostMessage(i) ==
  /\ i \notin seen
  /\ Post(MessageOf(i))

-----------------------------------------------------------------------------
(* ingest.                                                                   *)

NormalizeStatus(p) ==
  CASE adapter = "gwmd" -> GwmdStatus(p)
    [] adapter = "goip-vendor" -> GoipStatus(p)
    [] OTHER -> SignalStatus(p)

NormalizeInbound(p, now) ==
  CASE adapter = "gwmd" -> GwmdInbound(p)
    [] adapter = "goip-vendor" -> GoipInbound(p, now)
    [] OTHER -> SignalInbound(p)

\* Mutant: whatever comes last.
ApplyLatest(r) ==
  msg' = [m \in Msgs |-> IF msg[m].ext = r.id THEN [msg[m] EXCEPT !.state = r.status] ELSE msg[m]]

\* Forward only, except that a failure always counts.
ApplyStatus(r) ==
  LET named == {m \in Msgs : msg[m].ext = r.id}
      moved == {m \in named : r.status = "failed" \/ Rank(r.status) > Rank(msg[m].state)}
  IN  msg' = IF moved = {} THEN msg
             ELSE [msg EXCEPT ![CHOOSE m \in moved : TRUE].state = r.status]

\* Stored unless the endpoint has a message with that id.
Persist(i) ==
  IF (\E r \in stored : r.id = i.id) \/ (\E m \in Msgs : msg[m].ext = i.id)
  THEN UNCHANGED stored
  ELSE stored' = stored \cup {i}

\* The rank a report of vendor state st stands for.
Due(st) == IF st \in {"sent", "delivered", "read"} THEN Rank(st) ELSE 0
ReportedState(p) == IF adapter = "gwmd" THEN p.status ELSE IF p.receipt THEN "delivered" ELSE "sent"

\* A report counts as told when its message was known by id; a failure starts over.
NowTold(p) ==
  LET m == CHOOSE x \in Msgs : x = p.about
  IN  IF p.about \in Msgs /\ ~p.own /\ msg[m].ext # <<>> /\ adapter # "signal-cli-rest-api"
         /\ p.status \notin {"pending", "unsend"}
         /\ \E k \in Copies : copy[k].of = m /\ VendorId(k) = p.id /\ msg[m].ext[1] = p.id[1]
      THEN [told EXCEPT ![m] = IF p.status = "failed" THEN 0
                               ELSE IF Due(ReportedState(p)) > @ THEN Due(ReportedState(p)) ELSE @]
      ELSE told

\* A vendor that gets no answer posts again.
Ingest(p) ==
  /\ p \in net
  /\ \/ net' = net \ {p} /\ UNCHANGED used
     \/ /\ used.repeats < MaxRepeats
        /\ used' = [used EXCEPT !.repeats = @ + 1]
        /\ UNCHANGED net
  /\ \/ \E r \in NormalizeStatus(p) : ApplyStatus(r) /\ UNCHANGED stored
     \/ /\ NormalizeStatus(p) = {}
        /\ UNCHANGED msg
        /\ \/ \E i \in NormalizeInbound(p, 1 + used.repeats) : Persist(i)
           \/ NormalizeInbound(p, 1 + used.repeats) = {} /\ UNCHANGED stored
  /\ seen' = IF p.about \in Heard /\ ~p.own THEN seen \cup {p.about} ELSE seen
  /\ told' = NowTold(p)
  /\ UNCHANGED <<adapter, copy>>

Next ==
  \/ \E m \in Msgs : VendorRefuses(m) \/ VendorTakes(m) \/ RecordResult(m)
  \/ \E k \in Copies : Progress(k) \/ PostReport(k) \/ PostEcho(k)
  \/ \E i \in Heard : PostMessage(i)
  \/ \E p \in net : Ingest(p)

Spec == Init /\ [][Next]_vars

-----------------------------------------------------------------------------
\* A message is never shown further than the vendor has brought the copy it is
\* known by, nor as failed by a report while that copy has not failed: whatever
\* attempts were lost or repeated and in whatever order reports come in
\* (normalizeStatus of the adapters, applyStatus).  Not so for a subscriber's response
\* on a GoIP line, which is shown as a delivery: see DeliveredIsDelivered.
StatusBacked ==
  \A m \in Msgs : msg[m].ext # <<>> =>
    \E k \in Copies :
      /\ copy[k].of = m /\ VendorId(k) = msg[m].ext
      /\ msg[m].state = "delivered" => copy[k].state \in {"answered", "delivered", "read"}
      /\ msg[m].state = "read" => copy[k].state = "read"
      /\ msg[m].state = "failed" => copy[k].state = "failed"

\* A message is shown as delivered only if a copy of it has been: a response from the
\* subscriber, the receipt of a DBLtek report, "is stored as metadata/event but not
\* automatically mapped to `delivered`" (docs/ТЗ.md:630).  normalizeStatus of the GoIP
\* adapter maps it.
DeliveredIsDelivered ==
  \A m \in Msgs : msg[m].state = "delivered" =>
    \E k \in Copies : copy[k].of = m /\ copy[k].state \in {"delivered", "read"}

\* A report that comes in after the id was recorded is not lost: send and
\* normalizeStatus agree on the id of a message, and older reports do not undo
\* newer ones.  Not so for Signal, whose receipts are not recognised.
ReportsCount == \A m \in Msgs : Rank(msg[m].state) >= told[m]

\* What somebody wrote is stored once however often it is posted, and what the
\* gateway itself sent is not stored as received.  A GoIP message without a
\* stamp gets a new id each time.
StoredOnce ==
  \A r \in stored :
    /\ r.about \notin Msgs
    /\ \A q \in stored : r.about = q.about /\ r # q =>
         adapter = "goip-vendor" /\ Said[r.about].stamp = 0

\* Every message that was posted and is not the endpoint's own on WhatsApp has a
\* row: none is taken for a report, none for another that came in the same second.
NoneLost == \A i \in seen : \E r \in stored : r.about = i

\* Of everything posted to the webhooks, exactly what others wrote is stored, each
\* message once.
StoredExactlyOnce == StoredOnce /\ NoneLost
=============================================================================
