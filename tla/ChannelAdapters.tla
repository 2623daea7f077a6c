--------------------------- MODULE ChannelAdapters ---------------------------
(***************************************************************************)
(* The channel adapters: how each of them reads what its vendor answers    *)
(* to a call and posts to a webhook.  No state; Provisioning,              *)
(* ChannelTraffic and SimBalance are built on these operators.             *)
(*                                                                         *)
(* An answer is [http, body]: http is the status code, 0 when the call     *)
(* throws; body is what matters of the content.                            *)
(***************************************************************************)
EXTENDS Integers, Sequences, FiniteSets

AdapterNames == {"gwmd", "goip-vendor", "unoapi", "signal-cli-rest-api", "mock"}

NoAnswer == 0
Codes == {NoAnswer, 200, 400, 401, 404, 429, 500}
Ok(r) == r.http = 200

-----------------------------------------------------------------------------
(* capabilities.                                                             *)

GwmdCapabilities == [delivery |-> TRUE, read |-> TRUE, media |-> TRUE, provisioning |-> "qr"]
GoipCapabilities == [delivery |-> TRUE, read |-> FALSE, media |-> FALSE, provisioning |-> "none"]
UnoCapabilities == [delivery |-> TRUE, read |-> TRUE, media |-> TRUE, provisioning |-> "qr"]
SignalCapabilities == [delivery |-> TRUE, read |-> TRUE, media |-> TRUE, provisioning |-> "qr"]
MockCapabilities == [delivery |-> TRUE, read |-> TRUE, media |-> TRUE, provisioning |-> "none"]

Capabilities(a) ==
  CASE a = "gwmd" -> GwmdCapabilities
    [] a = "goip-vendor" -> GoipCapabilities
    [] a = "unoapi" -> UnoCapabilities
    [] a = "signal-cli-rest-api" -> SignalCapabilities
    [] a = "mock" -> MockCapabilities

-----------------------------------------------------------------------------
(* Pairing.  A call throws a ProvisioningError unless ok.                     *)

\* Creates the device, then asks for its QR: the device stays when that fails.
GwmdProvisionQr(create, login) ==
  [ok |-> Ok(create) /\ Ok(login) /\ login.body = "qr", created |-> Ok(create)]

SignalProvisionQr(r) == [ok |-> Ok(r) /\ r.body = "qr", created |-> FALSE]

UnoProvisionQr(r) == [ok |-> Ok(r) /\ r.body = "qr", created |-> FALSE]

\* What provisionQr may come to with these answers.
ProvisionQr(a, answers) ==
  CASE a = "gwmd" -> {GwmdProvisionQr(c, l) : c \in answers, l \in answers}
    [] a = "signal-cli-rest-api" -> {SignalProvisionQr(r) : r \in answers}
    [] a = "unoapi" -> {UnoProvisionQr(r) : r \in answers}

\* Mutant: every device counts.
GwmdListEvery(r, devices) == [ok |-> Ok(r), accounts |-> {d.number : d \in devices}]

\* A body that is no list reads as an empty one.
Listed(r, accounts) == [ok |-> Ok(r), accounts |-> IF r.body = "list" THEN accounts ELSE {}]

\* Only devices a phone has logged in on: a created device waits in the list too.
GwmdList(r, devices) == Listed(r, {d.number : d \in {x \in devices : x.loggedIn}})
SignalList(r, devices) == Listed(r, {d.number : d \in devices})
UnoList(r, devices) == Listed(r, {d.number : d \in devices})

ListProvisionedAccounts(a, r, devices) ==
  CASE a = "gwmd" -> GwmdList(r, devices)
    [] a = "signal-cli-rest-api" -> SignalList(r, devices)
    [] a = "unoapi" -> UnoList(r, devices)

\* A number the sidecar does not know counts as unlinked.
GwmdUnlink(r) == Ok(r) \/ r.http = 404
SignalUnlink(r) == Ok(r) \/ r.http = 404
UnoUnlink(r) == Ok(r) \/ r.http = 404

Unlink(a, r) ==
  CASE a = "gwmd" -> GwmdUnlink(r)
    [] a = "signal-cli-rest-api" -> SignalUnlink(r)
    [] a = "unoapi" -> UnoUnlink(r)

-----------------------------------------------------------------------------
(* send.  The id is a sequence, empty when the answer has none.              *)

Accepted(id) == [accepted |-> TRUE, retryable |-> FALSE, id |-> id]
Refused(retryable) == [accepted |-> FALSE, retryable |-> retryable, id |-> <<>>]
Transient(r) == r.http = NoAnswer \/ r.http >= 500 \/ r.http = 429

GwmdSend(r) == IF Ok(r) THEN Accepted(r.id) ELSE Refused(Transient(r))

UnoSend(r) == IF Ok(r) THEN Accepted(r.id) ELSE Refused(Transient(r))

\* A task can have many recipients, so the server keys reports by both.
GoipId(task, number) == Append(task, number)

\* 429 is final here; a line that is not registered is not.
GoipSend(r, number) ==
  IF ~Ok(r) THEN Refused(r.http = NoAnswer \/ r.http >= 500)
  ELSE IF r.body # "accept" THEN Refused(r.body = "none_line")
  ELSE Accepted(IF r.id = <<>> THEN <<>> ELSE GoipId(r.id, number))

\* findUnregistered asks which recipients have no account; it never throws.
SignalUnregistered(lookup) == Ok(lookup) /\ lookup.body = "unregistered"

SignalSend(r, lookup) ==
  IF r.http = NoAnswer THEN Refused(TRUE)
  ELSE IF ~Ok(r) THEN Refused(Transient(r) /\ ~SignalUnregistered(lookup))
  ELSE IF r.body = "errors" THEN Refused(FALSE)
  ELSE Accepted(r.id)

MockSend(id) == Accepted(id)

-----------------------------------------------------------------------------
(* normalizeStatus: a set with the report, or the empty set.                 *)

Report(id, status) == {[id |-> id, status |-> status]}

GwmdStatusWords == [pending |-> "sent", sent |-> "sent", delivered |-> "delivered",
                    read |-> "read", readself |-> "read", failed |-> "failed"]

GwmdStatus(p) ==
  IF p.event \in {"none", "message_status"} /\ p.status \in DOMAIN GwmdStatusWords
  THEN Report(p.id, GwmdStatusWords[p.status]) ELSE {}

\* Mutant: what the gateway has sent counts as delivered.
GoipSentIsDelivered(p) ==
  CASE p.status \in {"succeeded", "sending"} -> Report(p.id, "delivered")
    [] p.status = "failed" -> Report(p.id, "failed")
    [] OTHER -> {}

\* A receipt is taken for the handset having the message; "unsend" says nothing.
GoipStatus(p) ==
  CASE p.status \in {"succeeded", "sending"} ->
         Report(p.id, IF p.receipt THEN "delivered" ELSE "sent")
    [] p.status = "failed" -> Report(p.id, "failed")
    [] OTHER -> {}

\* Mutant: looks inside the envelope.
SignalEnvelopeStatus(p) ==
  CASE p.event = "receiptMessage" -> Report(p.id, "delivered")
    [] p.event = "dataMessage" -> Report(p.id, "sent")
    [] OTHER -> {}

\* Looks for receiptMessage and dataMessage beside the envelope, not inside it.
SignalStatus(p) ==
  CASE p.outside /\ p.event = "receiptMessage" -> Report(p.id, "delivered")
    [] p.outside /\ p.event = "dataMessage" -> Report(p.id, "sent")
    [] OTHER -> {}

-----------------------------------------------------------------------------
(* normalizeInbound: a set with the message, or the empty set.               *)

Incoming(id, direction, p) == {[id |-> id, direction |-> direction, about |-> p.about]}

\* Mutant: echoes of what was sent from here count.
GwmdEchoesToo(p) ==
  IF p.event \in {"none", "message", "message.reaction"} /\ p.content
  THEN Incoming(p.id, "inbound", p) ELSE {}

GwmdInbound(p) ==
  IF p.event \in {"none", "message", "message.reaction"} /\ ~p.own /\ p.content
  THEN Incoming(p.id, "inbound", p) ELSE {}

\* The vendor gives no id: line, sender, stamp (or arrival time) and text make one.
GoipInbound(p, now) ==
  IF ~p.content THEN {}
  ELSE Incoming(<<p.from, IF p.stamp = 0 THEN now ELSE p.stamp, p.text>>, "inbound", p)

\* A message to us, or one that the operator's own phone sent.
SignalInbound(p) ==
  CASE p.event = "dataMessage" /\ ~p.outside -> Incoming(p.id, "inbound", p)
    [] p.event = "sentMessage" /\ ~p.outside -> Incoming(p.id, "outbound", p)
    [] OTHER -> {}

-----------------------------------------------------------------------------
(* checkBalance of the GoIP adapter: a USSD call and what its reply says.     *)

NoReading(ok) == [ok |-> ok, parsed |-> FALSE, amount |-> 0]

\* Mutant: a debt is read at face value.
ParseAtFaceValue(reply) == [ok |-> TRUE, parsed |-> TRUE, amount |-> reply.figure]

\* The figure is positive either way; the wording says whether it is a debt.
ParseBalance(reply) ==
  [ok |-> TRUE, parsed |-> TRUE, amount |-> IF reply.debt THEN 0 - reply.figure ELSE reply.figure]

SendUssd(r) == Ok(r) /\ r.body # "ERROR"

CheckBalance(r, reply) ==
  IF ~SendUssd(r) THEN NoReading(FALSE)
  ELSE IF ~reply.readable THEN NoReading(TRUE)
  ELSE ParseBalance(reply)
=============================================================================
