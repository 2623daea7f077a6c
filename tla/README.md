# Unified Messaging Gateway: TLA+ models, checks and proofs

UMG connects SMS (GoIP), WhatsApp and Signal numbers to one HTTP API. An *API*
process (NestJS, `apps/api`) and a *worker* process (`apps/worker`) share a
PostgreSQL database (Prisma) and three BullMQ queues in Redis. What makes the
system hard is that almost every operation is a chain of awaited database and
queue calls without a transaction around it, run concurrently by two processes,
cron ticks, queue workers and socket callbacks, each of which may die in between.
The models keep exactly that: **one step per awaited call**, every guard, early
return and catch block, and failures at every await.

## 1. Inventory

| Part | State | Operations | Interacts through | What is hard | Correct when |
|---|---|---|---|---|---|
| Outbound pipeline (`messages.service`, `message-send.processor`, `scheduled-send` and `reconciliation` schedulers) | `messages.status`, history, attempts, `message.send` jobs | send, retry, cancel; process a job; release due messages; re-enqueue stuck ones | queue, database, adapter call | read-then-write handlers, stalled re-runs, job ids that outlive jobs, lost answers | sent only if accepted, bounded calls, nothing stuck, complete history |
| Delivery reports (`inbound-ingest.service` `applyStatus`) | `messages.status` | apply a report | same rows as the processor | late, repeated reports | reports only advance |
| Idempotent send (`messages.service`) | `idempotency_keys` | look up, create in the transaction | primary key | two requests with one key | at most one message per key |
| Outbox and routing (`events.service`, `event-emitter.service`, `outbox-dispatcher`, `routing.service`) | `message_events`, `event_outbox`, rules, links | emit, dispatch every 3 s, match rules, create deliveries | outbox rows, `webhook.deliver` | overlapping ticks, failure in the middle of a fan-out, edits under a running tick | published implies queued for every recipient |
| Webhook delivery (`webhook-deliver.processor`, `deliveries.service`, `destinations.service`) | `webhook_deliveries`, `webhook.deliver` jobs | attempt, retry chain, dead-letter, replay, test, delete | queue, HTTP/SMTP/Bot API | the chain of jobs is the only memory of the next attempt; timeouts after arrival | settled rows stay, attempts bounded, open rows pursued |
| Alerts (both `alerts.service`) | `alerts` | raise (find, then create or refresh), resolve | called by the two processors and the balance check | check-then-create | a dead letter has a firing alert |
| Inbound ingestion (`inbound-webhooks.controller`, `inbound-ingest.*`, `signal-receive.bridge`) | `inbound.ingest` jobs, `messages`, `conversations` | accept a webhook, handle a frame, persist | queue, socket callback, unique index on conversations | duplicates, concurrency of frames, crash between row and event | stored once, filed in one thread, announced |
| Long-SMS reassembly (`sms-concat.*`, `bufferIfPart`, `flushSmsParts`) | `sms_part_buffer` | buffer, flush every 5 s, store | persist | a late segment between read and delete, a changed concat id, segments told by length only | every segment in exactly one message, text as written |
| Signal bridge (`signal-receive.bridge`) | open sockets, cached endpoint ids | reconcile every 30 s, open, close | database, sockets | overlapping ticks with stale reads, close events of older sockets | sockets follow the rows, none leaks |
| Media (`media.service`, `inbound-media.service`, `media-retention`) | files, `attachments` | upload, keep, delete, expire | file system + row, sends | file and row change in separate steps | rows, files and events agree; a message goes out whole |
| SIM balance (`sms-balance.scheduler`, `balance.service`, settings form) | `endpoints.config_json` | daily check, manual check, save | read-modify-write of one document | three writers, many seconds apart | balances are real, recoveries told |
| Provisioning (`provisioning.service`, `ProvisioningWizard`) | `endpoints`, the sidecar's list | QR wizard, poll, unlink, reattach, delete | sidecar account list | overlapping polls, two wizards, a list that lags | a number belongs to one endpoint, wizards end |
| Transport accounts (`transport-accounts.service`, bootstrap) | `transport_accounts`, `endpoints` | create, switch, delete; seed at start | database | the seed runs beside the handlers | one account per sidecar |
| Adapters (`packages/adapters`) | none | send, list, unlink, USSD; normalise webhooks | called by processor, ingest, provisioning | lost answers, echoes, ids that differ between answer and report | ids agree, nothing lost or doubled |
| Test chat (`TestChat.tsx`) | composer, fetched lists | open, type, send | API, polling | the page works on stale lists | replies leave from the thread's number, once |
| Auth, tokens, audit, health, OpenAPI, other UI pages, sidecar stub | – | – | – | – | – |

`PROJECT.json` lists every part with its status and, under `hazards`, what can go
wrong at which line and which property would notice.

## 2. Plan

Done, in this order: **MessageSend** (the core: what happens to a customer's
message) with **MessageSendProofs**; **WebhookDelivery**; **EventFanOut** (an
abstract specification) and **EventRouting**, which implements it, with
**EventRoutingProofs**; **InboundIngest**; **SmsText** and **SmsConcat**;
**MediaStore** and **SendRequests**, which composes it with the sending of files;
**ChannelAdapters**, pure operators that **ChannelTraffic**, **SimBalance** and
**Provisioning** are built on; **SignalBridge**, composed with Provisioning;
**TransportAccounts** and **TestChat**, composed with it.

Then the proofs, one module per group of modules: **MessageSendProofs**,
**EventRoutingProofs**, **WebhookDeliveryProofs**, **InboundIngestProofs**,
**SendRequestsProofs**, **SignalBridgeProofs** (with Provisioning),
**ChannelProofs** (accounts, balance, test chat, traffic) and **SmsConcatProofs**.

Left to prove: what survives of the history and announcement properties of MessageSend
once a failure has happened.
Left to model: a
composition of EventRouting with WebhookDelivery (an accepted event reaches its
destinations), edits of a rule's filters, and the deletion of an endpoint under a
running send job.

## 3. Modules

Conventions: a running handler is a record with a program counter `pc` and the
values it read and still holds; `"idle"` means not running. Failures are actions
guarded by a set of fault kinds and a named bound. BullMQ is modelled from its use:
`add` with a known job id does nothing, even for completed and failed jobs (the
queues keep them); a job of a dead worker is restarted by the stalled check at
most `maxStalledCount` times; every processor has concurrency 1. Payloads, texts,
delays, logging and the audit log are left out: a delayed job is a waiting one and
anything that depends on the clock may happen at any moment.

### MessageSend
State: the message row (`status`, `hist`, `ext`, `attempts`), `events`, `alerts`,
the queue `jobs`, the processor `worker`, API handlers `api`, the lists held by
the scheduler (`due`, `claim`) and the reconciler (`stuck`), report handlers, and
the provider's own count `accepted`.

| Action | Code |
|---|---|
| `Send`, `EnqueueSend` | `MessagesService.send` after validation: one transaction, then `queue.add` |
| `RetryRead/Tx`, `CancelRead/Tx/Remove` | `retry`, `cancel`: the status is read first and the transaction does not look again; the job is removed last |
| `PickUp` … `FinishJob` | `MessageSendProcessor.process`: status, history row, attempt row, adapter call, then the sent or the failed branch; `AfterDbError` says where an exception at each await leads |
| `ReadDue`, `ClaimDue`, `ClaimHistory`, `ClaimEnqueue` | the scheduler tick: read, compare-and-set, history, add |
| `ReadStuck`, `Reconcile` | the reconciler: read, then look for the job by id and add |
| `ReportRead/Update/History` | `applyStatus` with its rank table |
| `WorkerCrash`, `RedisLoss`, `DbError`, `AnswerLost`, `RequestAbandoned`, `ClaimAbandoned` | failures |

### WebhookDelivery
State: the rows (`row`, `count`, `dest`), existing destinations `live`, `jobs`
named `<id>` and `<id>-retry-<n>`, the processor `worker`, concurrent creators
`maker` (routing, replay, test), `dead` (events), `firing` (alerts), and the ghost
counters `calls` and `arrived`. `ReadDelivery` … `FinishJob` follow `process` and
`handleTemporaryFailure` await by await; `Answers`/`Verdict` classify what a
destination of each type may answer; `RowVanished` is Prisma's exception when the
destination was deleted meanwhile.

### EventFanOut, EventRouting
`EventFanOut` is what an outbox promises: an accepted event stays pending until a
job is queued for each recipient, only recipients are ever served, and it is done
in the end; serving twice is allowed (ADR-007, at least once). `EventRouting` has
both emitters (`Emit`: event and outbox row in one transaction; `EmitFromApi`:
the event alone), dispatcher ticks that may overlap because nothing prevents it
(`ReadOutbox`, `MatchRules`, `CreateDelivery`, `EnqueueDelivery`, `Publish`), the
catch block per row (`CallFails`), and operators who switch, link and delete.
`RuleMatches` is the matching of `ruleMatches`, including its rejection of unknown
filter keys. Edits of a rule's priority, event types and filters are not modelled.

### InboundIngest
Notices are arrivals of vendor payloads, possibly several of one external id.
`AcceptWebhook` queues, `HandleFrame` starts `persist` at once (frames run
concurrently), `PickUp` runs one queued job at a time. `CheckExisting`,
`FindThread`, `OpenThread`, `CreateMessage`, `Bump`, `EmitReceived` are the awaits
of `persist` and `findOrCreateConversation`; `SendStart` … `SendWrite` are the
API's send, which opens conversations of the same peers. `InsertThread` is the
unique index on `(endpoint_id, peer_phone_e164)` with the look-up of the winner.

### SmsText, SmsConcat
`SmsText` is `sms-concat.ts` as operators (`looksLikeIncompletePart`,
`repairGluedParts`, `assembleParts`): a character stands for its class (Cyrillic,
Latin, astral, extension, slash) because class and length are all the code looks
at. `At` is JavaScript's `filter` as the elements at some positions, a definition
without recursion, so that it can be proved about. `SmsConcat` has one ingest job at a time (`ReadWaiting`, `Hold`,
`StoreAtOnce`), the timer with its `running` flag (`Flush`, `StorePart`,
`DeleteParts`), the clock as ages of buffered rows, repeated webhooks, and a failing
persist, a crash or a deleted endpoint in between.

### MediaStore, SendRequests
`MediaStore` keeps `disk` and the rows `att` apart; upload, inbound fetch, delete
and the retention job write one of them per step. `SendRequests` extends it with
`MessagesService.send` up to its transaction: `PickEndpoint`, `LookUpKey`,
`CheckAttachments`, `CreateMessage` (message, key and attachments in one
transaction that the key's primary key may refuse), `Enqueue`; the worker's
`Dispatch`, which loads the files; and operators who switch endpoints or delete
them with their messages.

### ChannelAdapters, ChannelTraffic, SimBalance
`ChannelAdapters` has, for each of the five adapters, how it reads answers (send,
QR, list, unlink, USSD) and what it makes of webhook payloads: constant operators
over a status code and what matters of the body. `ChannelTraffic` runs one endpoint
of any adapter against a vendor that takes copies, answers or not, and posts
reports, echoes and messages, repeated and in any order; `Ingest` is
`InboundIngestService` telling them apart. What the ids rest on is in
`TrafficAssumption`: the vendor's ids are unique, and who writes the same text twice
is stamped, with different seconds. `SimBalance` has the daily check, the
check on demand and the settings form, each reading and writing the whole
`configJson`.

### Provisioning, SignalBridge
`Provisioning` has a row per endpoint, the sidecar (`sidecar` paired, `listed`
shown, `pending` created but not scanned), wizards `ui` and running API handlers
`call`, one step per await: `Begin` … `StoreQr`/`StoreFailed` is startQr,
`PollRead` … `PollAnswer` is poll with its three ways to match, then unlink,
reattach, delete, edit. `SignalBridge` adds the worker's `sockets` and
`endpointIds` and overlapping ticks: `ReconcileRead` holds what it read until
`ReconcileApply`.

### TransportAccounts, TestChat
`TransportAccounts` has accounts and their numbers, the operators' routes and the
seed (`ApiStart`, `SeedRead`, `SeedWrite` per adapter in the environment).
`TestChat` adds a browser tab with the lists it last fetched, the composer, and the
request up to the endpoint `send` picks.

## 4. Runs

All runs disable the deadlock check: once the bounded requests are served the
system rests, which is normal.

| Run | Asks | Instance | Result |
|---|---|---|---|
| `send` | Do retry, cancel, scheduler, reconciler, worker and reports interleave safely, what survives a failure, and does every message leave queued/dispatching? | 1 message, 2 attempts; a retry and a cancel by two overlapping handlers; or one handler at a time and any two of a retry, a cancel, 2 reports and 2 failures of any kind | `TypeOK`, `GivenUpIsAnnounced`, `HistoryComplete`, `ExtraCopiesAreAskedFor`, `SentOnlyIfAccepted`, `CallsBounded`, `CancelledRequeuedByRetryOnly`, `StuckRecovered` (unless a failure left the message `Forgotten`), `ReportsAdvance` hold |
| `send_forgotten` | Does the reconciler re-enqueue what failed, was retried and lost its new job? | 1 message, a retry, 1 handler that dies half-way | `StuckReenqueued` violated, see findings |
| `delivery` | Does the retry chain hold together under crashes, lost jobs, deletion, replays? | 1 delivery with 3 attempts, 2 crashes, 1 loss, 1 deletion, 1 resolved alert; or 2 deliveries and one of these | `AttemptsBounded`, `OpenIsPursued`, `SettledTruthfully`, `TerminalStays`, `DeliverySettles` hold |
| `routing_faults` | Does the dispatcher implement the promise? | 2 events, 2 destinations, 2 overlapping ticks that take one row each, 1 fault | `KeepsPromise` holds, liveness included |
| `routing_operators` | … and under edits? | 3 rules, 2 destinations, 1 edit, 1 failing call | `TypeOK`, `PublishedIsQueued` hold |
| `inbound_queue` | What do repeated, late and concurrent arrivals do under failures? | 2 webhooks of one message, 1 older frame, 1 API handler, 2 faults | `QueueStoresOnce`, `FiledAndAnnounced`, `OneThreadPerNumber`, `AcceptedIsStored` hold |
| `sms_concat` | Is a long SMS put together once, whole and in order? | segments of 3 and 4 units; two and three segments and a short SMS of the same sender in every order, and every well-formed two- or three-segment text glued in every way (of 4, 7 and 8 characters); 2 ticks, 1 repeat, 1 fault | `NothingLost`, `StoredOnce`, `ReadsAsWritten`, `HeldIsStored` hold |
| `send_requests` | Do idempotency keys, attachments and endpoints survive races? | 2 requests, 1 key, 1 uploaded and 1 received file, 2 endpoints, 1 edit, 1 fault | `RowsMatchFiles`, `KeyNamesOneMessage`, `RowsFollow`, `GoesOutWhole` hold |
| `provisioning` | Does a wizard link the right number, and end? | 1 wizard that is told either number, 1 linked endpoint, 2 numbers, 2 overlapping handlers, 3 adapters, 1 operation of an operator, 1 fault | `KeepsEarlierNumbers`, `LinkedWasScanned`, `WizardEnds` hold |
| `signal_bridge` | Do the sockets follow the rows? | the same with 3 sockets, 2 overlapping ticks, 1 broken socket or restart | `NoSocketLeaks`, `BridgeConverges` hold |
| `adapters` | Do adapters, ingest, balance, accounts and test chat agree? | four scenes that share nothing, see below | `StatusBacked`, `ReportsCount`, `StoredExactlyOnce`, `BalanceTold`, `SeededOnce`, `RepliesGoRight` hold |
| `provision_steals` | Can two wizards end up with one number? | 2 wizards, nothing fails | `NeverSteals` violated, see findings |

**Scenes.** Where several disturbances together are beyond five minutes, an MC
module names the combinations it looks at (`Scene`, as part of `SceneSpec` or as an action constraint): two handlers, or
one with failures and reports, in `send`; one delivery with everything or two with one disturbance
in `delivery`; requests or a received file in `send_requests`. `adapters` starts in
one of four scenes: traffic of two messages to one number and three heard (two in
the same second, one without a stamp and, except on a SIM, from the endpoint's own
phone; texts and echoes come in beside one copy at the vendor, on a SIM the second of
the same second and the unstamped one before any; one message is tried a second time),
with two posts and a repeat; a SIM with funds above and below zero over three daily
runs, one manual check and two saves; three accounts and three numbers under
three operations and two starts of the API; and the test chat with one change by an
operator. A scene only restricts which actions may happen together, never what they
do.

**Why the bounds are enough.** Messages, deliveries and external ids do not
influence each other except through the sequential processors and the shared
destination, peer, file or key, so one or two of each show all conflicts. Two
handlers give every pairwise race. Attempts of 2 or 3 separate first, middle and
last attempt. Two crashes exceed `maxStalledCount = 1`. Segments of 3 and 4 units
keep both alphabets apart and leave room for a full, a short and a doubled unit at
the cut. Three sockets are one more than there are numbers, so an old one may still
be closing. Properties that only hold without failures, or up to `maxStalledCount`
crashes, say so in their own condition.

**Symmetry** is used for outgoing messages (`adapters`), in a run without liveness
properties. In `send` the second handler is only used while the first is busy.

**Fairness.** Weak fairness of what the runtime does by itself: a started handler
continues (its awaits return), a BullMQ worker takes waiting jobs and checks for
stalled ones, cron ticks and intervals recur, a stopped worker is started again,
the sidecar's list catches up, time passes. Strong fairness is assumed in one
place, the timer of an open wizard (`Tick`): it fires every two seconds whatever
else the API is doing, but in the model a handler slot may be taken each time.
Nothing obliges anybody to send, cancel, retry, report, scan, edit or fail.

**Type invariants** are stated in every module. Two of them are also in the runs, for
modules whose other properties would not notice; the others hold in the same runs
when their name is added to the cfg, and most are proved (section 6).

Every property of a passing run has a mutant of the code (`mutants` in
`PROJECT.json`, the definitions marked `Mutant:` in the modules) that violates it;
one that is a conjunction has a mutant for each part.

## 5. Findings

Run as violations:

* `send_forgotten` — a message fails and BullMQ keeps its failed job; an operator
  retries it, and the process dies after the transaction and before `queue.add`
  (`messages.service.ts:237-248`). The message is queued without a job, but
  `getJob(message.id)` finds the old one and the reconciler goes on to the next
  message, now and for ever (`reconciliation.scheduler.ts:46-47`; its comment at line
  14 and ТЗ.md:1149 say that it re-enqueues). Two deaths of the worker under one job,
  or a database error in the last attempt, end the same way: the job becomes failed
  and the message stays as it was. `StuckRecovered` excepts exactly these messages
  (`Forgotten`); after a loss of Redis alone there are none, and the run `send` shows
  that every message recovers.
* `provision_steals` — two wizards whose scans surface one after the other. Each poll
  reads who holds a number, or its diff, and links in a later write; nothing makes
  `external_id` unique. Both endpoints end up linked to the same number, which the
  comments of `poll` (lines 245 and 261) rule out.

Stated in the modules and refuted by TLC when named in a cfg:

* `CancellationStands` (MessageSend; add it to `send.cfg`): a job that was
  already picked up, or one added by a retry, takes a cancelled message to the
  transport: `process` never looks at the status, though `messages.service.ts:274`
  says the cancellation stands.
* `DeliveredIsDelivered` (ChannelTraffic; `adapters.cfg`): the GoIP adapter makes
  `delivered` of `receipt=1` (`goip-vendor/index.ts:252-254`), which ТЗ.md:628-630
  denies: the field is "a response from the subscriber, not a guaranteed network
  delivery receipt" and "not automatically mapped to `delivered`". In the model a copy
  on a GoIP line may be `"answered"` without having been delivered, its report carries
  the receipt, and the message is shown as delivered. `StatusBacked` excepts that state
  by name.
* `StoredIsRouted` (EventRouting; in `routing_faults.cfg`, with `ApiEvents = {e2}`): the
  API's emitter writes no outbox row, so `message.queued` is never routed (`event-emitter.service.ts:20`).
* `NoEventLost` (InboundIngest; `inbound_queue.cfg`): a crash between the message row
  and its event loses the event, because the retry returns at the existing row
  (`data-model.md:135`).

Further disagreements and weaknesses met while modelling; the models contain them,
and the properties except them by name:

* *Outbound.* A crash between a status and its history row leaves a gap
  (overview.md:196).
* *Delivery.* A retry exists only in Redis (ADR-006 says Redis never holds the only
  copy). A crash after `status = dlq` leaves neither event nor alert. Dead-letter
  events have no loop protection (overview.md:108).
* *Routing.* Overlapping ticks create deliveries twice (overview.md:178). The
  severity filter the API accepts matches nothing (overview.md:96).
* *Inbound.* Two concurrent frames of one message are stored twice (ТЗ.md:552).
* *Long SMS.* After a crash between storing and deleting, a late segment changes the
  concat id, so the de-duplication that `inbound-ingest.service.ts:238` relies on does
  not absorb the replay. A short SMS of the same sender may be taken for the final
  segment, and a second SMS with the text of a waiting segment is dropped as a
  repetition. An all-Latin segment of a Cyrillic SMS is measured as GSM-7. When a last
  segment that begins with a slash and is one unit short of a full one is glued in after
  a first one that ends in a letter and a slash, `repairGluedParts` moves the *first*
  segment and makes up a text that was never written (its comment, lines 82–84, would
  rather leave a text alone): `SlashesMeet`, found when the proof of `RepairIsRight`
  did not go through, and excepted by name.
* *Requests and media.* A second send with the same attachment moves it away from a
  queued message. The loser of two concurrent requests with one key gets an internal
  error; a replay after the automatic choice of a number changed gets a conflict
  (ТЗ.md:734). A key's `expiresAt` is never read. Deleting an endpoint with its history
  leaves files and keys, and a later request with such a key fails for good. A crash
  between file and row leaves an orphan file; one between mark and emit loses
  `media.deleted`.
* *Provisioning.* A WhatsApp wizard that is told a number another endpoint holds links
  it at its first poll, without a scan: the identity match (lines 235–240) looks at no
  other row and the write at 281 is unconditional, so two endpoints have the number.
  When the snapshot fails every account counts as new. A poll that
  read the row earlier may mark a row failed that was just linked, or link it again
  after an unlink. Cancelling a wizard calls unlink, which refuses rows that are not
  linked. The wizard has no way to resume (its comment, lines 32–34, says it has). A
  row deleted under an open wizard, or whose `configJson` is replaced, is polled for
  ever.
* *Signal.* A tick that read earlier may close what a newer one opened until the next
  tick; frames are filed under the previous holder of a number until then. Receipts
  are looked for beside the envelope and never recognised, although the capabilities
  announce delivery reports.
* *Adapters.* A report that overtakes the answer to its send is dropped. Unstamped
  GoIP replays get a new id each time. UnoAPI has no webhook route.
* *Balance.* A check writes back the settings it read before the USSD request. With
  a threshold of 0 the recovery after an unreadable balance is not told. A manual
  check swallows a recovery. A one-off code is saved, which the controller's
  documentation (lines 230–234) denies.
* *Accounts and test chat.* The seed switches on again, at every start, what an
  operator switched off, and overwrites the configuration of an account of the same
  adapter. Without an active account in its lists the chat leaves the account out and
  the API picks any number (the comment at lines 158–162 says it was cured). No
  Idempotency-Key is sent. A successful send empties a draft begun meanwhile.

## 6. Proofs

TLC checks small instances; the theorems hold for every set of messages, deliveries,
handlers, ticks, files, endpoints, numbers, sockets, copies … and all values of the
bounds, from the `ASSUME`s of the modules (which TLC evaluates for the instances) and
from nothing else unless a theorem states it. All have the same shape: an inductive
invariant, a lemma for the start, a lemma per action or group of actions, a theorem
`Spec => []IInv`, and the properties from it. What the invariants add to the properties
is, nearly always, **what a handler read before an await and still relies on after it**.

| Module | Theorem | States |
|---|---|---|
| MessageSendProofs | `TypeCorrect`, `SentOnlyIfAcceptedAlways`, `CallsBoundedAlways`, `HistoryIsComplete`, `GivingUpIsAnnounced`, `CopiesAreAskedFor`, `CancelledStaysUnlessRetried`, `ReportsOnlyAdvance` | `TypeOK`, `SentOnlyIfAccepted`, `CallsBounded`, `HistoryComplete`, `GivenUpIsAnnounced`, `ExtraCopiesAreAskedFor`, `CancelledRequeuedByRetryOnly`, `ReportsAdvance` |
| EventRoutingProofs | `TypeCorrect`, `AtLeastOnce`, `ImplementsFanOut` | `TypeOK`, `PublishedIsQueued`, `Promise!SafeSpec` |
| WebhookDeliveryProofs | `TypeCorrect`, `AttemptsAreBounded`, `OpenRowsArePursued`, `SettledRowsTellTheTruth`, `SettledRowsStay` | `TypeOK`, `AttemptsBounded`, `OpenIsPursued`, `SettledTruthfully`, `TerminalStays` |
| InboundIngestProofs | `TypeCorrect`, `NumbersHaveOneThread`, `QueuedIsStoredOnce`, `StoredAndToldOf` | `TypeOK`, `OneThreadPerNumber`, `QueueStoresOnce`, `FiledAndAnnounced` |
| SendRequestsProofs | `TypeCorrect`, `RowsAndFilesAgree`, `KeysNameOneMessage`, `MessagesGoOutWhole` | `TypeOK`, `RowsMatchFiles`, `KeyNamesOneMessage`, `GoesOutWhole` |
| SignalBridgeProofs | `TypeCorrect`, `OnlyScannedIsLinked`, `EarlierNumbersAreKept`, `BridgeTypeCorrect`, `SocketsAreReached`, `BridgeKeepsProvisioning` | `TypeOK`, `LinkedWasScanned`, `KeepsEarlierNumbers`, `BridgeTypeOK`, `NoSocketLeaks`, `BridgeSpec => Spec` |
| ChannelProofs | `AccountsTypeCorrect`, `SeedsOnce`, `ChatKeepsSeeds`, `BalancesAreReal`, `BalanceIsTold`, `RepliesGoWhereShown`, `TrafficTypeCorrect`, `ShownIsBacked`, `ReportsAreNotLost`, `MessagesAreStoredOnce` | `AccountsTypeOK`, `SeededOnce`, `BalanceIsReal`, `BalanceTold`, `RepliesGoRight`, `TypeOK`, `StatusBacked`, `ReportsCount`, `StoredExactlyOnce` |
| SmsConcatProofs | `TypeCorrect`, `AcknowledgedIsKept`, `NothingStoredTwice`, `TextsAreRight`, `AssembleKeepsEveryPart`, `CleanIsLeftAlone`, `RepairIsRight` | `TypeOK`, `NothingLost`, `StoredOnce`, `ReadsAsWritten`, and what the functions of `sms-concat.ts` do to any text and any parts |

**MessageSend.** `TypeOK` is inductive because it says what a running handler relies
on: its message exists, its job may still run and has attempts and stalls left.
`SentOnlyIfAccepted` needs that `MarkSent` follows an acceptance and that reports exist
for accepted messages only (`AcceptInv`); `CallsBounded` needs a job's calls related to
BullMQ's attempts plus stalls (`CallsInv`). `HistoryComplete`, `GivenUpIsAnnounced` and
`ExtraCopiesAreAskedFor` have "no failure so far" as their condition and share
`CalmInv`: without failures BullMQ's count of attempts and the processor's agree
(`RunningOK`), whoever wrote a status is about to write its history row (`HistoryOK`),
a job that is given up has been told of (`ToldOK`), and copies already accepted, jobs
that may still lead to one and cancellations that may still remove a spent job are
together at most 1 + retries + cancellations (`CopiesOK`): the cancellations count
because removing a spent job frees its id, so that the reconciler adds it again. The
two action properties hold under any failure; `ReportsOnlyAdvance` assumes one handler
of reports at a time, which is BullMQ's default concurrency of the queue (Signal's
receipts, which do not pass through it, are never recognised: see findings), and shows
that the processor does not overtake it.

**EventRouting.** `Inv` adds that unedited rules and destinations are as they were
created (`UneditedStands`) and that whatever a tick owes for its row is queued already,
still in its plan, or the destination it is about to queue (`TickCovers`). Ticks share
nothing that this depends on but counters that only grow, so any number may overlap.
`ImplementsFanOut` assumes `NoEdits` and `KeysKnown` (with an unsupported filter key the
promise fails: such a rule matches nothing); `Emit` maps to `Accept`, `EnqueueDelivery`
to `Serve`, `Publish` to `Finish` or, when an overlapping tick published first, to a
stutter.

**WebhookDelivery.** What the processor read of its row still holds, or the row was
deleted (`WorkerKnows`): nobody else writes an open row, which is also why `TerminalStays`
holds although the processor looks at the status only once. `Budget` puts the calls
made against the recorded count plus the failures. The chain of jobs rests on
`FreshIds` (an id `<d>-retry-<n>` is used at most once, so `add` is never ignored),
`StallsCounted` (a job stalls once per death of the worker) and `HandsOver` (the
processor leaves an open row only when the next job is there).

**InboundIngest.** `OneAtATime`: jobs of the queue run one by one, frames as they come;
`ChecksHold`: between the look-up and the insert nobody else stores a message that only
arrives through the queue, which is why frames are excepted; `UniqueIndex` carries
`OneThreadPerNumber` through the races of both sides; `NotAhead` and `Stored` say that
`last_message_at` was raised before the event.

**SendRequests, MediaStore.** `MediaOK`: a file between its write and its row is on the
disk and nobody can delete it. `KeysOK`: a key is unused or names the one message made
for it and the request it was made from, although the loser of a race has looked it up
before. `LinksOK`: an attachment belongs to a message that exists. `IdsLeft` is about
the model alone: there is a message id left for every request that may need one.

**Provisioning, SignalBridge.** `CallsOK`: a number that a poll is about to write was
paired when the poll read the list. `EarlyOK` is what keeps a wizard off numbers held
before, other than the one it was told: neither diff nor adoption can lead the row, or
any running handler about it, to such a number (`OutOfReach`), because the snapshot it
was created with has it and its holder still does, and identity match only leads to
what the row was told or has been linked to since (`Barred`, `ToldStays`). The told
number itself is excepted by the property: see the findings. The bridge needs that the Map holds open sockets
only, each under its own number. `BridgeKeepsProvisioning` carries every safety theorem
of provisioning over to the composition. Sockets and numbers are assumed finite, as a
tick opens one new socket for each number that has none.

**Accounts, balance, test chat.** `SeedKnows`: while the seed is about to create an
account it has not found, there is none, because only seeds make seeded accounts and
one runs at a time. `AccountsSpec`, `SimSpec` and `ChatSpec` are the components alone;
the run has them as scenes. The balance's invariant follows the copies of `configJson`
that the daily run, the check on demand and the form hold; `BalanceIsTold` assumes that
0 is no threshold, without which it is false (see findings).

**Traffic.** `TrafficInv` links the ids of all parties: copies are numbered as they are
taken, an answer with an id names a copy of the message asked about (`AnswersOK`), a
message with an id is backed by that copy (`MessagesBacked`; a response on a GoIP line
counts as arrival, as it does for the adapter), every report under way
says no more than its copy has reached, and stays true because copies only move on
(`NetOK`), and every row is of a message somebody wrote, under the id its payload
yields (`RowsOK`). Per adapter this needs what each `normalize…` makes of each payload
(`ReportMeaning`, `EchoMeaning`, `MessageMeaning`), that no two messages yield one id
and none that of a copy (`RowIds`), and that a report finds at most the one message it
is about (`ApplyMeaning`). With `BoundsOK` (attempts, posts and repeats keep their
bounds) it also gives the type invariant, whose one statement with content is that an id
a message is known by is one the vendor has given; no run lists it.

**Long SMS: the functions.** These theorems are about every text, every list of parts
and every pair of segment sizes. `AtMeaning` (filtering keeps the elements at the
positions, each once, in order: the count of positions up to a position is a bijection)
gives `AssembleKeepsEveryPart`. For the repair, `CleanSeams` and `WrongSeams` say which
seams of a moved text were seams of the original: if the original is clean, a fix can
only have cut at the ends of the segment that was really misplaced, or beside a slash
there; `Slots` rules the latter out by the lengths of the slots except where
`SlashesMeet`. Hence `CleanIsLeftAlone` and `RepairIsRight`, without induction, because
`Units` counts and nothing is defined recursively.

**Long SMS: the buffer.** `ShapeOK` is inductive under every failure: a webhook about to
be buffered has a text that does not wait yet (jobs run one at a time, so the look-up
still holds at the insert); one tick runs at a time, and what it has read is still the
beginning of the buffer, row by row, while segments are appended behind it; a message
of two parts begins with a full one. From this, `KeptOK` (what a tick has read is stored
or still to be stored by it) and `OnceOK` (a webhook posted once is in one place: to
come, in its job, in the buffer, or in one message; rows no tick has read are not stored;
what a tick has yet to store is neither stored nor in two of its messages). The theorems'
conditions are about what the gateway posts, TLC checks that the scenes meet them, and
they are necessary: `TextsDiffer` for `AcknowledgedIsKept`, since of two webhooks with
one text the second is dropped as a repetition, `SplitInTwo` and `GluedInSlots` for
`TextsAreRight`, which say of which SMS, cut where, the segments are.

**Only model-checked**, and why:

* all liveness properties (`StuckRecovered`, `DeliverySettles`, `AcceptedIsStored`,
  `HeldIsStored`, `RowsFollow`, `WizardEnds`, `BridgeConverges`, and the fairness part of
  `KeepsPromise`): liveness under fairness is out of the prover's reach.

## 7. Not modelled

* Authentication, tokens, audit log, health and OpenAPI endpoints: no state that the
  handlers share.
* The pages of the admin UI other than the test chat, the wizard and the forms of the
  Channels page: lists and forms over the API without state of their own. The routing
  page's edits of a rule's priority, event types and filters are not modelled either.
* `healthCheck`, `queryStatus`, `listLines` of the adapters, which neither application
  calls, and `verifyCode`/`registerSms`, which no adapter implements; how requests are
  built, and the QR image proxy.
* The limits of a hundred or fifty rows per tick of the scheduler and the reconciler
  (the latter is among the hazards: skipped messages keep their place in front). The
  dispatcher's limit is modelled (`Batch`).
* A PATCH of an endpoint's `externalId` or phone, which the admin UI never sends, and
  the match by UUID: only Signal's list may show one, and a row gets it together with
  the phone of the same account, by which it is matched as well. An `endpointId` without `accountId` in a send request counts as none, as in the code
  (`messages.service.ts:36`).
* `toE164` and the schemas of the contracts: string functions and validation.
* The deletion of an endpoint with its history under a running send job or ingest
  (SendRequests has it beside requests, files and keys).
* The sidecar stub, which is a test double, and the container files.
