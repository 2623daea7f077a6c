---------------------------- MODULE EventRouting ----------------------------
(***************************************************************************)
(* From an event to its delivery jobs: EventsService.emit with its         *)
(* transactional outbox, the API's EventEmitterService, the dispatcher     *)
(* that drains event_outbox every three seconds (ticks overlap, nothing    *)
(* keeps the next from starting while one still runs), the routing engine  *)
(* and the operators who edit rules and destinations meanwhile.            *)
(*                                                                         *)
(* Every awaited database read or write and every queue.add is one step.   *)
(* Field selectors and templates shape payloads only and are left out.     *)
(* An edit of a rule switches it or changes its links; switching it off    *)
(* stands for deleting it.  Edits of priority, event types and filters are *)
(* left out: no property speaks of a rule that was edited.                 *)
(* What becomes of a delivery is the matter of module WebhookDelivery.     *)
(***************************************************************************)
EXTENDS Integers, FiniteSets

CONSTANTS
  Events,        \* ids of message_events rows
  EventData,     \* type and attributes of each event
  ApiEvents,     \* events the API emits; the others come from the worker
  Rules,         \* ids of routing_rules rows
  RuleData,      \* priority, event types and filters of each rule
  Destinations,  \* ids of webhook_destinations rows
  Links,         \* the destinations a rule is linked to at first
  Ticks,         \* dispatcher ticks that may run at the same time
  None,          \* no event
  Batch,         \* outbox rows a tick takes
  MaxEdits,      \* bound: edits of rules and destinations
  Faults,        \* kinds of failure that may happen
  MaxFaults      \* bound: failures

FilterKeys == {"channelType", "accountId", "endpointId", "direction", "severity"}
FaultKinds == {"callFails",    \* a database or queue call of a tick throws
               "workerCrash"}  \* the worker process dies

ASSUME BoundsAssumption ==
  /\ Batch \in Nat \ {0}
  /\ {MaxEdits, MaxFaults} \subseteq Nat
  /\ Faults \subseteq FaultKinds
  /\ None \notin Events

ASSUME DataAssumption ==
  /\ ApiEvents \subseteq Events
  /\ Links \in [Rules -> SUBSET Destinations]
  /\ DOMAIN EventData = Events
  /\ DOMAIN RuleData = Rules
  /\ \A e \in Events : DOMAIN EventData[e] = FilterKeys \cup {"type"}
  /\ \A r \in Rules : /\ DOMAIN RuleData[r] = {"priority", "types", "filters"}
                      /\ RuleData[r].priority \in Nat
                      /\ DOMAIN RuleData[r].filters \subseteq FilterKeys

VARIABLES
  outbox,   \* event_outbox row of an event: "none", "unpublished", "published"
  stored,   \* events that have their message_events row
  born,     \* order of creation of the outbox rows
  enabled,  \* rules and destinations that are enabled
  links,    \* the destinations a rule is linked to
  live,     \* destinations that exist
  tick,     \* the running calls of dispatchOutbox
  created,  \* delivery rows created, by event and destination
  queued,   \* delivery jobs added, by event and destination
  edited,   \* rules and destinations an operator has edited
  used      \* what is used up of each bound

vars == <<outbox, stored, born, enabled, links, live, tick, created, queued, edited, used>>

configVars == <<enabled, links, live, edited>>

Idle == [pc |-> "idle", rows |-> {}, row |-> None, plan |-> {}, dest |-> None]
Zeros == [e \in Events |-> [x \in Destinations |-> 0]]

TickRecords == [pc : {"idle", "route", "create", "enqueue", "publish"},
                rows : SUBSET Events, row : Events \cup {None},
                plan : SUBSET (Rules \X Destinations), dest : Destinations \cup {None}]

TicksOK ==
  /\ tick \in [Ticks -> TickRecords]
  /\ \A t \in Ticks :
       /\ tick[t].pc # "idle" => tick[t].row \in tick[t].rows
       /\ tick[t].pc = "create" => tick[t].plan # {}
       /\ tick[t].pc = "enqueue" => tick[t].dest \in Destinations
       /\ \A e \in tick[t].rows : outbox[e] # "none"

\* The type invariant.
TypeOK ==
  /\ outbox \in [Events -> {"none", "unpublished", "published"}]
  /\ stored \in SUBSET Events
  /\ born \in [Events -> Nat]
  /\ enabled \in SUBSET (Rules \cup Destinations)
  /\ links \in [Rules -> SUBSET Destinations]
  /\ live \in SUBSET Destinations
  /\ created \in [Events -> [Destinations -> Nat]]
  /\ queued \in [Events -> [Destinations -> Nat]]
  /\ edited \in SUBSET (Rules \cup Destinations)
  /\ used \in [edit : 0..MaxEdits, fault : 0..MaxFaults]
  /\ \A e \in Events : outbox[e] # "none" => e \in stored
  /\ TicksOK

Init ==
  /\ outbox = [e \in Events |-> "none"]
  /\ stored = {}
  /\ born = [e \in Events |-> 0]
  /\ enabled = Rules \cup Destinations
  /\ links = Links
  /\ live = Destinations
  /\ tick = [t \in Ticks |-> Idle]
  /\ created = Zeros
  /\ queued = Zeros
  /\ edited = {}
  /\ used = [edit |-> 0, fault |-> 0]

-----------------------------------------------------------------------------
(* Emitting.  An event emitted again under its dedupKey changes nothing.     *)

\* The worker's EventsService: event and outbox row in one transaction.
Emit(e) ==
  /\ e \notin ApiEvents \cup stored
  /\ stored' = stored \cup {e}
  /\ outbox' = [outbox EXCEPT ![e] = "unpublished"]
  /\ born' = [born EXCEPT ![e] = Cardinality(stored) + 1]
  /\ UNCHANGED <<configVars, tick, created, queued, used>>

\* The API's EventEmitterService: the event alone.
EmitFromApi(e) ==
  /\ e \in ApiEvents \ stored
  /\ stored' = stored \cup {e}
  /\ UNCHANGED <<outbox, born, configVars, tick, created, queued, used>>

-----------------------------------------------------------------------------
(* dispatchOutbox.                                                           *)

Unpublished == {e \in Events : outbox[e] = "unpublished"}

\* The oldest Batch rows of S.
Oldest(S) == {e \in S : Cardinality({f \in S : born[f] < born[e]}) < Batch}

\* The tick turns to the oldest of the rows it has left.
TurnTo(t, rows) ==
  \/ /\ rows = {}
     /\ tick' = [tick EXCEPT ![t] = Idle]
  \/ \E e \in rows :
       /\ \A f \in rows : born[e] <= born[f]
       /\ tick' = [tick EXCEPT ![t] = [pc |-> "route", rows |-> rows, row |-> e,
                                      plan |-> {}, dest |-> None]]

NextRow(t) == TurnTo(t, tick[t].rows \ {tick[t].row})

ReadOutbox(t) ==
  /\ tick[t].pc = "idle"
  /\ Unpublished # {}
  /\ TurnTo(t, Oldest(Unpublished))
  /\ UNCHANGED <<outbox, stored, born, configVars, created, queued, used>>

\* The filter keys ruleMatches knows.
SupportedKeys == {"channelType", "accountId", "endpointId", "direction"}

\* Does event e satisfy what rule r asks for, of the keys K?
Satisfies(r, e, K) ==
  /\ EventData[e].type \in RuleData[r].types
  /\ \A k \in DOMAIN RuleData[r].filters \cap K :
       EventData[e][k] = RuleData[r].filters[k]

\* A rule with a filter key ruleMatches does not know matches nothing.
RuleMatches(r, e) ==
  /\ DOMAIN RuleData[r].filters \subseteq SupportedKeys
  /\ Satisfies(r, e, SupportedKeys)

\* matchAndDispatch reads the enabled rules with their destinations ...
MatchRules(t) ==
  /\ tick[t].pc = "route"
  /\ LET plan == {p \in Rules \X Destinations :
                    /\ p[1] \in enabled /\ RuleMatches(p[1], tick[t].row)
                    /\ p[2] \in links[p[1]] \cap enabled}
     IN  tick' = [tick EXCEPT ![t].plan = plan,
                              ![t].pc = IF plan = {} THEN "publish" ELSE "create"]
  /\ UNCHANGED <<outbox, stored, born, configVars, created, queued, used>>

\* ... and works through them by priority.
First(plan) == {p \in plan : \A q \in plan : RuleData[p[1]].priority <= RuleData[q[1]].priority}

\* Creating the row of a destination deleted since throws: the tick leaves the
\* event unpublished and turns to its next row.
CreateDelivery(t) ==
  /\ tick[t].pc = "create"
  /\ \E p \in First(tick[t].plan) :
       LET e == tick[t].row
           x == p[2]
       IN  \/ /\ x \in live
              /\ created' = [created EXCEPT ![e][x] = @ + 1]
              /\ tick' = [tick EXCEPT ![t].pc = "enqueue", ![t].dest = x,
                                      ![t].plan = @ \ {p}]
           \/ /\ x \notin live
              /\ NextRow(t)
              /\ UNCHANGED created
  /\ UNCHANGED <<outbox, stored, born, configVars, queued, used>>

\* Mutant: the event is published as soon as its first delivery is queued.
EnqueueDeliveryFirstOnly(t) ==
  /\ tick[t].pc = "enqueue"
  /\ queued' = [queued EXCEPT ![tick[t].row][tick[t].dest] = @ + 1]
  /\ tick' = [tick EXCEPT ![t].pc = "publish", ![t].dest = None]
  /\ UNCHANGED <<outbox, stored, born, configVars, created, used>>

\* Mutant: the end of the plan is not noticed.
EnqueueDeliveryOn(t) ==
  /\ tick[t].pc = "enqueue"
  /\ queued' = [queued EXCEPT ![tick[t].row][tick[t].dest] = @ + 1]
  /\ tick' = [tick EXCEPT ![t].pc = "create", ![t].dest = None]
  /\ UNCHANGED <<outbox, stored, born, configVars, created, used>>

EnqueueDelivery(t) ==
  /\ tick[t].pc = "enqueue"
  /\ queued' = [queued EXCEPT ![tick[t].row][tick[t].dest] = @ + 1]
  /\ tick' = [tick EXCEPT ![t].pc = IF tick[t].plan = {} THEN "publish" ELSE "create",
                          ![t].dest = None]
  /\ UNCHANGED <<outbox, stored, born, configVars, created, used>>

Publish(t) ==
  /\ tick[t].pc = "publish"
  /\ outbox' = [outbox EXCEPT ![tick[t].row] = "published"]
  /\ NextRow(t)
  /\ UNCHANGED <<stored, born, configVars, created, queued, used>>

-----------------------------------------------------------------------------
(* Operators and failures.                                                   *)

Edit(things) ==
  /\ used.edit < MaxEdits
  /\ used' = [used EXCEPT !.edit = @ + 1]
  /\ edited' = edited \cup things
  /\ UNCHANGED <<outbox, stored, born, tick, created, queued>>

\* PATCH of a rule: its enabled flag and its links, in one transaction.
UpdateRule(r, on, dests) ==
  /\ Edit({r})
  /\ dests \subseteq live
  /\ enabled' = IF on THEN enabled \cup {r} ELSE enabled \ {r}
  /\ links' = [links EXCEPT ![r] = dests]
  /\ UNCHANGED live

UpdateDestination(x, on) ==
  /\ Edit({x})
  /\ x \in live
  /\ enabled' = IF on THEN enabled \cup {x} ELSE enabled \ {x}
  /\ UNCHANGED <<links, live>>

\* The links of a deleted destination go with it.
DeleteDestination(x) ==
  /\ Edit({x})
  /\ x \in live
  /\ live' = live \ {x}
  /\ links' = [r \in Rules |-> links[r] \ {x}]
  /\ UNCHANGED enabled

Fault(kind) ==
  /\ kind \in Faults
  /\ used.fault < MaxFaults
  /\ used' = [used EXCEPT !.fault = @ + 1]

\* Mutant: a row whose dispatch failed is published all the same.
CallFailsPublished(t) ==
  /\ Fault("callFails")
  /\ tick[t].pc # "idle"
  /\ outbox' = [outbox EXCEPT ![tick[t].row] = "published"]
  /\ NextRow(t)
  /\ UNCHANGED <<stored, born, configVars, created, queued>>

\* The catch block of a row: leave it unpublished for the next tick.
CallFails(t) ==
  /\ Fault("callFails")
  /\ tick[t].pc # "idle"
  /\ NextRow(t)
  /\ UNCHANGED <<outbox, stored, born, configVars, created, queued>>

WorkerCrash ==
  /\ Fault("workerCrash")
  /\ tick' = [t \in Ticks |-> Idle]
  /\ UNCHANGED <<outbox, stored, born, configVars, created, queued>>

-----------------------------------------------------------------------------
TickNext(t) ==
  \/ ReadOutbox(t)
  \/ MatchRules(t)
  \/ CreateDelivery(t)
  \/ EnqueueDelivery(t)
  \/ Publish(t)

OperatorNext ==
  \/ \E r \in Rules, on \in BOOLEAN, dests \in SUBSET Destinations : UpdateRule(r, on, dests)
  \/ \E x \in Destinations, on \in BOOLEAN : UpdateDestination(x, on)
  \/ \E x \in Destinations : DeleteDestination(x)

Next ==
  \/ \E e \in Events : Emit(e) \/ EmitFromApi(e)
  \/ \E t \in Ticks : TickNext(t) \/ CallFails(t)
  \/ OperatorNext
  \/ WorkerCrash

Spec == Init /\ [][Next]_vars

\* Cron starts ticks forever and a started one runs on; nobody has to emit, edit
\* or fail.
Fairness == \A t \in Ticks : WF_vars(TickNext(t))

FairSpec == Spec /\ Fairness

-----------------------------------------------------------------------------
(* Safety.                                                                   *)

\* At least once: when an event is published, a delivery job has been queued for
\* every destination of every matching rule that no operator has touched,
\* whatever ticks overlap, calls fail and crashes interrupt (dispatchOutbox,
\* lines 42-50: the marker comes last).
PublishedIsQueued ==
  \A e \in Events : outbox[e] = "published" =>
    \A r \in Rules \ edited, x \in Destinations \ edited :
      RuleMatches(r, e) /\ x \in Links[r] => queued[e][x] > 0

\* The rules that ask for e to go to x, all filters taken at their word.
RulesFor(e, x) == {r \in Rules : Satisfies(r, e, FilterKeys) /\ x \in Links[r]}

-----------------------------------------------------------------------------
(* The promise of the outbox, for rules and destinations nobody edits.       *)

Promise == INSTANCE EventFanOut WITH
  Events       <- Events \ ApiEvents,
  Recipients   <- [e \in Events \ ApiEvents |-> {x \in Destinations : RulesFor(e, x) # {}}],
  phase        <- [e \in Events \ ApiEvents |->
                     CASE outbox[e] = "none" -> "new"
                       [] outbox[e] = "unpublished" -> "pending"
                       [] outbox[e] = "published" -> "done"],
  copies       <- [e \in Events \ ApiEvents |-> queued[e]]

\* The dispatcher keeps the outbox's promise: an event stays pending until all
\* its recipients have a delivery job, only its recipients get one, and every
\* accepted event is done in the end, across failures and overlapping ticks.
KeepsPromise == Promise!Spec

-----------------------------------------------------------------------------
(* What documents and comments say of events.                                *)

\* event-emitter.service.ts:20, "The worker consumes these rows and performs the
\* actual routing/delivery": an event the API emits is routed like any other.
StoredIsRouted ==
  \A e \in Events : e \in stored ~>
    \A x \in Destinations : RulesFor(e, x) # {} => queued[e][x] > 0
=============================================================================
