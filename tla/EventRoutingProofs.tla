-------------------------- MODULE EventRoutingProofs --------------------------
(***************************************************************************)
(* What TLAPS proves of EventRouting for every set of events, rules,       *)
(* destinations and ticks, every batch size, every bound on edits and      *)
(* failures: its types, and that a published event was queued.             *)
(***************************************************************************)
EXTENDS EventRouting, FiniteSetTheorems, TLAPS

USE BoundsAssumption

-----------------------------------------------------------------------------
(* The inductive invariant.                                                  *)

\* A rule or destination nobody edited is as it was created.
UneditedStands ==
  /\ Rules \ edited \subseteq enabled
  /\ Destinations \ edited \subseteq enabled
  /\ \A r \in Rules \ edited : Links[r] \ edited \subseteq links[r]

\* Rule r sends event e to destination x, and nobody edited either.
Owed(r, x, e) ==
  r \in Rules \ edited /\ x \in Destinations \ edited /\ RuleMatches(r, e) /\ x \in Links[r]

\* What a tick owes for its row is queued, planned or about to be queued.
TickCovers(k) ==
  /\ k.pc \in {"create", "enqueue", "publish"} =>
       \A r \in Rules, x \in Destinations : Owed(r, x, k.row) =>
          queued[k.row][x] > 0 \/ <<r, x>> \in k.plan \/ (k.pc = "enqueue" /\ k.dest = x)
  /\ k.pc = "publish" => k.plan = {}

Inv ==
  /\ TypeOK
  /\ IsFiniteSet(stored)
  /\ UneditedStands
  /\ \A t \in Ticks : TickCovers(tick[t])
  /\ PublishedIsQueued

-----------------------------------------------------------------------------
(* Steps of a tick.                                                          *)

LEMMA IdleType == Idle \in TickRecords /\ Idle.pc = "idle" /\ Idle.rows = {}
BY DEF Idle, TickRecords

\* Turning to the next row, a tick is idle or routes one of the rows it has left.
LEMMA TurnToEffect ==
  ASSUME tick \in [Ticks -> TickRecords], NEW t \in Ticks, NEW rows \in SUBSET Events,
         TurnTo(t, rows)
  PROVE  /\ tick' \in [Ticks -> TickRecords]
         /\ \A s \in Ticks \ {t} : tick'[s] = tick[s]
         /\ tick'[t].pc \in {"idle", "route"}
         /\ tick'[t].pc = "route" => tick'[t].row \in tick'[t].rows
         /\ tick'[t].rows \subseteq rows
<1>1. CASE rows = {} /\ tick' = [tick EXCEPT ![t] = Idle]
  BY <1>1, IdleType
<1>2. ASSUME NEW e \in rows,
             tick' = [tick EXCEPT ![t] = [pc |-> "route", rows |-> rows, row |-> e,
                                          plan |-> {}, dest |-> None]]
      PROVE  /\ tick' \in [Ticks -> TickRecords]
             /\ \A s \in Ticks \ {t} : tick'[s] = tick[s]
             /\ tick'[t].pc = "route" /\ tick'[t].row \in tick'[t].rows
             /\ tick'[t].rows = rows
  <2> DEFINE k == [pc |-> "route", rows |-> rows, row |-> e, plan |-> {}, dest |-> None]
  <2>1. k \in TickRecords /\ k.pc = "route" /\ k.row = e /\ k.rows = rows
    BY DEF TickRecords
  <2>2. tick' = [tick EXCEPT ![t] = k]
    BY <1>2
  <2> HIDE DEF k
  <2>3. QED
    BY <2>1, <2>2
<1>3. QED
  BY <1>1, <1>2 DEF TurnTo

\* A tick that turns to its next row keeps TicksOK.
LEMMA TurnToTicksOK ==
  ASSUME TypeOK, NEW t \in Ticks, NEW rows \in SUBSET Events, TurnTo(t, rows),
         \A e \in Events : outbox[e] # "none" => outbox'[e] # "none",
         rows \subseteq {e \in Events : outbox[e] # "none"}
  PROVE  TicksOK'
<1>1. \A s \in Ticks : tick[s].rows \subseteq Events
  BY DEF TypeOK, TicksOK, TickRecords
<1>2. /\ tick' \in [Ticks -> TickRecords]
      /\ \A s \in Ticks \ {t} : tick'[s] = tick[s]
      /\ tick'[t].pc \in {"idle", "route"}
      /\ tick'[t].pc = "route" => tick'[t].row \in tick'[t].rows
      /\ tick'[t].rows \subseteq rows
  BY TurnToEffect DEF TypeOK, TicksOK
<1>3. QED
  BY <1>1, <1>2 DEF TypeOK, TicksOK

\* The rows a tick has left after the present one all have their outbox row.
LEMMA RowsLeft ==
  ASSUME TypeOK, NEW t \in Ticks
  PROVE  tick[t].rows \ {tick[t].row} \in SUBSET {e \in Events : outbox[e] # "none"}
BY DEF TypeOK, TicksOK, TickRecords

\* The plan matchAndDispatch reads for the row of tick t.
PlanOf(t) == {p \in Rules \X Destinations :
                /\ p[1] \in enabled /\ RuleMatches(p[1], tick[t].row)
                /\ p[2] \in links[p[1]] \cap enabled}

\* Tick t goes on with its row: only its place, plan and destination change.
GoesOn(t, pc, plan, dest) ==
  tick' = [tick EXCEPT ![t] = [pc |-> pc, rows |-> tick[t].rows, row |-> tick[t].row,
                               plan |-> plan, dest |-> dest]]

LEMMA RecordPlan ==
  ASSUME NEW k \in TickRecords, NEW pc, NEW plan
  PROVE  [k EXCEPT !.plan = plan, !.pc = pc] =
           [pc |-> pc, rows |-> k.rows, row |-> k.row, plan |-> plan, dest |-> k.dest]
<1> DEFINE j == [pc |-> k.pc, rows |-> k.rows, row |-> k.row, plan |-> plan, dest |-> k.dest]
<1>1. k = [pc |-> k.pc, rows |-> k.rows, row |-> k.row, plan |-> k.plan, dest |-> k.dest]
  BY DEF TickRecords
<1>2. [k EXCEPT !.plan = plan] = j
  BY <1>1
<1>3. [k EXCEPT !.plan = plan, !.pc = pc] = [j EXCEPT !.pc = pc]
  BY <1>2, Zenon
<1>4. QED
  BY <1>3

LEMMA RecordDest ==
  ASSUME NEW k \in TickRecords, NEW pc, NEW dest
  PROVE  [k EXCEPT !.pc = pc, !.dest = dest] =
           [pc |-> pc, rows |-> k.rows, row |-> k.row, plan |-> k.plan, dest |-> dest]
<1> DEFINE j == [pc |-> pc, rows |-> k.rows, row |-> k.row, plan |-> k.plan, dest |-> k.dest]
<1>1. k = [pc |-> k.pc, rows |-> k.rows, row |-> k.row, plan |-> k.plan, dest |-> k.dest]
  BY DEF TickRecords
<1>2. [k EXCEPT !.pc = pc] = j
  BY <1>1
<1>3. [k EXCEPT !.pc = pc, !.dest = dest] = [j EXCEPT !.dest = dest]
  BY <1>2, Zenon
<1>4. QED
  BY <1>3

LEMMA MatchRulesGoesOn ==
  ASSUME TypeOK, NEW t \in Ticks, MatchRules(t)
  PROVE  GoesOn(t, IF PlanOf(t) = {} THEN "publish" ELSE "create", PlanOf(t), tick[t].dest)
<1> DEFINE pc == IF PlanOf(t) = {} THEN "publish" ELSE "create"
<1>1. tick' = [tick EXCEPT ![t].plan = PlanOf(t), ![t].pc = pc]
  BY DEF MatchRules, PlanOf
<1> HIDE DEF pc
<1>2. tick \in [Ticks -> TickRecords]
  BY DEF TypeOK, TicksOK
<1>3. GoesOn(t, pc, PlanOf(t), tick[t].dest)
  <2>1. tick' = [tick EXCEPT ![t] = [tick[t] EXCEPT !.plan = PlanOf(t), !.pc = pc]]
    BY <1>1, <1>2
  <2>2. \A plan : [tick[t] EXCEPT !.plan = plan, !.pc = pc] =
          [pc |-> pc, rows |-> tick[t].rows, row |-> tick[t].row, plan |-> plan,
           dest |-> tick[t].dest]
    <3>1. tick[t] \in TickRecords
      BY <1>2
    <3>2. QED
      BY <3>1, RecordPlan, Zenon
  <2>3. QED
    BY <2>1, <2>2, Zenon DEF GoesOn
<1>4. QED
  BY <1>3 DEF pc

LEMMA EnqueueGoesOn ==
  ASSUME TypeOK, NEW t \in Ticks, EnqueueDelivery(t)
  PROVE  GoesOn(t, IF tick[t].plan = {} THEN "publish" ELSE "create", tick[t].plan, None)
<1> DEFINE pc == IF tick[t].plan = {} THEN "publish" ELSE "create"
<1>1. tick' = [tick EXCEPT ![t].pc = pc, ![t].dest = None]
  BY DEF EnqueueDelivery
<1> HIDE DEF pc
<1>2. tick \in [Ticks -> TickRecords]
  BY DEF TypeOK, TicksOK
<1>3. GoesOn(t, pc, tick[t].plan, None)
  <2>1. tick' = [tick EXCEPT ![t] = [tick[t] EXCEPT !.pc = pc, !.dest = None]]
    BY <1>1, <1>2
  <2>2. QED
    BY <1>2, <2>1, RecordDest DEF GoesOn
<1>4. QED
  BY <1>3 DEF pc

LEMMA CreateGoesOn ==
  ASSUME TypeOK, NEW t \in Ticks, NEW p \in tick[t].plan,
         tick' = [tick EXCEPT ![t].pc = "enqueue", ![t].dest = p[2], ![t].plan = @ \ {p}]
  PROVE  GoesOn(t, "enqueue", tick[t].plan \ {p}, p[2])
<1>1. tick \in [Ticks -> TickRecords]
  BY DEF TypeOK, TicksOK
<1>2. QED
  BY <1>1 DEF GoesOn, TickRecords

\* What a tick that goes on with its row looks like afterwards.
LEMMA GoesOnEffect ==
  ASSUME TypeOK, NEW t \in Ticks,
         NEW pc \in {"create", "enqueue", "publish"},
         NEW plan \in SUBSET (Rules \X Destinations), NEW dest \in Destinations \cup {None},
         GoesOn(t, pc, plan, dest)
  PROVE  /\ tick' \in [Ticks -> TickRecords]
         /\ \A s \in Ticks \ {t} : tick'[s] = tick[s]
         /\ tick'[t].pc = pc /\ tick'[t].plan = plan /\ tick'[t].dest = dest
         /\ tick'[t].rows = tick[t].rows /\ tick'[t].row = tick[t].row
<1> DEFINE k == [pc |-> pc, rows |-> tick[t].rows, row |-> tick[t].row,
                 plan |-> plan, dest |-> dest]
<1>1. tick \in [Ticks -> TickRecords] /\ tick' = [tick EXCEPT ![t] = k]
  BY DEF TypeOK, TicksOK, GoesOn
<1>2. /\ k \in TickRecords /\ k.pc = pc /\ k.plan = plan /\ k.dest = dest
      /\ k.rows = tick[t].rows /\ k.row = tick[t].row
  BY <1>1 DEF TickRecords
<1> HIDE DEF k
<1>3. QED
  BY <1>1, <1>2

LEMMA GoesOnTicksOK ==
  ASSUME TypeOK, NEW t \in Ticks,
         NEW pc \in {"create", "enqueue", "publish"},
         NEW plan \in SUBSET (Rules \X Destinations), NEW dest \in Destinations \cup {None},
         GoesOn(t, pc, plan, dest), tick[t].pc # "idle", UNCHANGED outbox,
         pc = "create" => plan # {}, pc = "enqueue" => dest \in Destinations
  PROVE  TicksOK'
<1>1. /\ tick' \in [Ticks -> TickRecords]
      /\ \A s \in Ticks \ {t} : tick'[s] = tick[s]
      /\ tick'[t].pc = pc /\ tick'[t].plan = plan /\ tick'[t].dest = dest
      /\ tick'[t].rows = tick[t].rows /\ tick'[t].row = tick[t].row
  BY GoesOnEffect
<1>2. QED
  BY <1>1 DEF TypeOK, TicksOK

-----------------------------------------------------------------------------
(* Types.                                                                    *)

LEMMA PlanType ==
  ASSUME TypeOK, NEW t \in Ticks, tick[t].pc # "idle"
  PROVE  /\ tick[t].plan \in SUBSET (Rules \X Destinations) /\ tick[t].row \in Events
         /\ tick[t].dest \in Destinations \cup {None}
         /\ \A p \in tick[t].plan : p[1] \in Rules /\ p[2] \in Destinations /\ p = <<p[1], p[2]>>
<1>1. tick[t] \in TickRecords /\ tick[t].row \in tick[t].rows
  BY DEF TypeOK, TicksOK
<1>2. QED
  BY <1>1 DEF TickRecords

\* MatchRules and EnqueueDelivery leave a tick before its next destination or, with
\* nothing planned, before the marker.
LEMMA MatchRulesEffect ==
  ASSUME TypeOK, NEW t \in Ticks, MatchRules(t)
  PROVE  /\ \A s \in Ticks \ {t} : tick'[s] = tick[s]
         /\ tick'[t].plan = PlanOf(t) /\ tick'[t].row = tick[t].row
         /\ tick'[t].pc = IF PlanOf(t) = {} THEN "publish" ELSE "create"
<1>1. tick \in [Ticks -> TickRecords]
  BY DEF TypeOK, TicksOK
<1>2. GoesOn(t, IF PlanOf(t) = {} THEN "publish" ELSE "create", PlanOf(t), tick[t].dest)
  BY MatchRulesGoesOn
<1>3. QED
  BY <1>1, <1>2 DEF GoesOn

LEMMA EnqueueEffect ==
  ASSUME TypeOK, NEW t \in Ticks, EnqueueDelivery(t)
  PROVE  /\ \A s \in Ticks \ {t} : tick'[s] = tick[s]
         /\ tick'[t].plan = tick[t].plan /\ tick'[t].row = tick[t].row
         /\ tick'[t].pc = IF tick[t].plan = {} THEN "publish" ELSE "create"
<1>1. tick \in [Ticks -> TickRecords]
  BY DEF TypeOK, TicksOK
<1>2. GoesOn(t, IF tick[t].plan = {} THEN "publish" ELSE "create", tick[t].plan, None)
  BY EnqueueGoesOn
<1>3. QED
  BY <1>1, <1>2 DEF GoesOn

\* One more delivery row or job keeps the counters natural.
LEMMA CountType ==
  ASSUME NEW f \in [Events -> [Destinations -> Nat]], NEW e \in Events, NEW x \in Destinations
  PROVE  [f EXCEPT ![e][x] = @ + 1] \in [Events -> [Destinations -> Nat]]
<1> DEFINE g == [f[e] EXCEPT ![x] = @ + 1]
<1>1. g \in [Destinations -> Nat]
  OBVIOUS
<1>2. [f EXCEPT ![e] = g] \in [Events -> [Destinations -> Nat]]
  <2> HIDE DEF g
  <2>1. QED
    BY <1>1
<1>3. QED
  BY <1>2

LEMMA EmitTypes ==
  ASSUME TypeOK, IsFiniteSet(stored), NEW e \in Events, Emit(e) \/ EmitFromApi(e)
  PROVE  TypeOK' /\ IsFiniteSet(stored')
<1>1. IsFiniteSet(stored') /\ stored' \in SUBSET Events /\ e \in stored'
      /\ stored \subseteq stored'
  BY FS_AddElement DEF TypeOK, Emit, EmitFromApi
<1>2. Cardinality(stored) \in Nat
  BY FS_CardinalityType
<1>3. born' \in [Events -> Nat]
  BY <1>2 DEF TypeOK, Emit, EmitFromApi
<1>4. /\ outbox' \in [Events -> {"none", "unpublished", "published"}]
      /\ \A f \in Events : outbox'[f] # "none" => f \in stored'
      /\ \A f \in Events : outbox[f] # "none" => outbox'[f] # "none"
  BY <1>1 DEF TypeOK, Emit, EmitFromApi
<1>5. tick' = tick /\ \A t \in Ticks : tick[t].rows \subseteq Events
  BY DEF TypeOK, TicksOK, TickRecords, Emit, EmitFromApi
<1>6. TicksOK'
  BY <1>4, <1>5 DEF TypeOK, TicksOK
<1>7. UNCHANGED <<enabled, links, live, edited, created, queued, used>>
  BY DEF Emit, EmitFromApi, configVars
<1>8. QED
  BY <1>1, <1>3, <1>4, <1>6, <1>7 DEF TypeOK

LEMMA TickTypes ==
  ASSUME TypeOK, NEW t \in Ticks, TickNext(t) \/ CallFails(t)
  PROVE  TypeOK' /\ stored' = stored
<1>1. CASE ReadOutbox(t)
  <2>1. Oldest(Unpublished) \in SUBSET {e \in Events : outbox[e] # "none"}
    BY DEF Oldest, Unpublished
  <2>2. TicksOK'
    BY <1>1, <2>1, TurnToTicksOK DEF ReadOutbox
  <2>3. QED
    BY <1>1, <2>2 DEF TypeOK, ReadOutbox, configVars
<1>2. CASE MatchRules(t)
  <2>1. PlanOf(t) \in SUBSET (Rules \X Destinations) /\ tick[t].pc # "idle" /\ UNCHANGED outbox
    BY <1>2 DEF PlanOf, MatchRules
  <2>2. tick[t].dest \in Destinations \cup {None}
    BY <2>1, PlanType
  <2>3. TicksOK'
    <3>1. PICK pc \in {"create", "publish"} :
            pc = IF PlanOf(t) = {} THEN "publish" ELSE "create"
      OBVIOUS
    <3>2. GoesOn(t, pc, PlanOf(t), tick[t].dest) /\ (pc = "create" => PlanOf(t) # {})
      BY <1>2, <3>1, MatchRulesGoesOn
    <3>3. QED
      BY <2>1, <2>2, <3>2, GoesOnTicksOK
  <2>4. QED
    BY <1>2, <2>3 DEF TypeOK, MatchRules, configVars
<1>3. CASE CreateDelivery(t)
  <2>1. PICK p \in First(tick[t].plan) :
          \/ /\ p[2] \in live
             /\ created' = [created EXCEPT ![tick[t].row][p[2]] = @ + 1]
             /\ tick' = [tick EXCEPT ![t].pc = "enqueue", ![t].dest = p[2], ![t].plan = @ \ {p}]
          \/ p[2] \notin live /\ NextRow(t) /\ UNCHANGED created
    BY <1>3 DEF CreateDelivery
  <2>2. /\ p \in tick[t].plan /\ p[2] \in Destinations /\ tick[t].row \in Events
        /\ tick[t].plan \ {p} \in SUBSET (Rules \X Destinations)
        /\ tick[t].pc # "idle" /\ UNCHANGED outbox
    BY <1>3, <2>1, PlanType DEF CreateDelivery, First
  <2>3. ASSUME tick' = [tick EXCEPT ![t].pc = "enqueue", ![t].dest = p[2],
                                    ![t].plan = @ \ {p}]
        PROVE  TicksOK'
    <3>1. GoesOn(t, "enqueue", tick[t].plan \ {p}, p[2])
      BY <2>2, <2>3, CreateGoesOn
    <3>2. QED
      BY <2>2, <3>1, GoesOnTicksOK
  <2>4. ASSUME NextRow(t) PROVE TicksOK'
    BY <2>2, <2>4, RowsLeft, TurnToTicksOK DEF NextRow
  <2>5. created' \in [Events -> [Destinations -> Nat]]
    <3>1. created \in [Events -> [Destinations -> Nat]]
      BY DEF TypeOK
    <3>2. [created EXCEPT ![tick[t].row][p[2]] = @ + 1] \in [Events -> [Destinations -> Nat]]
      BY <2>2, <3>1, CountType
    <3>3. QED
      BY <2>1, <3>1, <3>2
  <2>6. QED
    BY <1>3, <2>1, <2>3, <2>4, <2>5 DEF TypeOK, CreateDelivery, configVars
<1>4. CASE EnqueueDelivery(t)
  <2>1. tick[t].pc = "enqueue" /\ UNCHANGED outbox
        /\ tick[t].dest \in Destinations
    BY <1>4 DEF EnqueueDelivery, TypeOK, TicksOK
  <2>2. tick[t].plan \in SUBSET (Rules \X Destinations) /\ tick[t].row \in Events
    BY <2>1, PlanType
  <2>3. TicksOK'
    <3>1. PICK pc \in {"create", "publish"} :
            pc = IF tick[t].plan = {} THEN "publish" ELSE "create"
      OBVIOUS
    <3>2. GoesOn(t, pc, tick[t].plan, None) /\ (pc = "create" => tick[t].plan # {})
      BY <1>4, <3>1, EnqueueGoesOn
    <3>3. QED
      BY <2>1, <2>2, <3>2, GoesOnTicksOK
  <2>4. queued' \in [Events -> [Destinations -> Nat]]
    BY <1>4, <2>1, <2>2, CountType DEF TypeOK, EnqueueDelivery
  <2>5. QED
    BY <1>4, <2>3, <2>4 DEF TypeOK, EnqueueDelivery, configVars
<1>5. CASE Publish(t)
  <2>1. tick[t].row \in Events /\ tick[t].row \in tick[t].rows /\ outbox[tick[t].row] # "none"
    BY <1>5, PlanType DEF Publish, TypeOK, TicksOK
  <2>2. /\ outbox' \in [Events -> {"none", "unpublished", "published"}]
        /\ \A e \in Events : outbox[e] # "none" <=> outbox'[e] # "none"
    BY <1>5, <2>1 DEF TypeOK, Publish
  <2>3. TicksOK'
    BY <1>5, <2>2, RowsLeft, TurnToTicksOK DEF Publish, NextRow
  <2>4. QED
    BY <1>5, <2>2, <2>3 DEF TypeOK, Publish, configVars
<1>6. CASE CallFails(t)
  <2>1. TicksOK'
    BY <1>6, RowsLeft, TurnToTicksOK DEF CallFails, NextRow
  <2>2. used' \in [edit : 0..MaxEdits, fault : 0..MaxFaults]
    BY <1>6 DEF TypeOK, CallFails, Fault
  <2>3. QED
    BY <1>6, <2>1, <2>2 DEF TypeOK, CallFails, configVars
<1>7. QED
  BY <1>1, <1>2, <1>3, <1>4, <1>5, <1>6 DEF TickNext

LEMMA EditTypes ==
  ASSUME TypeOK, NEW things \in SUBSET (Rules \cup Destinations), Edit(things),
         enabled' \in SUBSET (Rules \cup Destinations),
         links' \in [Rules -> SUBSET Destinations], live' \in SUBSET Destinations
  PROVE  TypeOK' /\ stored' = stored
<1>1. used' \in [edit : 0..MaxEdits, fault : 0..MaxFaults]
  BY DEF TypeOK, Edit
<1>2. TicksOK'
  BY DEF TypeOK, TicksOK, Edit
<1>3. QED
  BY <1>1, <1>2 DEF TypeOK, Edit

LEMMA OperatorTypes == ASSUME TypeOK, OperatorNext PROVE TypeOK' /\ stored' = stored
<1>1. ASSUME NEW r \in Rules, NEW on \in BOOLEAN, NEW dests \in SUBSET Destinations,
             UpdateRule(r, on, dests)
      PROVE  TypeOK' /\ stored' = stored
  <2>1. /\ enabled' \in SUBSET (Rules \cup Destinations)
        /\ links' \in [Rules -> SUBSET Destinations] /\ live' \in SUBSET Destinations
    BY <1>1 DEF TypeOK, UpdateRule
  <2>2. QED
    BY <1>1, <2>1, EditTypes DEF UpdateRule
<1>2. ASSUME NEW x \in Destinations, NEW on \in BOOLEAN, UpdateDestination(x, on)
      PROVE  TypeOK' /\ stored' = stored
  <2>1. /\ enabled' \in SUBSET (Rules \cup Destinations)
        /\ links' \in [Rules -> SUBSET Destinations] /\ live' \in SUBSET Destinations
    BY <1>2 DEF TypeOK, UpdateDestination
  <2>2. QED
    BY <1>2, <2>1, EditTypes DEF UpdateDestination
<1>3. ASSUME NEW x \in Destinations, DeleteDestination(x)
      PROVE  TypeOK' /\ stored' = stored
  <2>1. /\ enabled' \in SUBSET (Rules \cup Destinations)
        /\ links' \in [Rules -> SUBSET Destinations] /\ live' \in SUBSET Destinations
    BY <1>3 DEF TypeOK, DeleteDestination
  <2>2. QED
    BY <1>3, <2>1, EditTypes DEF DeleteDestination
<1>4. QED
  BY <1>1, <1>2, <1>3 DEF OperatorNext

LEMMA CrashTypes == ASSUME TypeOK, WorkerCrash PROVE TypeOK' /\ stored' = stored
<1>1. used' \in [edit : 0..MaxEdits, fault : 0..MaxFaults]
  BY DEF TypeOK, WorkerCrash, Fault
<1>2. tick' = [t \in Ticks |-> Idle]
  BY DEF WorkerCrash
<1>3. TicksOK'
  BY <1>2, IdleType DEF TicksOK
<1>4. QED
  BY <1>1, <1>3 DEF TypeOK, WorkerCrash, configVars

LEMMA TypesStep ==
  ASSUME TypeOK, IsFiniteSet(stored), [Next]_vars PROVE TypeOK' /\ IsFiniteSet(stored')
<1>1. CASE UNCHANGED vars
  BY <1>1 DEF TypeOK, TicksOK, vars
<1>2. CASE Next
  BY <1>2, EmitTypes, TickTypes, OperatorTypes, CrashTypes DEF Next
<1>3. QED
  BY <1>1, <1>2

-----------------------------------------------------------------------------
(* At least once.                                                            *)

\* Jobs are never taken back and edits are never forgotten.
Grows ==
  /\ edited \subseteq edited'
  /\ \A e \in Events, x \in Destinations : queued[e][x] > 0 => queued'[e][x] > 0

\* What a tick that does not move covers stays covered.
LEMMA OthersCover ==
  ASSUME Inv, NEW t \in Ticks, Grows, tick'[t] = tick[t]
  PROVE  TickCovers(tick[t])'
<1>1. TickCovers(tick[t]) /\ (tick[t].pc # "idle" => tick[t].row \in Events)
  BY PlanType DEF Inv
<1>2. QED
  BY <1>1 DEF TickCovers, Owed, Grows

\* A tick between two rows owes nothing yet.
LEMMA BetweenRowsCovers ==
  ASSUME NEW t \in Ticks, tick'[t].pc \in {"idle", "route"} PROVE TickCovers(tick[t])'
BY DEF TickCovers

\* What was published before stays queued.
LEMMA PublishedStands ==
  ASSUME Inv, Grows, \A e \in Events : outbox'[e] = "published" => outbox[e] = "published"
  PROVE  PublishedIsQueued'
BY DEF Inv, Grows, PublishedIsQueued

\* Turning to its next row, a tick leaves what every tick covers covered.
LEMMA TurnToCovers ==
  ASSUME Inv, Grows, NEW t \in Ticks, NEW rows \in SUBSET Events, TurnTo(t, rows)
  PROVE  \A s \in Ticks : TickCovers(tick[s])'
<1>1. tick'[t].pc \in {"idle", "route"} /\ \A s \in Ticks \ {t} : tick'[s] = tick[s]
  BY TurnToEffect DEF Inv, TypeOK, TicksOK
<1>2. QED
  BY <1>1, OthersCover, BetweenRowsCovers

LEMMA TickSafe ==
  ASSUME Inv, NEW t \in Ticks, TickNext(t) \/ CallFails(t)
  PROVE  (\A s \in Ticks : TickCovers(tick[s])') /\ PublishedIsQueued'
<1> USE DEF Inv
<1>1. CASE ReadOutbox(t)
  <2>1. Grows /\ outbox' = outbox
    BY <1>1 DEF Grows, ReadOutbox, configVars
  <2>2. Oldest(Unpublished) \in SUBSET Events
    BY DEF Oldest, Unpublished
  <2>3. QED
    BY <1>1, <2>1, <2>2, TurnToCovers, PublishedStands DEF ReadOutbox
<1>2. CASE MatchRules(t)
  <2>1. Grows /\ outbox' = outbox /\ edited' = edited /\ queued' = queued
    BY <1>2 DEF Grows, MatchRules, configVars
  <2>4. /\ \A s \in Ticks \ {t} : tick'[s] = tick[s]
        /\ tick'[t].plan = PlanOf(t) /\ tick'[t].row = tick[t].row
        /\ tick'[t].pc = "publish" => PlanOf(t) = {}
    BY <1>2, MatchRulesEffect
  <2>5. ASSUME NEW r \in Rules, NEW x \in Destinations, Owed(r, x, tick[t].row)
        PROVE  <<r, x>> \in PlanOf(t)
    BY <2>5 DEF Owed, PlanOf, UneditedStands
  <2>6. TickCovers(tick[t])'
    BY <2>1, <2>4, <2>5 DEF TickCovers, Owed
  <2>7. QED
    BY <2>1, <2>4, <2>6, OthersCover, PublishedStands
<1>3. CASE CreateDelivery(t)
  <2>1. PICK p \in First(tick[t].plan) :
          \/ tick' = [tick EXCEPT ![t].pc = "enqueue", ![t].dest = p[2], ![t].plan = @ \ {p}]
          \/ NextRow(t)
    BY <1>3 DEF CreateDelivery
  <2>2. /\ p \in tick[t].plan /\ p[2] \in Destinations /\ tick[t].pc = "create"
        /\ p = <<p[1], p[2]>>
        /\ tick[t].plan \ {p} \in SUBSET (Rules \X Destinations)
    BY <1>3, <2>1, PlanType DEF CreateDelivery, First
  <2>3. Grows /\ outbox' = outbox /\ edited' = edited /\ queued' = queued
    BY <1>3 DEF Grows, CreateDelivery, configVars
  <2>4. ASSUME tick' = [tick EXCEPT ![t].pc = "enqueue", ![t].dest = p[2],
                                    ![t].plan = @ \ {p}]
        PROVE  \A s \in Ticks : TickCovers(tick[s])'
    <3>1. /\ \A s \in Ticks \ {t} : tick'[s] = tick[s]
          /\ tick'[t].pc = "enqueue" /\ tick'[t].dest = p[2]
          /\ tick'[t].plan = tick[t].plan \ {p} /\ tick'[t].row = tick[t].row
      <4>1. GoesOn(t, "enqueue", tick[t].plan \ {p}, p[2])
        BY <2>2, <2>4, CreateGoesOn
      <4>2. QED
        BY <2>2, <4>1, GoesOnEffect
    <3>2. ASSUME NEW r \in Rules, NEW x \in Destinations, Owed(r, x, tick[t].row)
          PROVE  queued[tick[t].row][x] > 0 \/ <<r, x>> \in tick[t].plan \ {p} \/ p[2] = x
      BY <2>2, <3>2 DEF TickCovers
    <3>3. TickCovers(tick[t])'
      BY <2>3, <3>1, <3>2 DEF TickCovers, Owed
    <3>4. QED
      BY <2>3, <3>1, <3>3, OthersCover
  <2>5. ASSUME NextRow(t) PROVE \A s \in Ticks : TickCovers(tick[s])'
    BY <2>3, <2>5, RowsLeft, TurnToCovers DEF NextRow
  <2>6. QED
    BY <2>1, <2>3, <2>4, <2>5, PublishedStands
<1>4. CASE EnqueueDelivery(t)
  <2>1. /\ tick[t].pc = "enqueue" /\ tick[t].dest \in Destinations /\ tick[t].row \in Events
        /\ tick[t].plan \in SUBSET (Rules \X Destinations)
    BY <1>4, PlanType DEF EnqueueDelivery, TypeOK, TicksOK
  <2>2. /\ outbox' = outbox /\ edited' = edited
        /\ queued' = [queued EXCEPT ![tick[t].row][tick[t].dest] = @ + 1]
    BY <1>4 DEF EnqueueDelivery, configVars
  <2>3. Grows /\ queued'[tick[t].row][tick[t].dest] > 0
    BY <2>1, <2>2 DEF Grows, TypeOK
  <2>4. /\ \A s \in Ticks \ {t} : tick'[s] = tick[s]
        /\ tick'[t].plan = tick[t].plan /\ tick'[t].row = tick[t].row
        /\ tick'[t].pc = "publish" => tick[t].plan = {}
    BY <1>4, EnqueueEffect
  <2>5. ASSUME NEW r \in Rules, NEW x \in Destinations, Owed(r, x, tick[t].row)
        PROVE  queued'[tick[t].row][x] > 0 \/ <<r, x>> \in tick[t].plan
    BY <2>1, <2>3, <2>5 DEF TickCovers, Grows
  <2>6. TickCovers(tick[t])'
    BY <2>2, <2>4, <2>5 DEF TickCovers, Owed
  <2>7. QED
    BY <2>2, <2>3, <2>4, <2>6, OthersCover, PublishedStands
<1>5. CASE Publish(t)
  <2>1. /\ tick[t].pc = "publish" /\ tick[t].row \in Events /\ tick[t].plan = {}
    BY <1>5, PlanType DEF Publish, TickCovers
  <2>2. Grows /\ edited' = edited /\ queued' = queued
    BY <1>5 DEF Grows, Publish, configVars
  <2>3. \A s \in Ticks : TickCovers(tick[s])'
    BY <1>5, <2>2, RowsLeft, TurnToCovers DEF Publish, NextRow
  <2>4. ASSUME NEW e \in Events, outbox'[e] = "published",
               NEW r \in Rules \ edited, NEW x \in Destinations \ edited,
               RuleMatches(r, e), x \in Links[r]
        PROVE  queued[e][x] > 0
    <3>1. CASE e = tick[t].row
      BY <2>1, <2>4, <3>1 DEF TickCovers, Owed
    <3>2. CASE e # tick[t].row
      BY <1>5, <2>1, <2>4, <3>2 DEF Publish, PublishedIsQueued, TypeOK
    <3>3. QED
      BY <3>1, <3>2
  <2>5. PublishedIsQueued'
    BY <2>2, <2>4 DEF PublishedIsQueued
  <2>6. QED
    BY <2>3, <2>5
<1>6. CASE CallFails(t)
  <2>1. Grows /\ outbox' = outbox
    BY <1>6 DEF Grows, CallFails, configVars
  <2>2. QED
    BY <1>6, <2>1, RowsLeft, TurnToCovers, PublishedStands DEF CallFails, NextRow
<1>7. QED
  BY <1>1, <1>2, <1>3, <1>4, <1>5, <1>6 DEF TickNext

\* Edits and everything else keep what nobody edited as it was.
LEMMA UneditedStep ==
  ASSUME TypeOK, UneditedStands, [Next]_vars PROVE UneditedStands'
<1>1. CASE UNCHANGED configVars
  BY <1>1 DEF UneditedStands, configVars
<1>2. ASSUME NEW r \in Rules, NEW on \in BOOLEAN, NEW dests \in SUBSET Destinations,
             UpdateRule(r, on, dests)
      PROVE  UneditedStands'
  <2>1. edited' = edited \cup {r} /\ enabled \ {r} \subseteq enabled'
        /\ \A s \in Rules \ {r} : links'[s] = links[s]
    BY <1>2 DEF UpdateRule, Edit, TypeOK
  <2>2. QED
    BY <2>1 DEF UneditedStands
<1>3. ASSUME NEW x \in Destinations, NEW on \in BOOLEAN, UpdateDestination(x, on)
      PROVE  UneditedStands'
  BY <1>3 DEF UneditedStands, UpdateDestination, Edit
<1>4. ASSUME NEW x \in Destinations, DeleteDestination(x)
      PROVE  UneditedStands'
  BY <1>4 DEF UneditedStands, DeleteDestination, Edit
<1>5. QED
  BY <1>1, <1>2, <1>3, <1>4 DEF Next, OperatorNext, TickNext, Emit, EmitFromApi, ReadOutbox,
     MatchRules, CreateDelivery, EnqueueDelivery, Publish, CallFails, WorkerCrash, vars,
     configVars

LEMMA InvInit == Init => Inv
<1> SUFFICES ASSUME Init PROVE Inv
  OBVIOUS
<1>1. tick = [t \in Ticks |-> Idle]
  BY DEF Init
<1>2. TicksOK
  BY <1>1, IdleType DEF TicksOK
<1>3. TypeOK
  BY <1>2, DataAssumption DEF Init, TypeOK, Zeros
<1>4. IsFiniteSet(stored)
  BY FS_EmptySet DEF Init
<1>5. UneditedStands
  BY DEF Init, UneditedStands
<1>6. \A t \in Ticks : TickCovers(tick[t])
  BY <1>1, IdleType DEF TickCovers
<1>7. PublishedIsQueued
  BY DEF Init, PublishedIsQueued
<1>8. QED
  BY <1>3, <1>4, <1>5, <1>6, <1>7 DEF Inv

LEMMA InvStep == Inv /\ [Next]_vars => Inv'
<1> SUFFICES ASSUME Inv, [Next]_vars PROVE Inv'
  OBVIOUS
<1>1. TypeOK' /\ IsFiniteSet(stored')
  BY TypesStep DEF Inv
<1>2. UneditedStands'
  BY UneditedStep DEF Inv
<1>3. (\A t \in Ticks : TickCovers(tick[t])') /\ PublishedIsQueued'
  <2>1. CASE UNCHANGED <<outbox, tick, queued>> /\ edited \subseteq edited'
    <3>1. Grows
      BY <2>1 DEF Grows
    <3>2. QED
      BY <2>1, <3>1, OthersCover, PublishedStands
  <2>2. ASSUME NEW e \in Events, Emit(e)
        PROVE  (\A t \in Ticks : TickCovers(tick[t])') /\ PublishedIsQueued'
    <3>1. Grows /\ tick' = tick
      BY <2>2 DEF Grows, Emit, configVars
    <3>2. \A f \in Events : outbox'[f] = "published" => outbox[f] = "published"
      BY <2>2 DEF Emit, Inv, TypeOK
    <3>3. QED
      BY <3>1, <3>2, OthersCover, PublishedStands
  <2>3. CASE WorkerCrash
    <3>1. Grows /\ outbox' = outbox
      BY <2>3 DEF Grows, WorkerCrash, configVars
    <3>2. \A t \in Ticks : tick'[t].pc = "idle"
      BY <2>3, IdleType DEF WorkerCrash
    <3>3. QED
      BY <3>1, <3>2, BetweenRowsCovers, PublishedStands
  <2>4. CASE OperatorNext
    BY <2>1, <2>4 DEF OperatorNext, UpdateRule, UpdateDestination, DeleteDestination, Edit
  <2>5. CASE UNCHANGED vars
    BY <2>1, <2>5 DEF vars
  <2>6. ASSUME NEW e \in Events, EmitFromApi(e)
        PROVE  (\A t \in Ticks : TickCovers(tick[t])') /\ PublishedIsQueued'
    BY <2>1, <2>6 DEF EmitFromApi, configVars
  <2>7. QED
    BY <2>2, <2>3, <2>4, <2>5, <2>6, TickSafe DEF Next
<1>4. QED
  BY <1>1, <1>2, <1>3 DEF Inv

\* The types of EventRouting hold in every reachable state.
THEOREM TypeCorrect == Spec => []TypeOK
<1>1. Inv => TypeOK
  BY DEF Inv
<1>2. QED
  BY <1>1, InvInit, InvStep, PTL DEF Spec

\* At least once (dispatchOutbox, which sets the marker last): when an event is published,
\* a delivery job has been queued for every destination of every matching rule
\* nobody edited, however ticks overlap and whatever fails or crashes.
THEOREM AtLeastOnce == Spec => []PublishedIsQueued
<1>1. Inv => PublishedIsQueued
  BY DEF Inv
<1>2. QED
  BY <1>1, InvInit, InvStep, PTL DEF Spec

-----------------------------------------------------------------------------
(* The dispatcher implements EventFanOut, as far as safety goes, when nobody *)
(* edits rules or destinations and ruleMatches knows every filter key.       *)

NoEdits == MaxEdits = 0
KeysKnown == \A r \in Rules : DOMAIN RuleData[r].filters \subseteq SupportedKeys

WorkerEvents == Events \ ApiEvents

Recipient(e, x) == \E r \in Rules : RuleMatches(r, e) /\ x \in Links[r]

\* A tick plans nothing but what the rules ask for.
TickServes(k) ==
  /\ \A p \in k.plan : RuleMatches(p[1], k.row) /\ p[2] \in Links[p[1]]
  /\ k.pc = "enqueue" => Recipient(k.row, k.dest)

PromiseInv ==
  /\ Inv
  /\ edited = {} /\ links = Links
  /\ \A e \in ApiEvents : outbox[e] = "none"
  /\ \A t \in Ticks : TickServes(tick[t])

LEMMA RecipientsAre ==
  ASSUME KeysKnown, NEW e \in Events, NEW x \in Destinations
  PROVE  Recipient(e, x) <=> RulesFor(e, x) # {}
BY DataAssumption DEF KeysKnown, Recipient, RulesFor, RuleMatches, Satisfies, SupportedKeys,
   FilterKeys

LEMMA TurnToServes ==
  ASSUME TypeOK, NEW t \in Ticks, NEW rows \in SUBSET Events, TurnTo(t, rows),
         \A s \in Ticks : TickServes(tick[s])
  PROVE  \A s \in Ticks : TickServes(tick[s])'
<1>1. tick \in [Ticks -> TickRecords]
  BY DEF TypeOK, TicksOK
<1>2. \A s \in Ticks \ {t} : tick'[s] = tick[s]
  BY <1>1, TurnToEffect
<1>3. tick'[t].plan = {} /\ tick'[t].pc # "enqueue"
  BY <1>1 DEF TurnTo, Idle
<1>4. QED
  BY <1>2, <1>3 DEF TickServes, Recipient

LEMMA TickServesStep ==
  ASSUME PromiseInv, NEW t \in Ticks, TickNext(t) \/ CallFails(t)
  PROVE  \A s \in Ticks : TickServes(tick[s])'
<1> USE DEF PromiseInv, Inv
<1>1. CASE ReadOutbox(t)
  <2>1. Oldest(Unpublished) \in SUBSET Events
    BY DEF Oldest, Unpublished
  <2>2. QED
    BY <1>1, <2>1, TurnToServes DEF ReadOutbox
<1>2. CASE MatchRules(t)
  <2>3. /\ \A s \in Ticks \ {t} : tick'[s] = tick[s]
        /\ tick'[t].plan = PlanOf(t) /\ tick'[t].row = tick[t].row
        /\ tick'[t].pc # "enqueue"
    BY <1>2, MatchRulesEffect
  <2>4. \A p \in PlanOf(t) : RuleMatches(p[1], tick[t].row) /\ p[2] \in Links[p[1]]
    BY DEF PlanOf
  <2>5. TickServes(tick[t])'
    BY <2>3, <2>4 DEF TickServes
  <2>6. QED
    BY <2>3, <2>5 DEF TickServes, Recipient
<1>3. CASE CreateDelivery(t)
  <2>1. PICK p \in First(tick[t].plan) :
          \/ tick' = [tick EXCEPT ![t].pc = "enqueue", ![t].dest = p[2], ![t].plan = @ \ {p}]
          \/ NextRow(t)
    BY <1>3 DEF CreateDelivery
  <2>2. /\ p \in tick[t].plan /\ p[1] \in Rules /\ p[2] \in Destinations
        /\ tick[t].plan \ {p} \in SUBSET (Rules \X Destinations)
    BY <1>3, <2>1, PlanType DEF CreateDelivery, First
  <2>3. ASSUME tick' = [tick EXCEPT ![t].pc = "enqueue", ![t].dest = p[2],
                                    ![t].plan = @ \ {p}]
        PROVE  \A s \in Ticks : TickServes(tick[s])'
    <3>1. GoesOn(t, "enqueue", tick[t].plan \ {p}, p[2])
      BY <2>2, <2>3, CreateGoesOn
    <3>2. /\ \A s \in Ticks \ {t} : tick'[s] = tick[s]
          /\ tick'[t].dest = p[2]
          /\ tick'[t].plan = tick[t].plan \ {p} /\ tick'[t].row = tick[t].row
      BY <2>2, <3>1, GoesOnEffect
    <3>3. Recipient(tick[t].row, p[2])
      BY <2>2 DEF TickServes, Recipient
    <3>4. TickServes(tick[t])'
      BY <3>2, <3>3 DEF TickServes, Recipient
    <3>5. QED
      BY <3>2, <3>4 DEF TickServes, Recipient
  <2>4. ASSUME NextRow(t) PROVE \A s \in Ticks : TickServes(tick[s])'
    BY <2>4, RowsLeft, TurnToServes DEF NextRow
  <2>5. QED
    BY <2>1, <2>3, <2>4
<1>4. CASE EnqueueDelivery(t)
  <2>2. /\ \A s \in Ticks \ {t} : tick'[s] = tick[s]
        /\ tick'[t].plan = tick[t].plan /\ tick'[t].row = tick[t].row
        /\ tick'[t].pc # "enqueue"
    BY <1>4, EnqueueEffect
  <2>3. QED
    BY <2>2 DEF TickServes, Recipient
<1>5. CASE Publish(t)
  BY <1>5, RowsLeft, TurnToServes DEF Publish, NextRow
<1>6. CASE CallFails(t)
  BY <1>6, RowsLeft, TurnToServes DEF CallFails, NextRow
<1>7. QED
  BY <1>1, <1>2, <1>3, <1>4, <1>5, <1>6 DEF TickNext

LEMMA PromiseInvInit == Init => PromiseInv
<1> SUFFICES ASSUME Init PROVE PromiseInv
  OBVIOUS
<1>1. tick = [t \in Ticks |-> Idle]
  BY DEF Init
<1>2. \A t \in Ticks : TickServes(tick[t])
  BY <1>1 DEF TickServes, Idle
<1>3. QED
  BY <1>2, InvInit, DataAssumption DEF Init, PromiseInv

LEMMA PromiseInvStep == ASSUME NoEdits PROVE PromiseInv /\ [Next]_vars => PromiseInv'
<1> SUFFICES ASSUME PromiseInv, [Next]_vars PROVE PromiseInv'
  OBVIOUS
<1>1. Inv'
  BY InvStep DEF PromiseInv
<1>2. ~ OperatorNext
  BY DEF OperatorNext, UpdateRule, UpdateDestination, DeleteDestination, Edit, PromiseInv, Inv,
     TypeOK, NoEdits
<1>3. edited' = edited /\ links' = links
  BY <1>2 DEF Next, TickNext, Emit, EmitFromApi, ReadOutbox, MatchRules, CreateDelivery,
     EnqueueDelivery, Publish, CallFails, WorkerCrash, vars, configVars
<1>4. \A e \in ApiEvents : outbox'[e] = "none"
  <2>1. CASE outbox' = outbox
    BY <2>1 DEF PromiseInv
  <2>2. ASSUME NEW e \in Events, Emit(e) PROVE \A f \in ApiEvents : outbox'[f] = "none"
    BY <2>2, DataAssumption DEF Emit, PromiseInv, Inv, TypeOK
  <2>3. ASSUME NEW t \in Ticks, Publish(t) PROVE \A f \in ApiEvents : outbox'[f] = "none"
    <3>1. tick[t].row \in Events /\ outbox[tick[t].row] # "none"
      BY <2>3, PlanType DEF Publish, PromiseInv, Inv, TypeOK, TicksOK
    <3>2. QED
      BY <2>3, <3>1, DataAssumption DEF Publish, PromiseInv, Inv, TypeOK
  <2>4. QED
    BY <1>2, <2>1, <2>2, <2>3 DEF Next, TickNext, EmitFromApi, ReadOutbox, MatchRules,
       CreateDelivery, EnqueueDelivery, CallFails, WorkerCrash, vars
<1>5. \A t \in Ticks : TickServes(tick[t])'
  <2>1. CASE tick' = tick
    BY <2>1 DEF PromiseInv, TickServes, Recipient
  <2>2. CASE WorkerCrash
    <3>1. \A t \in Ticks : tick'[t].plan = {} /\ tick'[t].pc # "enqueue"
      BY <2>2 DEF WorkerCrash, Idle
    <3>2. QED
      BY <3>1 DEF TickServes
  <2>3. QED
    BY <1>2, <2>1, <2>2, TickServesStep DEF Next, Emit, EmitFromApi, vars
<1>6. QED
  BY <1>1, <1>3, <1>4, <1>5 DEF PromiseInv

\* The phase EventFanOut sees for the outbox state of an event.
PhaseOf(o) == CASE o = "none" -> "new"
                [] o = "unpublished" -> "pending"
                [] o = "published" -> "done"

LEMMA Phases ==
  /\ PhaseOf("none") = "new" /\ PhaseOf("unpublished") = "pending"
  /\ PhaseOf("published") = "done"
BY DEF PhaseOf

MappedPhase == [e \in WorkerEvents |-> PhaseOf(outbox[e])]
MappedCopies == [e \in WorkerEvents |-> queued[e]]
MappedRecipients == [e \in WorkerEvents |-> {x \in Destinations : RulesFor(e, x) # {}}]

LEMMA PromiseStutter ==
  ASSUME outbox' = outbox, queued' = queued PROVE UNCHANGED Promise!vars
BY DEF Promise!vars

LEMMA EmitAccepts ==
  ASSUME TypeOK, NEW e \in Events, Emit(e) PROVE Promise!Next
<1>1. e \in WorkerEvents /\ outbox[e] = "none" /\ queued' = queued
      /\ outbox' = [outbox EXCEPT ![e] = "unpublished"]
  BY DEF TypeOK, Emit, WorkerEvents
<1>2. MappedPhase[e] = "new" /\ MappedPhase' = [MappedPhase EXCEPT ![e] = "pending"]
  BY <1>1, Phases DEF MappedPhase, TypeOK, WorkerEvents
<1>3. Promise!Accept(e)
  BY <1>1, <1>2 DEF Promise!Accept, MappedPhase, PhaseOf, WorkerEvents
<1>4. QED
  BY <1>1, <1>3 DEF Promise!Next, WorkerEvents

LEMMA EnqueueServes ==
  ASSUME PromiseInv, KeysKnown, NEW t \in Ticks, EnqueueDelivery(t) PROVE Promise!Next
<1>1. PICK e \in Events, x \in Destinations :
        e = tick[t].row /\ x = tick[t].dest /\ outbox[e] # "none"
  BY PlanType DEF EnqueueDelivery, PromiseInv, Inv, TypeOK, TicksOK
<1>2. e \in WorkerEvents /\ Recipient(e, x)
  BY <1>1 DEF EnqueueDelivery, PromiseInv, TickServes, WorkerEvents
<1>3. x \in MappedRecipients[e]
  BY <1>1, <1>2, RecipientsAre DEF MappedRecipients
<1>4. MappedPhase[e] \in {"pending", "done"}
  BY <1>1, <1>2, Phases DEF MappedPhase, PromiseInv, Inv, TypeOK
<1>5. outbox' = outbox /\ queued' = [queued EXCEPT ![e][x] = @ + 1]
  BY <1>1 DEF EnqueueDelivery
<1>6. MappedCopies' = [MappedCopies EXCEPT ![e][x] = @ + 1]
  BY <1>1, <1>2, <1>5 DEF MappedCopies, PromiseInv, Inv, TypeOK, WorkerEvents
<1>7. Promise!Serve(e, x)
  <2>1. MappedPhase' = MappedPhase
    BY <1>5 DEF MappedPhase
  <2>2. QED
    BY <1>3, <1>4, <1>6, <2>1, Zenon DEF Promise!Serve, MappedPhase, MappedCopies,
       MappedRecipients, PhaseOf, WorkerEvents
<1>8. QED
  BY <1>1, <1>2, <1>7 DEF Promise!Next, WorkerEvents

LEMMA PublishFinishes ==
  ASSUME PromiseInv, KeysKnown, NEW t \in Ticks, Publish(t)
  PROVE  Promise!Next \/ UNCHANGED Promise!vars
<1>1. PICK e \in Events :
        /\ e = tick[t].row /\ outbox[e] # "none" /\ queued' = queued
        /\ outbox' = [outbox EXCEPT ![e] = "published"]
  BY PlanType DEF Publish, PromiseInv, Inv, TypeOK, TicksOK
<1>2. e \in WorkerEvents
  BY <1>1 DEF PromiseInv, WorkerEvents
<1>3. \A x \in MappedRecipients[e] : MappedCopies[e][x] > 0
  <2>1. tick[t].plan = {} /\ tick[t].pc = "publish"
    BY DEF Publish, PromiseInv, Inv, TickCovers
  <2>2. ASSUME NEW x \in Destinations, Recipient(e, x) PROVE queued[e][x] > 0
    BY <1>1, <2>1, <2>2 DEF PromiseInv, Inv, TickCovers, Owed, Recipient
  <2>3. QED
    BY <1>1, <1>2, <2>2, RecipientsAre DEF MappedRecipients, MappedCopies
<1>4. CASE outbox[e] = "published"
  <2>1. outbox' = outbox
    BY <1>1, <1>4 DEF PromiseInv, Inv, TypeOK
  <2>2. QED
    BY <1>1, <2>1, PromiseStutter
<1>5. CASE outbox[e] = "unpublished"
  <2>1. MappedPhase[e] = "pending" /\ MappedPhase' = [MappedPhase EXCEPT ![e] = "done"]
    BY <1>1, <1>2, <1>5, Phases DEF MappedPhase, PromiseInv, Inv, TypeOK, WorkerEvents
  <2>2. Promise!Finish(e)
    BY <1>1, <1>3, <2>1 DEF Promise!Finish, MappedPhase, MappedCopies, MappedRecipients,
       PhaseOf, WorkerEvents
  <2>3. QED
    BY <1>2, <2>2 DEF Promise!Next, WorkerEvents
<1>6. QED
  BY <1>1, <1>4, <1>5 DEF PromiseInv, Inv, TypeOK

\* When nobody edits rules or destinations and every filter key is one ruleMatches
\* knows, the overlapping, failing, crashing ticks of dispatchOutbox implement the
\* safety part of EventFanOut: an event is done only after a job for each of its
\* recipients, and a job is queued for recipients of an accepted event only.
THEOREM ImplementsFanOut ==
  ASSUME NoEdits, KeysKnown PROVE Spec => Promise!SafeSpec
<1>1. Init => Promise!Init
  BY Phases, DataAssumption DEF Init, Promise!Init, Zeros, PhaseOf
<1>2. PromiseInv /\ [Next]_vars => [Promise!Next]_(Promise!vars)
  <2> SUFFICES ASSUME PromiseInv, [Next]_vars PROVE Promise!Next \/ UNCHANGED Promise!vars
    OBVIOUS
  <2>1. CASE outbox' = outbox /\ queued' = queued
    BY <2>1, PromiseStutter
  <2>2. ASSUME NEW e \in Events, Emit(e) PROVE Promise!Next
    BY <2>2, EmitAccepts DEF PromiseInv, Inv
  <2>3. QED
    BY <2>1, <2>2, EnqueueServes, PublishFinishes DEF Next, TickNext, EmitFromApi, ReadOutbox,
       MatchRules, CreateDelivery, CallFails, OperatorNext, UpdateRule, UpdateDestination,
       DeleteDestination, Edit, WorkerCrash, vars
<1>3. PromiseInv /\ [Next]_vars => PromiseInv'
  BY PromiseInvStep
<1>4. QED
  BY <1>1, <1>2, <1>3, PromiseInvInit, PTL DEF Spec, Promise!SafeSpec
=============================================================================
