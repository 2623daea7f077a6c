--------------------------- MODULE WebhookDelivery ---------------------------
(***************************************************************************)
(* The life of webhook_deliveries rows: their creation by the routing      *)
(* engine, by an operator's replay and by a destination test, the BullMQ   *)
(* queue "webhook.deliver", the worker's WebhookDeliverProcessor with its  *)
(* retry chain and dead-lettering, the alert it raises, and the deletion   *)
(* of destinations.                                                        *)
(*                                                                         *)
(* Every awaited database write, queue operation or request to the         *)
(* destination is one step.  Payloads, templates, signatures and the       *)
(* recorded response do not affect control flow and are left out; so are   *)
(* delays (a delayed retry is a waiting job).  Which events are routed     *)
(* where is the matter of module EventRouting: here any event may be       *)
(* routed to any destination.                                              *)
(***************************************************************************)
EXTENDS Integers, FiniteSets

CONSTANTS
  Deliveries,    \* ids of webhook_deliveries rows
  Destinations,  \* ids of webhook_destinations rows
  KindOf,        \* webhook_destinations.type
  Makers,        \* concurrent handlers that create deliveries
  None,          \* no delivery / no destination / no job
  MaxAttempts,   \* webhook_deliveries.max_attempts
  MaxStalled,    \* BullMQ's maxStalledCount
  MaxResolves,   \* bound: POST /alerts/:id/resolve calls
  MaxDeletes,    \* bound: deletions of destinations
  MaxCrashes,    \* bound: deaths of the worker process
  MaxLosses,     \* bound: other failures
  Losses         \* kinds of other failures that may happen

LossKinds ==
  {"abandoned",   \* a maker dies, or its add() fails, after the row is created
   "redisLoss",   \* Redis loses every job
   "callFails"}   \* one database or queue call of the processor fails

Kinds == {"webhook", "telegram", "email", "internal_log", "unknown"}

ASSUME BoundsAssumption ==
  /\ MaxAttempts \in Nat \ {0}
  /\ {MaxStalled, MaxResolves, MaxDeletes, MaxCrashes, MaxLosses} \subseteq Nat
  /\ Losses \subseteq LossKinds
  /\ KindOf \in [Destinations -> Kinds]

ASSUME NoneAssumption == None \notin Deliveries \cup Destinations

VARIABLES
  row,      \* webhook_deliveries.status ("none": no row yet)
  count,    \* webhook_deliveries.attempt_count
  dest,     \* webhook_deliveries.destination_id
  live,     \* destinations that exist
  jobs,     \* the BullMQ queue "webhook.deliver", by job id
  worker,   \* the running call of WebhookDeliverProcessor.process
  maker,    \* the running creations of deliveries
  dead,     \* deliveries with a webhook.dead_lettered event
  firing,   \* destinations with a firing "webhook-dlq:<id>" alert
  calls,    \* how often a delivery was attempted
  arrived,  \* how often the destination took it
  used      \* what is used up of each bound

vars == <<row, count, dest, live, jobs, worker, maker, dead, firing, calls,
          arrived, used>>

rowVars == <<row, count, dest>>

\* `<id>` is the job added with the row, `<id>-retry-<n>` the n-th retry.
JobIds == Deliveries \X (0..MaxAttempts)
RowOf(j) == j[1]

Statuses == {"none", "pending", "delivering", "delivered", "failed", "dlq", "deleted"}
Terminal == {"delivered", "failed", "dlq"}
Open     == {"pending", "delivering"}

JobRecords == [state : {"absent", "wait", "active", "completed", "failed"},
               stalls : 0..(MaxStalled + 1)]
NoJob  == [state |-> "absent", stalls |-> 0]
NewJob == [state |-> "wait", stalls |-> 0]

IdleWorker == [pc |-> "idle", job |-> None, count |-> 0, verdict |-> "none", found |-> FALSE]
IdleMaker  == [pc |-> "idle", dest |-> None, row |-> None]

WorkerPCs == {"idle", "read", "mark", "call", "settle", "retry", "emit", "raiseRead",
              "raiseWrite", "finish"}

RowsOK ==
  /\ row \in [Deliveries -> Statuses]
  /\ count \in [Deliveries -> 0..MaxAttempts]
  /\ dest \in [Deliveries -> Destinations \cup {None}]
  /\ live \in SUBSET Destinations
  /\ dead \in SUBSET Deliveries
  /\ firing \in SUBSET Destinations
  /\ calls \in [Deliveries -> Nat]
  /\ arrived \in [Deliveries -> Nat]
  /\ \A d \in Deliveries : row[d] # "none" => dest[d] \in Destinations
  /\ \A d \in Deliveries : row[d] \in Open \cup {"none"} => count[d] < MaxAttempts

JobsOK ==
  /\ jobs \in [JobIds -> JobRecords]
  /\ \A j \in JobIds : jobs[j].state \in {"wait", "active"} => jobs[j].stalls <= MaxStalled

WorkerOK ==
  /\ worker \in [pc : WorkerPCs, job : JobIds \cup {None}, count : 0..(MaxAttempts - 1),
                 verdict : {"none", "ok", "permanent", "temporary"}, found : BOOLEAN]
  /\ worker.pc # "idle" => worker.job \in JobIds
  /\ worker.pc \notin {"idle", "read", "finish"} => row[RowOf(worker.job)] # "none"
  /\ worker.pc = "retry" => worker.count + 1 < MaxAttempts

MakersOK ==
  /\ maker \in [Makers -> [pc : {"idle", "create", "enqueue"},
                           dest : Destinations \cup {None},
                           row : Deliveries \cup {None}]]
  /\ \A c \in Makers :
       /\ maker[c].pc = "create" => maker[c].dest \in Destinations
       /\ maker[c].pc = "enqueue" => maker[c].row \in Deliveries

CountersOK ==
  used \in [resolve : 0..MaxResolves, delete : 0..MaxDeletes,
            crash : 0..MaxCrashes, loss : 0..MaxLosses]

\* The type invariant; the implications say what a running handler relies on.
TypeOK == RowsOK /\ JobsOK /\ WorkerOK /\ MakersOK /\ CountersOK

Init ==
  /\ row = [d \in Deliveries |-> "none"]
  /\ count = [d \in Deliveries |-> 0]
  /\ dest = [d \in Deliveries |-> None]
  /\ live = Destinations
  /\ jobs = [j \in JobIds |-> NoJob]
  /\ worker = IdleWorker
  /\ maker = [c \in Makers |-> IdleMaker]
  /\ dead = {}
  /\ firing = {}
  /\ calls = [d \in Deliveries |-> 0]
  /\ arrived = [d \in Deliveries |-> 0]
  /\ used = [resolve |-> 0, delete |-> 0, crash |-> 0, loss |-> 0]

\* BullMQ: add() with a known job id does nothing, whatever became of that job.
AddJob(j) ==
  jobs' = IF jobs[j].state = "absent" THEN [jobs EXCEPT ![j] = NewJob] ELSE jobs

Held(j) == worker.pc # "idle" /\ worker.job = j

-----------------------------------------------------------------------------
(* Creating deliveries: first the row, then the job.                         *)

Begin(c, x) ==
  /\ maker[c].pc = "idle"
  /\ maker' = [maker EXCEPT ![c] = [pc |-> "create", dest |-> x, row |-> None]]
  /\ UNCHANGED <<rowVars, live, jobs, worker, dead, firing, calls, arrived, used>>

\* matchAndDispatch for any event, a webhook.dead_lettered one too, or the test
\* of a destination.
RouteEvent(c, x) == x \in live /\ Begin(c, x)

\* replay: a new delivery of the same event to the same destination.
Replay(c, d) == row[d] \in Terminal /\ Begin(c, dest[d])

\* The foreign key refuses a row for a destination deleted since it was read.
CreateDelivery(c) ==
  /\ maker[c].pc = "create"
  /\ \/ /\ maker[c].dest \in live
        /\ \E d \in Deliveries :
             /\ row[d] = "none"
             /\ row' = [row EXCEPT ![d] = "pending"]
             /\ dest' = [dest EXCEPT ![d] = maker[c].dest]
             /\ maker' = [maker EXCEPT ![c].pc = "enqueue", ![c].row = d]
     \/ /\ maker[c].dest \notin live
        /\ maker' = [maker EXCEPT ![c] = IdleMaker]
        /\ UNCHANGED <<row, dest>>
  /\ UNCHANGED <<count, live, jobs, worker, dead, firing, calls, arrived, used>>

EnqueueDelivery(c) ==
  /\ maker[c].pc = "enqueue"
  /\ AddJob(<<maker[c].row, 0>>)
  /\ maker' = [maker EXCEPT ![c] = IdleMaker]
  /\ UNCHANGED <<rowVars, live, worker, dead, firing, calls, arrived, used>>

-----------------------------------------------------------------------------
(* WebhookDeliverProcessor.process, one job at a time.                       *)

Row == RowOf(worker.job)

Goto(from, to) ==
  /\ worker.pc = from
  /\ worker' = [worker EXCEPT !.pc = to]

PickUp(j) ==
  /\ worker.pc = "idle"
  /\ jobs[j].state = "wait"
  /\ jobs' = [jobs EXCEPT ![j].state = "active"]
  /\ worker' = [IdleWorker EXCEPT !.pc = "read", !.job = j]
  /\ UNCHANGED <<rowVars, live, maker, dead, firing, calls, arrived, used>>

\* Mutant: dead-lettered rows are not recognised as finished.
ReadDeliveryAgain ==
  /\ worker.pc = "read"
  /\ worker' = IF row[Row] \in Open \cup {"dlq"}
               THEN [worker EXCEPT !.pc = "mark", !.count = count[Row]]
               ELSE [worker EXCEPT !.pc = "finish"]
  /\ UNCHANGED <<rowVars, live, jobs, maker, dead, firing, calls, arrived, used>>

\* A missing or finished delivery is acknowledged; of any other the attempt
\* count is remembered from here on.
ReadDelivery ==
  /\ worker.pc = "read"
  /\ worker' = IF row[Row] \in Open
               THEN [worker EXCEPT !.pc = "mark", !.count = count[Row]]
               ELSE [worker EXCEPT !.pc = "finish"]
  /\ UNCHANGED <<rowVars, live, jobs, maker, dead, firing, calls, arrived, used>>

\* A failed job is not run again: the queue gives it one attempt.  A job Redis
\* has lost meanwhile has nothing to settle.
SettleJob(state) ==
  /\ worker' = IdleWorker
  /\ jobs' = IF jobs[worker.job].state = "active"
             THEN [jobs EXCEPT ![worker.job].state = state] ELSE jobs

\* Prisma's update throws when the row is gone with its destination.
RowVanished ==
  /\ worker.pc \in {"mark", "settle"}
  /\ row[Row] = "deleted"
  /\ SettleJob("failed")
  /\ UNCHANGED <<rowVars, live, maker, dead, firing, calls, arrived, used>>

MarkDelivering ==
  /\ Goto("mark", "call")
  /\ row[Row] # "deleted"
  /\ row' = [row EXCEPT ![Row] = "delivering"]
  /\ UNCHANGED <<count, dest, live, jobs, maker, dead, firing, calls, arrived, used>>

\* What executeDelivery can meet, by destination type.
Answers(kind) ==
  CASE kind \in {"webhook", "telegram"} ->
         {"2xx", "429", "4xx", "5xx", "network error", "misconfigured"}
    [] kind = "email" -> {"2xx", "network error", "misconfigured"}
    [] kind = "internal_log" -> {"2xx"}
    [] kind = "unknown" -> {"misconfigured"}

Verdict(answer) ==
  CASE answer = "2xx" -> "ok"
    [] answer \in {"4xx", "misconfigured"} -> "permanent"
    [] OTHER -> "temporary"

\* Mutant: a request that timed out counts as delivered.
CallDestinationOptimistic ==
  /\ worker.pc = "call"
  /\ calls' = [calls EXCEPT ![Row] = @ + 1]
  /\ \E answer \in Answers(KindOf[dest[Row]]) :
       /\ worker' = [worker EXCEPT !.pc = "settle",
                       !.verdict = IF answer = "network error" THEN "ok" ELSE Verdict(answer)]
       /\ \/ answer = "2xx" /\ arrived' = [arrived EXCEPT ![Row] = @ + 1]
          \/ answer # "2xx" /\ UNCHANGED arrived
  /\ UNCHANGED <<rowVars, live, jobs, maker, dead, firing, used>>

\* A request whose answer is lost or late may have arrived.
CallDestination ==
  /\ worker.pc = "call"
  /\ calls' = [calls EXCEPT ![Row] = @ + 1]
  /\ \E answer \in Answers(KindOf[dest[Row]]) :
       /\ worker' = [worker EXCEPT !.pc = "settle", !.verdict = Verdict(answer)]
       /\ \/ answer \in {"2xx", "network error"} /\ arrived' = [arrived EXCEPT ![Row] = @ + 1]
          \/ answer # "2xx" /\ UNCHANGED arrived
  /\ UNCHANGED <<rowVars, live, jobs, maker, dead, firing, used>>

SettleFinal ==
  /\ Goto("settle", "finish")
  /\ row[Row] # "deleted"
  /\ worker.verdict \in {"ok", "permanent"}
  /\ row' = [row EXCEPT ![Row] = IF worker.verdict = "ok" THEN "delivered" ELSE "failed"]
  /\ UNCHANGED <<count, dest, live, jobs, maker, dead, firing, calls, arrived, used>>

\* Mutant: one attempt too many.
SettleRetryOffByOne ==
  /\ Goto("settle", "retry")
  /\ row[Row] # "deleted"
  /\ worker.verdict = "temporary"
  /\ worker.count + 1 <= MaxAttempts
  /\ row' = [row EXCEPT ![Row] = "pending"]
  /\ count' = [count EXCEPT ![Row] = worker.count + 1]
  /\ UNCHANGED <<dest, live, jobs, maker, dead, firing, calls, arrived, used>>

\* Mutant: the next attempt is left to nextAttemptAt, which nobody reads.
SettleRetryNoJob ==
  /\ Goto("settle", "finish")
  /\ row[Row] # "deleted"
  /\ worker.verdict = "temporary"
  /\ worker.count + 1 < MaxAttempts
  /\ row' = [row EXCEPT ![Row] = "pending"]
  /\ count' = [count EXCEPT ![Row] = worker.count + 1]
  /\ UNCHANGED <<dest, live, jobs, maker, dead, firing, calls, arrived, used>>

\* handleTemporaryFailure with attempts left.
SettleRetry ==
  /\ Goto("settle", "retry")
  /\ row[Row] # "deleted"
  /\ worker.verdict = "temporary"
  /\ worker.count + 1 < MaxAttempts
  /\ row' = [row EXCEPT ![Row] = "pending"]
  /\ count' = [count EXCEPT ![Row] = worker.count + 1]
  /\ UNCHANGED <<dest, live, jobs, maker, dead, firing, calls, arrived, used>>

\* Mutant: every retry has the same job id.
AddRetrySameId ==
  /\ Goto("retry", "finish")
  /\ AddJob(<<Row, 1>>)
  /\ UNCHANGED <<rowVars, live, maker, dead, firing, calls, arrived, used>>

AddRetry ==
  /\ Goto("retry", "finish")
  /\ AddJob(<<Row, worker.count + 1>>)
  /\ UNCHANGED <<rowVars, live, maker, dead, firing, calls, arrived, used>>

\* Mutant: the processor returns after moving the row to the dead letters.
SettleDeadLetterSilent ==
  /\ Goto("settle", "finish")
  /\ row[Row] # "deleted"
  /\ worker.verdict = "temporary"
  /\ worker.count + 1 >= MaxAttempts
  /\ row' = [row EXCEPT ![Row] = "dlq"]
  /\ count' = [count EXCEPT ![Row] = worker.count + 1]
  /\ UNCHANGED <<dest, live, jobs, maker, dead, firing, calls, arrived, used>>

\* handleTemporaryFailure after the last attempt: the row, the event, the alert.
SettleDeadLetter ==
  /\ Goto("settle", "emit")
  /\ row[Row] # "deleted"
  /\ worker.verdict = "temporary"
  /\ worker.count + 1 >= MaxAttempts
  /\ row' = [row EXCEPT ![Row] = "dlq"]
  /\ count' = [count EXCEPT ![Row] = worker.count + 1]
  /\ UNCHANGED <<dest, live, jobs, maker, dead, firing, calls, arrived, used>>

EmitDeadLettered ==
  /\ Goto("emit", "raiseRead")
  /\ dead' = dead \cup {Row}
  /\ UNCHANGED <<rowVars, live, jobs, maker, firing, calls, arrived, used>>

\* raise looks for a firing alert and then refreshes it or creates one; a
\* refresh writes to the row it found, firing or not by now.
RaiseRead ==
  /\ worker.pc = "raiseRead"
  /\ worker' = [worker EXCEPT !.pc = "raiseWrite", !.found = dest[Row] \in firing]
  /\ UNCHANGED <<rowVars, live, jobs, maker, dead, firing, calls, arrived, used>>

RaiseWrite ==
  /\ Goto("raiseWrite", "finish")
  /\ firing' = IF worker.found THEN firing ELSE firing \cup {dest[Row]}
  /\ UNCHANGED <<rowVars, live, jobs, maker, dead, calls, arrived, used>>

FinishJob ==
  /\ worker.pc = "finish"
  /\ SettleJob("completed")
  /\ UNCHANGED <<rowVars, live, maker, dead, firing, calls, arrived, used>>

\* BullMQ's stalled check on a job whose worker died.
StalledCheck(j) ==
  /\ jobs[j].state = "active"
  /\ ~Held(j)
  /\ jobs' = [jobs EXCEPT ![j].stalls = @ + 1,
                          ![j].state = IF jobs[j].stalls + 1 > MaxStalled THEN "failed" ELSE "wait"]
  /\ UNCHANGED <<rowVars, live, worker, maker, dead, firing, calls, arrived, used>>

-----------------------------------------------------------------------------
(* Operators and failures.                                                   *)

ResolveAlert(x) ==
  /\ x \in firing
  /\ used.resolve < MaxResolves
  /\ used' = [used EXCEPT !.resolve = @ + 1]
  /\ firing' = firing \ {x}
  /\ UNCHANGED <<rowVars, live, jobs, worker, maker, dead, calls, arrived>>

\* The deliveries of a deleted destination go with it; their jobs stay.
DeleteDestination(x) ==
  /\ x \in live
  /\ used.delete < MaxDeletes
  /\ used' = [used EXCEPT !.delete = @ + 1]
  /\ live' = live \ {x}
  /\ row' = [d \in Deliveries |-> IF row[d] # "none" /\ dest[d] = x THEN "deleted" ELSE row[d]]
  /\ UNCHANGED <<count, dest, jobs, worker, maker, dead, firing, calls, arrived>>

WorkerCrash ==
  /\ worker.pc # "idle"
  /\ used.crash < MaxCrashes
  /\ used' = [used EXCEPT !.crash = @ + 1]
  /\ worker' = IdleWorker
  /\ UNCHANGED <<rowVars, live, jobs, maker, dead, firing, calls, arrived>>

Loss(kind) ==
  /\ kind \in Losses
  /\ used.loss < MaxLosses
  /\ used' = [used EXCEPT !.loss = @ + 1]

MakerAbandoned(c) ==
  /\ Loss("abandoned")
  /\ maker[c].pc # "idle"
  /\ maker' = [maker EXCEPT ![c] = IdleMaker]
  /\ UNCHANGED <<rowVars, live, jobs, worker, dead, firing, calls, arrived>>

RedisLoss ==
  /\ Loss("redisLoss")
  /\ \E j \in JobIds : jobs[j].state # "absent"
  /\ jobs' = [j \in JobIds |-> NoJob]
  /\ UNCHANGED <<rowVars, live, worker, maker, dead, firing, calls, arrived>>

\* process does not catch: the job fails wherever a call throws.
CallFails ==
  /\ Loss("callFails")
  /\ worker.pc \notin {"idle", "finish"}
  /\ SettleJob("failed")
  /\ UNCHANGED <<rowVars, live, maker, dead, firing, calls, arrived>>

-----------------------------------------------------------------------------
MakerNext(c) ==
  \/ \E x \in Destinations : RouteEvent(c, x)
  \/ \E d \in Deliveries : Replay(c, d)
  \/ CreateDelivery(c)
  \/ EnqueueDelivery(c)

ProcessorNext ==
  \/ ReadDelivery
  \/ RowVanished
  \/ MarkDelivering
  \/ CallDestination
  \/ SettleFinal
  \/ SettleRetry
  \/ AddRetry
  \/ SettleDeadLetter
  \/ EmitDeadLettered
  \/ RaiseRead
  \/ RaiseWrite
  \/ FinishJob

Next ==
  \/ \E c \in Makers : MakerNext(c) \/ MakerAbandoned(c)
  \/ \E j \in JobIds : PickUp(j) \/ StalledCheck(j)
  \/ ProcessorNext
  \/ \E x \in Destinations : ResolveAlert(x) \/ DeleteDestination(x)
  \/ WorkerCrash
  \/ RedisLoss
  \/ CallFails

Spec == Init /\ [][Next]_vars

\* A maker that has created a row runs on, the worker takes the jobs it has and
\* carries on with the one it runs, and BullMQ looks for stalled jobs; nobody
\* has to route, replay, resolve, delete or fail.
Fairness ==
  /\ \A c \in Makers : WF_vars(CreateDelivery(c) \/ EnqueueDelivery(c))
  /\ \A j \in JobIds : WF_vars(PickUp(j)) /\ WF_vars(StalledCheck(j))
  /\ WF_vars(ProcessorNext)

FairSpec == Spec /\ Fairness

-----------------------------------------------------------------------------
(* Safety.                                                                   *)

\* A delivery shown as delivered has reached its destination at least once,
\* whatever retries, stalled re-runs and crashes did in between (process, lines
\* 85-100).
DeliveredOnlyIfArrived ==
  \A d \in Deliveries : row[d] = "delivered" => arrived[d] > 0

\* The destination is tried at most max_attempts times, plus once for every
\* failure that kept the processor from recording an attempt: a stalled re-run
\* and the retry it forks never give the delivery a second budget.
AttemptsBounded ==
  \A d \in Deliveries : calls[d] <= MaxAttempts + used.crash + used.loss

\* A delivery that is delivered, failed or dead-lettered stays so until its
\* destination is deleted, although jobs of earlier attempts may still run for it
\* (process, line 64).
TerminalStays ==
  [][\A d \in Deliveries :
       row[d] \in Terminal => row'[d] \in {row[d], "deleted"}]_vars

\* The job that will take d further exists or is about to be added.
Pursued(d) ==
  \/ \E n \in 0..MaxAttempts : jobs[<<d, n>>].state \in {"wait", "active"}
  \/ \E c \in Makers : maker[c].pc = "enqueue" /\ maker[c].row = d

\* An unfinished delivery always has a job to finish it, as long as the worker
\* died at most maxStalledCount times and nothing else failed: nothing scans
\* webhook_deliveries, so the chain of jobs must never break.
OpenIsPursued ==
  used.crash <= MaxStalled /\ used.loss = 0 =>
    \A d \in Deliveries : row[d] \in Open => Pursued(d)

\* Without failures a dead-lettered delivery has its webhook.dead_lettered event
\* and, until an operator resolves one, its destination a firing alert, except
\* while the processor is still announcing it (handleTemporaryFailure).
DeadLetterAnnounced ==
  used.crash = 0 /\ used.loss = 0 =>
    \A d \in Deliveries :
      row[d] = "dlq" /\ ~(worker.pc # "idle" /\ Row = d) =>
        d \in dead /\ (used.resolve = 0 => dest[d] \in firing)

\* What a settled delivery says is so: one that is delivered has arrived, one that
\* was given up is told of.
SettledTruthfully == DeliveredOnlyIfArrived /\ DeadLetterAnnounced

-----------------------------------------------------------------------------
(* Liveness.                                                                 *)

\* Every delivery is delivered, failed or dead-lettered in the end, or deleted
\* with its destination, unless Redis, a maker or a call failed or the worker died
\* more than maxStalledCount times: those leave an unfinished row behind for ever,
\* because nobody reads next_attempt_at.
DeliverySettles ==
  \A d \in Deliveries :
    row[d] \in Open ~> row[d] \notin Open \/ used.loss > 0 \/ used.crash > MaxStalled
=============================================================================
