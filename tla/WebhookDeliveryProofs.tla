------------------------ MODULE WebhookDeliveryProofs ------------------------
(***************************************************************************)
(* What TLAPS proves of WebhookDelivery for every set of deliveries,       *)
(* destinations and makers, every bound and every kind of failure: the     *)
(* safety invariants and the action property that its run checks on two    *)
(* deliveries.                                                             *)
(***************************************************************************)
EXTENDS WebhookDelivery, TLAPS

USE BoundsAssumption, NoneAssumption

-----------------------------------------------------------------------------
(* The inductive invariant.                                                  *)

Running(pcs) == worker.pc \in pcs

\* What the processor read or wrote about its row still holds, unless the row was
\* deleted with its destination: nobody else writes an open row.
WorkerKnows ==
  /\ Running({"mark", "call", "settle"}) =>
       row[Row] \in Open \cup {"deleted"} /\ count[Row] = worker.count
  /\ Running({"retry"}) =>
       row[Row] \in {"pending", "deleted"} /\ count[Row] = worker.count + 1
  /\ Running({"emit", "raiseRead", "raiseWrite"}) => row[Row] \in {"dlq", "deleted"}
  /\ Running({"settle"}) /\ worker.verdict = "ok" => arrived[Row] > 0

\* Calls that the attempt count of d does not show: the failures so far.
Unrecorded == used.crash + used.loss

\* An attempt is recorded by the step after its call, or it is the last one.
Budget ==
  /\ Running({"mark", "call"}) => calls[Row] <= worker.count + Unrecorded
  /\ Running({"settle"}) => calls[Row] <= worker.count + 1 + Unrecorded
  /\ \A d \in Deliveries :
       row[d] \in Open \cup {"none"} /\ ~(Running({"settle"}) /\ Row = d) =>
         calls[d] <= count[d] + Unrecorded

\* A job id is used at most once: <<d, 0>> by the maker of d, <<d, n>> by the
\* processor that counts d's n-th attempt.
FreshIds ==
  /\ \A d \in Deliveries, n \in 0..MaxAttempts :
       row[d] = "none" \/ n > count[d] => jobs[<<d, n>>].state = "absent"
  /\ worker.pc # "idle" => row[Row] # "none"
  /\ Running({"retry"}) => jobs[<<Row, worker.count + 1>>].state = "absent"
  /\ \A c \in Makers : maker[c].pc = "enqueue" =>
       /\ row[maker[c].row] # "none"
       /\ jobs[<<maker[c].row, 0>>].state = "absent"
       /\ \A b \in Makers \ {c} : maker[b].pc = "enqueue" => maker[b].row # maker[c].row

\* A job stalls once for a death of the worker, and a running job is active.
StallsCounted ==
  used.loss = 0 =>
    /\ worker.pc # "idle" => jobs[worker.job].state = "active"
    /\ \A j \in JobIds :
         jobs[j].stalls + (IF jobs[j].state = "active" /\ ~Held(j) THEN 1 ELSE 0) <= used.crash

\* The processor leaves an open row only once another job is there for it.
HandsOver ==
  used.crash <= MaxStalled /\ used.loss = 0 /\ Running({"finish"}) /\ row[Row] \in Open =>
    \E n \in 0..MaxAttempts : <<Row, n>> # worker.job /\ jobs[<<Row, n>>].state \in {"wait", "active"}

\* A dead-lettered row is announced, but for the steps the processor has left.
Announcing ==
  used.crash = 0 /\ used.loss = 0 =>
    /\ \A d \in Deliveries :
         row[d] = "dlq" /\ ~(Running({"emit", "raiseRead", "raiseWrite"}) /\ Row = d) =>
           d \in dead /\ (used.resolve = 0 => dest[d] \in firing)
    /\ Running({"raiseRead", "raiseWrite"}) => Row \in dead
    /\ Running({"raiseWrite"}) /\ worker.found /\ used.resolve = 0 => dest[Row] \in firing

IInv ==
  /\ TypeOK
  /\ WorkerKnows
  /\ DeliveredOnlyIfArrived
  /\ Budget /\ AttemptsBounded
  /\ FreshIds /\ StallsCounted /\ HandsOver /\ OpenIsPursued
  /\ Announcing

-----------------------------------------------------------------------------
(* Effects of single operations.                                           *)

\* What a call of the destination changes: the count of calls, perhaps the count of
\* arrivals, and the verdict the processor goes on with; "ok" only if it arrived.
LEMMA CallEffect ==
  ASSUME TypeOK, CallDestination
  PROVE  /\ Row \in Deliveries
         /\ calls' = [calls EXCEPT ![Row] = calls[Row] + 1]
         /\ arrived' \in [Deliveries -> Nat]
         /\ arrived'[Row] >= arrived[Row]
         /\ \A d \in Deliveries \ {Row} : arrived'[d] = arrived[d]
         /\ worker'.pc = "settle" /\ worker'.job = worker.job /\ worker'.count = worker.count
         /\ worker'.verdict = "ok" => arrived'[Row] > 0
         /\ worker' \in [pc : WorkerPCs, job : JobIds \cup {None}, count : 0..(MaxAttempts - 1),
                         verdict : {"none", "ok", "permanent", "temporary"}, found : BOOLEAN]
<1>1. Row \in Deliveries
  BY DEF CallDestination, TypeOK, WorkerOK, Row, RowOf, JobIds
<1>2. PICK answer \in Answers(KindOf[dest[Row]]) :
        /\ worker' = [worker EXCEPT !.pc = "settle", !.verdict = Verdict(answer)]
        /\ \/ answer \in {"2xx", "network error"} /\ arrived' = [arrived EXCEPT ![Row] = @ + 1]
           \/ answer # "2xx" /\ UNCHANGED arrived
  BY DEF CallDestination
<1>3. /\ Verdict(answer) \in {"ok", "permanent", "temporary"}
      /\ Verdict(answer) = "ok" => answer = "2xx"
  BY DEF Verdict
<1>4. arrived \in [Deliveries -> Nat]
  BY DEF TypeOK, RowsOK
<1>5. /\ arrived' \in [Deliveries -> Nat]
      /\ arrived'[Row] >= arrived[Row]
      /\ \A d \in Deliveries \ {Row} : arrived'[d] = arrived[d]
      /\ answer = "2xx" => arrived'[Row] > 0
  <2>1. CASE arrived' = [arrived EXCEPT ![Row] = @ + 1]
    BY <1>1, <1>4, <2>1
  <2>2. CASE answer # "2xx" /\ arrived' = arrived
    BY <1>1, <1>4, <2>2
  <2>3. QED
    BY <1>2, <2>1, <2>2
<1> DEFINE v == Verdict(answer)
<1>6. worker' = [worker EXCEPT !.pc = "settle", !.verdict = v]
  BY <1>2
<1>7. v \in {"ok", "permanent", "temporary"}
  BY <1>3
<1> HIDE DEF v
<1>8. worker' \in [pc : WorkerPCs, job : JobIds \cup {None}, count : 0..(MaxAttempts - 1),
                  verdict : {"none", "ok", "permanent", "temporary"}, found : BOOLEAN]
  BY <1>6, <1>7 DEF TypeOK, WorkerOK, WorkerPCs
<1>9. worker'.pc = "settle" /\ worker'.job = worker.job /\ worker'.count = worker.count /\ worker'.verdict = v
  BY <1>6 DEF TypeOK, WorkerOK
<1>10. calls' = [calls EXCEPT ![Row] = calls[Row] + 1]
  BY DEF CallDestination
<1>11. v = "ok" => arrived'[Row] > 0
  BY <1>3, <1>5 DEF v
<1>12. QED
  BY <1>1, <1>5, <1>8, <1>9, <1>10, <1>11

\* add() changes at most the job it names, and leaves it known to the queue.
LEMMA AddJobEffect ==
  ASSUME TypeOK, NEW j \in JobIds, AddJob(j)
  PROVE  /\ \A i \in JobIds \ {j} : jobs'[i] = jobs[i]
         /\ jobs[j].state = "absent" => jobs'[j] = NewJob
         /\ jobs[j].state # "absent" => jobs'[j] = jobs[j]
BY DEF AddJob, TypeOK, JobsOK

\* Settling touches the running job only.
LEMMA SettleJobEffect ==
  ASSUME TypeOK, NEW st, SettleJob(st)
  PROVE  \A i \in JobIds \ {worker.job} : jobs'[i] = jobs[i]
BY DEF SettleJob, TypeOK, JobsOK

\* As long as the worker died at most maxStalledCount times, a stalled job is put
\* back and none is given up.
LEMMA StalledEffect ==
  ASSUME TypeOK, StallsCounted, NEW j \in JobIds, StalledCheck(j)
  PROVE  /\ \A i \in JobIds \ {j} : jobs'[i] = jobs[i]
         /\ used.crash <= MaxStalled /\ used.loss = 0 => jobs'[j].state = "wait"
<1> DEFINE st == IF jobs[j].stalls + 1 > MaxStalled THEN "failed" ELSE "wait"
<1>1. jobs' = [jobs EXCEPT ![j] = [jobs[j] EXCEPT !.stalls = jobs[j].stalls + 1, !.state = st]]
  BY DEF StalledCheck, TypeOK, JobsOK
<1>2. used.crash <= MaxStalled /\ used.loss = 0 => st = "wait"
  BY DEF StalledCheck, StallsCounted, TypeOK, JobsOK, JobRecords, CountersOK
<1> HIDE DEF st
<1>3. QED
  BY <1>1, <1>2 DEF TypeOK, JobsOK, JobRecords

-----------------------------------------------------------------------------
(* The type invariant.                                                     *)

\* Every step keeps the rows well typed and open rows below max_attempts.
LEMMA RowsStep ==
  TypeOK /\ WorkerKnows /\ Next => RowsOK'
<1> SUFFICES ASSUME TypeOK /\ WorkerKnows, Next PROVE RowsOK'
  OBVIOUS
<1>1. ASSUME UNCHANGED <<row, count, dest, live, dead, firing, calls, arrived>> PROVE RowsOK'
  BY <1>1 DEF TypeOK, RowsOK
<1>CreateDelivery. ASSUME NEW c \in Makers, CreateDelivery(c) PROVE RowsOK'
  BY <1>CreateDelivery DEF CreateDelivery, rowVars, Row, RowOf, JobIds, TypeOK, RowsOK,
     WorkerOK, MakersOK, Statuses, Open, Terminal, IdleMaker, IdleWorker
<1>MarkDelivering. ASSUME MarkDelivering PROVE RowsOK'
  BY <1>MarkDelivering DEF MarkDelivering, Goto, WorkerKnows, Running, rowVars, Row, RowOf,
     JobIds, TypeOK, RowsOK, WorkerOK, Statuses, Open
<1>CallDestination. ASSUME CallDestination PROVE RowsOK'
  <2>1. UNCHANGED <<row, count, dest, live, dead, firing>>
    BY <1>CallDestination DEF CallDestination, rowVars
  <2>2. calls' \in [Deliveries -> Nat]
    BY <1>CallDestination, CallEffect DEF TypeOK, RowsOK
  <2>3. QED
    BY <1>CallDestination, <2>1, <2>2, CallEffect DEF TypeOK, RowsOK
<1>SettleFinal. ASSUME SettleFinal PROVE RowsOK'
  BY <1>SettleFinal DEF SettleFinal, Goto, rowVars, Row, RowOf, JobIds, TypeOK, RowsOK,
     WorkerOK, MakersOK, Statuses, Open, Terminal, IdleMaker, IdleWorker
<1>SettleRetry. ASSUME SettleRetry PROVE RowsOK'
  BY <1>SettleRetry DEF SettleRetry, Goto, rowVars, Row, RowOf, JobIds, TypeOK, RowsOK,
     WorkerOK, MakersOK, Statuses, Open, Terminal, IdleMaker, IdleWorker
<1>SettleDeadLetter. ASSUME SettleDeadLetter PROVE RowsOK'
  BY <1>SettleDeadLetter DEF SettleDeadLetter, Goto, rowVars, Row, RowOf, JobIds, TypeOK,
     RowsOK, WorkerOK, MakersOK, Statuses, Open, Terminal, IdleMaker, IdleWorker
<1>EmitDeadLettered. ASSUME EmitDeadLettered PROVE RowsOK'
  BY <1>EmitDeadLettered DEF EmitDeadLettered, Goto, rowVars, Row, RowOf, JobIds, TypeOK,
     RowsOK, WorkerOK, MakersOK, Statuses, Open, Terminal, IdleMaker, IdleWorker
<1>RaiseWrite. ASSUME RaiseWrite PROVE RowsOK'
  BY <1>RaiseWrite DEF RaiseWrite, Goto, rowVars, Row, RowOf, JobIds, TypeOK, RowsOK,
     WorkerOK, MakersOK, Statuses, Open, Terminal, IdleMaker, IdleWorker
<1>ResolveAlert. ASSUME NEW x \in Destinations, ResolveAlert(x) PROVE RowsOK'
  BY <1>ResolveAlert DEF ResolveAlert, rowVars, Row, RowOf, JobIds, TypeOK, RowsOK, WorkerOK,
     MakersOK, Statuses, Open, Terminal, IdleMaker, IdleWorker
<1>DeleteDestination. ASSUME NEW x \in Destinations, DeleteDestination(x) PROVE RowsOK'
  BY <1>DeleteDestination DEF DeleteDestination, rowVars, Row, RowOf, JobIds, TypeOK, RowsOK,
     WorkerOK, MakersOK, Statuses, Open, Terminal, IdleMaker, IdleWorker
<1>QED. QED
  BY <1>1, <1>CreateDelivery, <1>MarkDelivering, <1>CallDestination, <1>SettleFinal,
     <1>SettleRetry, <1>SettleDeadLetter, <1>EmitDeadLettered, <1>RaiseWrite, <1>ResolveAlert,
     <1>DeleteDestination DEF Next, MakerNext, ProcessorNext, RouteEvent, Begin, rowVars,
     Replay, EnqueueDelivery, MakerAbandoned, PickUp, StalledCheck, ReadDelivery, RowVanished,
     AddRetry, RaiseRead, FinishJob, WorkerCrash, RedisLoss, CallFails

\* Every step keeps the jobs well typed and runnable jobs within maxStalledCount.
LEMMA JobsStep ==
  TypeOK /\ Next => JobsOK'
<1> SUFFICES ASSUME TypeOK, Next PROVE JobsOK'
  OBVIOUS
<1>1. ASSUME UNCHANGED jobs PROVE JobsOK'
  BY <1>1 DEF TypeOK, JobsOK
<1>EnqueueDelivery. ASSUME NEW c \in Makers, EnqueueDelivery(c) PROVE JobsOK'
  BY <1>EnqueueDelivery DEF EnqueueDelivery, AddJob, rowVars, Row, RowOf, JobIds, TypeOK,
     JobsOK, WorkerOK, MakersOK, JobRecords, NoJob, NewJob
<1>PickUp. ASSUME NEW j \in JobIds, PickUp(j) PROVE JobsOK'
  BY <1>PickUp DEF PickUp, rowVars, Row, RowOf, JobIds, TypeOK, JobsOK, WorkerOK, MakersOK,
     JobRecords, NoJob, NewJob
<1>StalledCheck. ASSUME NEW j \in JobIds, StalledCheck(j) PROVE JobsOK'
  BY <1>StalledCheck DEF StalledCheck, rowVars, Row, RowOf, JobIds, TypeOK, JobsOK, WorkerOK,
     MakersOK, JobRecords, NoJob, NewJob
<1>RowVanished. ASSUME RowVanished PROVE JobsOK'
  BY <1>RowVanished DEF RowVanished, SettleJob, rowVars, Row, RowOf, JobIds, TypeOK, JobsOK,
     WorkerOK, MakersOK, JobRecords, NoJob, NewJob
<1>AddRetry. ASSUME AddRetry PROVE JobsOK'
  BY <1>AddRetry DEF AddRetry, Goto, AddJob, rowVars, Row, RowOf, JobIds, TypeOK, JobsOK,
     WorkerOK, MakersOK, JobRecords, NoJob, NewJob
<1>FinishJob. ASSUME FinishJob PROVE JobsOK'
  BY <1>FinishJob DEF FinishJob, SettleJob, rowVars, Row, RowOf, JobIds, TypeOK, JobsOK,
     WorkerOK, MakersOK, JobRecords, NoJob, NewJob
<1>RedisLoss. ASSUME RedisLoss PROVE JobsOK'
  BY <1>RedisLoss DEF RedisLoss, Loss, rowVars, Row, RowOf, JobIds, TypeOK, JobsOK, WorkerOK,
     MakersOK, JobRecords, NoJob, NewJob
<1>CallFails. ASSUME CallFails PROVE JobsOK'
  BY <1>CallFails DEF CallFails, SettleJob, Loss, rowVars, Row, RowOf, JobIds, TypeOK, JobsOK,
     WorkerOK, MakersOK, JobRecords, NoJob, NewJob
<1>QED. QED
  BY <1>1, <1>EnqueueDelivery, <1>PickUp, <1>StalledCheck, <1>RowVanished, <1>AddRetry,
     <1>FinishJob, <1>RedisLoss, <1>CallFails DEF Next, MakerNext, ProcessorNext, RouteEvent,
     Begin, Replay, CreateDelivery, MakerAbandoned, ReadDelivery, MarkDelivering,
     CallDestination, SettleFinal, SettleRetry, SettleDeadLetter, EmitDeadLettered, RaiseRead,
     RaiseWrite, ResolveAlert, DeleteDestination, WorkerCrash

\* Every step keeps the processor well typed.
LEMMA WorkerStep ==
  TypeOK /\ Next => WorkerOK'
<1> SUFFICES ASSUME TypeOK, Next PROVE WorkerOK'
  OBVIOUS
<1>1. ASSUME UNCHANGED <<worker, row>> PROVE WorkerOK'
  BY <1>1 DEF TypeOK, WorkerOK
<1>CreateDelivery. ASSUME NEW c \in Makers, CreateDelivery(c) PROVE WorkerOK'
  BY <1>CreateDelivery DEF CreateDelivery, rowVars, Row, RowOf, JobIds, TypeOK, WorkerOK,
     RowsOK, JobsOK, WorkerPCs, IdleWorker, Open, Verdict
<1>PickUp. ASSUME NEW j \in JobIds, PickUp(j) PROVE WorkerOK'
  <2>1. worker' = [pc |-> "read", job |-> j, count |-> 0, verdict |-> "none", found |-> FALSE]
    BY <1>PickUp DEF PickUp, IdleWorker
  <2>2. 0 \in 0..(MaxAttempts - 1)
    OBVIOUS
  <2>3. QED
    BY <1>PickUp, <2>1, <2>2 DEF WorkerOK, WorkerPCs
<1>ReadDelivery. ASSUME ReadDelivery PROVE WorkerOK'
  <2>1. CASE row[Row] \in Open
    <3>1. worker' = [worker EXCEPT !.pc = "mark", !.count = count[Row]]
      BY <1>ReadDelivery, <2>1 DEF ReadDelivery
    <3>2. Row \in Deliveries /\ count[Row] \in 0..(MaxAttempts - 1) /\ worker.job \in JobIds
      BY <1>ReadDelivery, <2>1 DEF ReadDelivery, TypeOK, RowsOK, WorkerOK, Row, RowOf,
         JobIds, Open
    <3>3. worker'.pc = "mark" /\ worker'.job = worker.job /\ row' = row
      BY <1>ReadDelivery, <3>1 DEF ReadDelivery, rowVars, TypeOK, WorkerOK
    <3>4. worker' \in [pc : WorkerPCs, job : JobIds \cup {None}, count : 0..(MaxAttempts - 1),
                      verdict : {"none", "ok", "permanent", "temporary"}, found : BOOLEAN]
      BY <3>1, <3>2 DEF TypeOK, WorkerOK, WorkerPCs
    <3>5. QED
      BY <2>1, <3>2, <3>3, <3>4 DEF WorkerOK, Row, Open
  <2>2. CASE row[Row] \notin Open
    BY <1>ReadDelivery, <2>2 DEF ReadDelivery, TypeOK, WorkerOK, WorkerPCs
  <2>3. QED
    BY <2>1, <2>2
<1>RowVanished. ASSUME RowVanished PROVE WorkerOK'
  BY <1>RowVanished DEF RowVanished, SettleJob, rowVars, Row, RowOf, JobIds, TypeOK, WorkerOK,
     RowsOK, JobsOK, WorkerPCs, IdleWorker, Open, Verdict
<1>MarkDelivering. ASSUME MarkDelivering PROVE WorkerOK'
  BY <1>MarkDelivering DEF MarkDelivering, Goto, rowVars, Row, RowOf, JobIds, TypeOK,
     WorkerOK, RowsOK, JobsOK, WorkerPCs, IdleWorker, Open, Verdict
<1>CallDestination. ASSUME CallDestination PROVE WorkerOK'
  <2>1. row' = row
    BY <1>CallDestination DEF CallDestination, rowVars
  <2>2. row[Row] # "none" /\ worker.job \in JobIds
    BY <1>CallDestination DEF CallDestination, TypeOK, WorkerOK, Row
  <2>3. QED
    BY <1>CallDestination, <2>1, <2>2, CallEffect DEF WorkerOK, Row
<1>SettleFinal. ASSUME SettleFinal PROVE WorkerOK'
  BY <1>SettleFinal DEF SettleFinal, Goto, rowVars, Row, RowOf, JobIds, TypeOK, WorkerOK,
     RowsOK, JobsOK, WorkerPCs, IdleWorker, Open, Verdict
<1>SettleRetry. ASSUME SettleRetry PROVE WorkerOK'
  BY <1>SettleRetry DEF SettleRetry, Goto, rowVars, Row, RowOf, JobIds, TypeOK, WorkerOK,
     RowsOK, JobsOK, WorkerPCs, IdleWorker, Open, Verdict
<1>AddRetry. ASSUME AddRetry PROVE WorkerOK'
  BY <1>AddRetry DEF AddRetry, Goto, AddJob, rowVars, Row, RowOf, JobIds, TypeOK, WorkerOK,
     RowsOK, JobsOK, WorkerPCs, IdleWorker, Open, Verdict
<1>SettleDeadLetter. ASSUME SettleDeadLetter PROVE WorkerOK'
  BY <1>SettleDeadLetter DEF SettleDeadLetter, Goto, rowVars, Row, RowOf, JobIds, TypeOK,
     WorkerOK, RowsOK, JobsOK, WorkerPCs, IdleWorker, Open, Verdict
<1>EmitDeadLettered. ASSUME EmitDeadLettered PROVE WorkerOK'
  BY <1>EmitDeadLettered DEF EmitDeadLettered, Goto, rowVars, Row, RowOf, JobIds, TypeOK,
     WorkerOK, RowsOK, JobsOK, WorkerPCs, IdleWorker, Open, Verdict
<1>RaiseRead. ASSUME RaiseRead PROVE WorkerOK'
  <2> DEFINE f == dest[Row] \in firing
  <2>1. worker' = [worker EXCEPT !.pc = "raiseWrite", !.found = f] /\ f \in BOOLEAN
    BY <1>RaiseRead DEF RaiseRead
  <2> HIDE DEF f
  <2>2. worker' \in [pc : WorkerPCs, job : JobIds \cup {None}, count : 0..(MaxAttempts - 1),
                    verdict : {"none", "ok", "permanent", "temporary"}, found : BOOLEAN]
    BY <2>1 DEF TypeOK, WorkerOK, WorkerPCs
  <2>3. worker'.pc = "raiseWrite" /\ worker'.job = worker.job
    BY <2>1 DEF TypeOK, WorkerOK
  <2>4. QED
    BY <1>RaiseRead, <2>2, <2>3 DEF RaiseRead, rowVars, TypeOK, WorkerOK, Row
<1>RaiseWrite. ASSUME RaiseWrite PROVE WorkerOK'
  BY <1>RaiseWrite DEF RaiseWrite, Goto, rowVars, Row, RowOf, JobIds, TypeOK, WorkerOK,
     RowsOK, JobsOK, WorkerPCs, IdleWorker, Open, Verdict
<1>FinishJob. ASSUME FinishJob PROVE WorkerOK'
  BY <1>FinishJob DEF FinishJob, SettleJob, rowVars, Row, RowOf, JobIds, TypeOK, WorkerOK,
     RowsOK, JobsOK, WorkerPCs, IdleWorker, Open, Verdict
<1>DeleteDestination. ASSUME NEW x \in Destinations, DeleteDestination(x) PROVE WorkerOK'
  BY <1>DeleteDestination DEF DeleteDestination, rowVars, Row, RowOf, JobIds, TypeOK,
     WorkerOK, RowsOK, JobsOK, WorkerPCs, IdleWorker, Open, Verdict
<1>WorkerCrash. ASSUME WorkerCrash PROVE WorkerOK'
  BY <1>WorkerCrash DEF WorkerCrash, rowVars, Row, RowOf, JobIds, TypeOK, WorkerOK, RowsOK,
     JobsOK, WorkerPCs, IdleWorker, Open, Verdict
<1>CallFails. ASSUME CallFails PROVE WorkerOK'
  BY <1>CallFails DEF CallFails, SettleJob, Loss, rowVars, Row, RowOf, JobIds, TypeOK,
     WorkerOK, RowsOK, JobsOK, WorkerPCs, IdleWorker, Open, Verdict
<1>QED. QED
  BY <1>1, <1>CreateDelivery, <1>PickUp, <1>ReadDelivery, <1>RowVanished, <1>MarkDelivering,
     <1>CallDestination, <1>SettleFinal, <1>SettleRetry, <1>AddRetry, <1>SettleDeadLetter,
     <1>EmitDeadLettered, <1>RaiseRead, <1>RaiseWrite, <1>FinishJob, <1>DeleteDestination,
     <1>WorkerCrash, <1>CallFails DEF Next, MakerNext, ProcessorNext, RouteEvent, Begin,
     rowVars, Replay, EnqueueDelivery, MakerAbandoned, StalledCheck, ResolveAlert, RedisLoss

\* Every step keeps the running creations well typed.
LEMMA MakersStep ==
  TypeOK /\ Next => MakersOK'
<1> SUFFICES ASSUME TypeOK, Next PROVE MakersOK'
  OBVIOUS
<1>1. ASSUME UNCHANGED maker PROVE MakersOK'
  BY <1>1 DEF TypeOK, MakersOK
<1>RouteEvent. ASSUME NEW c \in Makers, NEW x \in Destinations, RouteEvent(c, x) PROVE MakersOK'
  BY <1>RouteEvent DEF RouteEvent, Begin, rowVars, Row, RowOf, JobIds, TypeOK, MakersOK,
     RowsOK, Terminal, IdleMaker
<1>Replay. ASSUME NEW c \in Makers, NEW d \in Deliveries, Replay(c, d) PROVE MakersOK'
  BY <1>Replay DEF Replay, Begin, rowVars, Row, RowOf, JobIds, TypeOK, MakersOK, RowsOK,
     Terminal, IdleMaker
<1>CreateDelivery. ASSUME NEW c \in Makers, CreateDelivery(c) PROVE MakersOK'
  BY <1>CreateDelivery DEF CreateDelivery, rowVars, Row, RowOf, JobIds, TypeOK, MakersOK,
     RowsOK, Terminal, IdleMaker
<1>EnqueueDelivery. ASSUME NEW c \in Makers, EnqueueDelivery(c) PROVE MakersOK'
  BY <1>EnqueueDelivery DEF EnqueueDelivery, AddJob, rowVars, Row, RowOf, JobIds, TypeOK,
     MakersOK, RowsOK, Terminal, IdleMaker
<1>MakerAbandoned. ASSUME NEW c \in Makers, MakerAbandoned(c) PROVE MakersOK'
  BY <1>MakerAbandoned DEF MakerAbandoned, Loss, rowVars, Row, RowOf, JobIds, TypeOK,
     MakersOK, RowsOK, Terminal, IdleMaker
<1>QED. QED
  BY <1>1, <1>RouteEvent, <1>Replay, <1>CreateDelivery, <1>EnqueueDelivery, <1>MakerAbandoned
     DEF Next, MakerNext, ProcessorNext, PickUp, StalledCheck, ReadDelivery, RowVanished,
     MarkDelivering, CallDestination, SettleFinal, SettleRetry, AddRetry, SettleDeadLetter,
     EmitDeadLettered, RaiseRead, RaiseWrite, FinishJob, ResolveAlert, DeleteDestination,
     WorkerCrash, RedisLoss, CallFails

\* Every step stays within the bounds.
LEMMA CountersStep ==
  TypeOK /\ Next => CountersOK'
<1> SUFFICES ASSUME TypeOK, Next PROVE CountersOK'
  OBVIOUS
<1>1. ASSUME UNCHANGED used PROVE CountersOK'
  BY <1>1 DEF TypeOK, CountersOK
<1>MakerAbandoned. ASSUME NEW c \in Makers, MakerAbandoned(c) PROVE CountersOK'
  BY <1>MakerAbandoned DEF MakerAbandoned, Loss, rowVars, Row, RowOf, JobIds, TypeOK, CountersOK
<1>ResolveAlert. ASSUME NEW x \in Destinations, ResolveAlert(x) PROVE CountersOK'
  BY <1>ResolveAlert DEF ResolveAlert, rowVars, Row, RowOf, JobIds, TypeOK, CountersOK
<1>DeleteDestination. ASSUME NEW x \in Destinations, DeleteDestination(x) PROVE CountersOK'
  BY <1>DeleteDestination DEF DeleteDestination, rowVars, Row, RowOf, JobIds, TypeOK, CountersOK
<1>WorkerCrash. ASSUME WorkerCrash PROVE CountersOK'
  BY <1>WorkerCrash DEF WorkerCrash, rowVars, Row, RowOf, JobIds, TypeOK, CountersOK
<1>RedisLoss. ASSUME RedisLoss PROVE CountersOK'
  BY <1>RedisLoss DEF RedisLoss, Loss, rowVars, Row, RowOf, JobIds, TypeOK, CountersOK
<1>CallFails. ASSUME CallFails PROVE CountersOK'
  BY <1>CallFails DEF CallFails, SettleJob, Loss, rowVars, Row, RowOf, JobIds, TypeOK,
     CountersOK
<1>QED. QED
  BY <1>1, <1>MakerAbandoned, <1>ResolveAlert, <1>DeleteDestination, <1>WorkerCrash,
     <1>RedisLoss, <1>CallFails DEF Next, MakerNext, ProcessorNext, RouteEvent, Begin, Replay,
     CreateDelivery, EnqueueDelivery, PickUp, StalledCheck, ReadDelivery, RowVanished,
     MarkDelivering, CallDestination, SettleFinal, SettleRetry, AddRetry, SettleDeadLetter,
     EmitDeadLettered, RaiseRead, RaiseWrite, FinishJob

-----------------------------------------------------------------------------
(* The processor and its row; attempts and arrivals.                       *)

\* No step makes what the processor knows of its row wrong.
LEMMA KnowsStep ==
  TypeOK /\ WorkerKnows /\ Next => WorkerKnows'
<1> SUFFICES ASSUME TypeOK /\ WorkerKnows, Next PROVE WorkerKnows'
  OBVIOUS
<1>1. ASSUME UNCHANGED <<row, count, worker, arrived>> PROVE WorkerKnows'
  BY <1>1 DEF WorkerKnows, Running, Row
<1>CreateDelivery. ASSUME NEW c \in Makers, CreateDelivery(c) PROVE WorkerKnows'
  BY <1>CreateDelivery DEF CreateDelivery, rowVars, Row, RowOf, JobIds, TypeOK, WorkerKnows,
     Running, WorkerOK, RowsOK, IdleWorker, Open
<1>PickUp. ASSUME NEW j \in JobIds, PickUp(j) PROVE WorkerKnows'
  BY <1>PickUp DEF PickUp, rowVars, Row, RowOf, JobIds, TypeOK, WorkerKnows, Running,
     WorkerOK, RowsOK, IdleWorker, Open
<1>ReadDelivery. ASSUME ReadDelivery PROVE WorkerKnows'
  BY <1>ReadDelivery DEF ReadDelivery, rowVars, Row, RowOf, JobIds, TypeOK, WorkerKnows,
     Running, WorkerOK, RowsOK, IdleWorker, Open
<1>RowVanished. ASSUME RowVanished PROVE WorkerKnows'
  BY <1>RowVanished DEF RowVanished, SettleJob, rowVars, Row, RowOf, JobIds, TypeOK,
     WorkerKnows, Running, WorkerOK, RowsOK, IdleWorker, Open
<1>MarkDelivering. ASSUME MarkDelivering PROVE WorkerKnows'
  BY <1>MarkDelivering DEF MarkDelivering, Goto, rowVars, Row, RowOf, JobIds, TypeOK,
     WorkerKnows, Running, WorkerOK, RowsOK, IdleWorker, Open
<1>CallDestination. ASSUME CallDestination PROVE WorkerKnows'
  BY <1>CallDestination, CallEffect DEF CallDestination, rowVars, WorkerKnows, Running, Row
<1>SettleFinal. ASSUME SettleFinal PROVE WorkerKnows'
  BY <1>SettleFinal DEF SettleFinal, Goto, rowVars, Row, RowOf, JobIds, TypeOK, WorkerKnows,
     Running, WorkerOK, RowsOK, IdleWorker, Open
<1>SettleRetry. ASSUME SettleRetry PROVE WorkerKnows'
  BY <1>SettleRetry DEF SettleRetry, Goto, rowVars, Row, RowOf, JobIds, TypeOK, WorkerKnows,
     Running, WorkerOK, RowsOK, IdleWorker, Open
<1>AddRetry. ASSUME AddRetry PROVE WorkerKnows'
  BY <1>AddRetry DEF AddRetry, Goto, AddJob, rowVars, Row, RowOf, JobIds, TypeOK, WorkerKnows,
     Running, WorkerOK, RowsOK, IdleWorker, Open
<1>SettleDeadLetter. ASSUME SettleDeadLetter PROVE WorkerKnows'
  BY <1>SettleDeadLetter DEF SettleDeadLetter, Goto, rowVars, Row, RowOf, JobIds, TypeOK,
     WorkerKnows, Running, WorkerOK, RowsOK, IdleWorker, Open
<1>EmitDeadLettered. ASSUME EmitDeadLettered PROVE WorkerKnows'
  BY <1>EmitDeadLettered DEF EmitDeadLettered, Goto, rowVars, Row, RowOf, JobIds, TypeOK,
     WorkerKnows, Running, WorkerOK, RowsOK, IdleWorker, Open
<1>RaiseRead. ASSUME RaiseRead PROVE WorkerKnows'
  BY <1>RaiseRead DEF RaiseRead, rowVars, Row, RowOf, JobIds, TypeOK, WorkerKnows, Running,
     WorkerOK, RowsOK, IdleWorker, Open
<1>RaiseWrite. ASSUME RaiseWrite PROVE WorkerKnows'
  BY <1>RaiseWrite DEF RaiseWrite, Goto, rowVars, Row, RowOf, JobIds, TypeOK, WorkerKnows,
     Running, WorkerOK, RowsOK, IdleWorker, Open
<1>FinishJob. ASSUME FinishJob PROVE WorkerKnows'
  BY <1>FinishJob DEF FinishJob, SettleJob, rowVars, Row, RowOf, JobIds, TypeOK, WorkerKnows,
     Running, WorkerOK, RowsOK, IdleWorker, Open
<1>DeleteDestination. ASSUME NEW x \in Destinations, DeleteDestination(x) PROVE WorkerKnows'
  BY <1>DeleteDestination DEF DeleteDestination, rowVars, Row, RowOf, JobIds, TypeOK,
     WorkerKnows, Running, WorkerOK, RowsOK, IdleWorker, Open
<1>WorkerCrash. ASSUME WorkerCrash PROVE WorkerKnows'
  BY <1>WorkerCrash DEF WorkerCrash, rowVars, Row, RowOf, JobIds, TypeOK, WorkerKnows,
     Running, WorkerOK, RowsOK, IdleWorker, Open
<1>CallFails. ASSUME CallFails PROVE WorkerKnows'
  BY <1>CallFails DEF CallFails, SettleJob, Loss, rowVars, Row, RowOf, JobIds, TypeOK,
     WorkerKnows, Running, WorkerOK, RowsOK, IdleWorker, Open
<1>QED. QED
  BY <1>1, <1>CreateDelivery, <1>PickUp, <1>ReadDelivery, <1>RowVanished, <1>MarkDelivering,
     <1>CallDestination, <1>SettleFinal, <1>SettleRetry, <1>AddRetry, <1>SettleDeadLetter,
     <1>EmitDeadLettered, <1>RaiseRead, <1>RaiseWrite, <1>FinishJob, <1>DeleteDestination,
     <1>WorkerCrash, <1>CallFails DEF Next, MakerNext, ProcessorNext, RouteEvent, Begin,
     rowVars, Replay, EnqueueDelivery, MakerAbandoned, StalledCheck, ResolveAlert, RedisLoss

\* Only a row that arrived becomes delivered.
LEMMA ArrivedStep ==
  TypeOK /\ WorkerKnows /\ DeliveredOnlyIfArrived /\ Next => DeliveredOnlyIfArrived'
<1> SUFFICES ASSUME TypeOK /\ WorkerKnows /\ DeliveredOnlyIfArrived, Next
             PROVE  DeliveredOnlyIfArrived'
  OBVIOUS
<1>1. ASSUME UNCHANGED <<row, arrived>> PROVE DeliveredOnlyIfArrived'
  BY <1>1 DEF DeliveredOnlyIfArrived
<1>CreateDelivery. ASSUME NEW c \in Makers, CreateDelivery(c) PROVE DeliveredOnlyIfArrived'
  BY <1>CreateDelivery DEF CreateDelivery, rowVars, Row, RowOf, JobIds, TypeOK,
     DeliveredOnlyIfArrived, WorkerKnows, Running, WorkerOK, RowsOK
<1>MarkDelivering. ASSUME MarkDelivering PROVE DeliveredOnlyIfArrived'
  BY <1>MarkDelivering DEF MarkDelivering, Goto, rowVars, Row, RowOf, JobIds, TypeOK,
     DeliveredOnlyIfArrived, WorkerKnows, Running, WorkerOK, RowsOK
<1>CallDestination. ASSUME CallDestination PROVE DeliveredOnlyIfArrived'
  <2>1. row' = row
    BY <1>CallDestination DEF CallDestination, rowVars
  <2>2. \A d \in Deliveries : arrived'[d] >= arrived[d] /\ arrived[d] \in Nat /\ arrived'[d] \in Nat
    BY <1>CallDestination, CallEffect DEF TypeOK, RowsOK
  <2>3. QED
    BY <2>1, <2>2 DEF DeliveredOnlyIfArrived
<1>SettleFinal. ASSUME SettleFinal PROVE DeliveredOnlyIfArrived'
  BY <1>SettleFinal DEF SettleFinal, Goto, rowVars, Row, RowOf, JobIds, TypeOK,
     DeliveredOnlyIfArrived, WorkerKnows, Running, WorkerOK, RowsOK
<1>SettleRetry. ASSUME SettleRetry PROVE DeliveredOnlyIfArrived'
  BY <1>SettleRetry DEF SettleRetry, Goto, rowVars, Row, RowOf, JobIds, TypeOK,
     DeliveredOnlyIfArrived, WorkerKnows, Running, WorkerOK, RowsOK
<1>SettleDeadLetter. ASSUME SettleDeadLetter PROVE DeliveredOnlyIfArrived'
  BY <1>SettleDeadLetter DEF SettleDeadLetter, Goto, rowVars, Row, RowOf, JobIds, TypeOK,
     DeliveredOnlyIfArrived, WorkerKnows, Running, WorkerOK, RowsOK
<1>DeleteDestination. ASSUME NEW x \in Destinations, DeleteDestination(x)
                      PROVE  DeliveredOnlyIfArrived'
  BY <1>DeleteDestination DEF DeleteDestination, rowVars, Row, RowOf, JobIds, TypeOK,
     DeliveredOnlyIfArrived, WorkerKnows, Running, WorkerOK, RowsOK
<1>QED. QED
  BY <1>1, <1>CreateDelivery, <1>MarkDelivering, <1>CallDestination, <1>SettleFinal,
     <1>SettleRetry, <1>SettleDeadLetter, <1>DeleteDestination DEF Next, MakerNext,
     ProcessorNext, RouteEvent, Begin, rowVars, Replay, EnqueueDelivery, MakerAbandoned,
     PickUp, StalledCheck, ReadDelivery, RowVanished, AddRetry, EmitDeadLettered, RaiseRead,
     RaiseWrite, FinishJob, ResolveAlert, WorkerCrash, RedisLoss, CallFails

\* A call that is not recorded is followed by a failure, which pays for it.
LEMMA BudgetStep ==
  TypeOK /\ WorkerKnows /\ Budget /\ Next => Budget'
<1> SUFFICES ASSUME TypeOK /\ WorkerKnows /\ Budget, Next PROVE Budget'
  OBVIOUS
<1>1. ASSUME UNCHANGED <<worker, calls, row, count, used>> PROVE Budget'
  BY <1>1 DEF Budget, Running, Row, Unrecorded
<1>CreateDelivery. ASSUME NEW c \in Makers, CreateDelivery(c) PROVE Budget'
  BY <1>CreateDelivery DEF CreateDelivery, rowVars, Row, RowOf, JobIds, TypeOK, Budget,
     Running, Unrecorded, WorkerKnows, WorkerOK, RowsOK, CountersOK, Open, IdleWorker
<1>MakerAbandoned. ASSUME NEW c \in Makers, MakerAbandoned(c) PROVE Budget'
  BY <1>MakerAbandoned DEF MakerAbandoned, Loss, rowVars, Row, RowOf, JobIds, TypeOK, Budget,
     Running, Unrecorded, WorkerKnows, WorkerOK, RowsOK, CountersOK, Open, IdleWorker
<1>PickUp. ASSUME NEW j \in JobIds, PickUp(j) PROVE Budget'
  BY <1>PickUp DEF PickUp, rowVars, Row, RowOf, JobIds, TypeOK, Budget, Running, Unrecorded,
     WorkerKnows, WorkerOK, RowsOK, CountersOK, Open, IdleWorker
<1>ReadDelivery. ASSUME ReadDelivery PROVE Budget'
  BY <1>ReadDelivery DEF ReadDelivery, rowVars, Row, RowOf, JobIds, TypeOK, Budget, Running,
     Unrecorded, WorkerKnows, WorkerOK, RowsOK, CountersOK, Open, IdleWorker
<1>RowVanished. ASSUME RowVanished PROVE Budget'
  BY <1>RowVanished DEF RowVanished, SettleJob, rowVars, Row, RowOf, JobIds, TypeOK, Budget,
     Running, Unrecorded, WorkerKnows, WorkerOK, RowsOK, CountersOK, Open, IdleWorker
<1>MarkDelivering. ASSUME MarkDelivering PROVE Budget'
  BY <1>MarkDelivering DEF MarkDelivering, Goto, rowVars, Row, RowOf, JobIds, TypeOK, Budget,
     Running, Unrecorded, WorkerKnows, WorkerOK, RowsOK, CountersOK, Open, IdleWorker
<1>CallDestination. ASSUME CallDestination PROVE Budget'
  <2>1. UNCHANGED <<row, count, used>>
    BY <1>CallDestination DEF CallDestination, rowVars
  <2>2. worker.pc = "call" /\ worker'.pc = "settle" /\ Row' = Row /\ worker'.count = worker.count
    BY <1>CallDestination, CallEffect DEF CallDestination, Row
  <2>3. calls'[Row] = calls[Row] + 1 /\ \A d \in Deliveries \ {Row} : calls'[d] = calls[d]
    BY <1>CallDestination, CallEffect DEF TypeOK, RowsOK
  <2>4. QED
    BY <1>CallDestination, <2>1, <2>2, <2>3, CallEffect DEF Budget, Running, Unrecorded,
       TypeOK, RowsOK, CountersOK, WorkerOK
<1>SettleFinal. ASSUME SettleFinal PROVE Budget'
  BY <1>SettleFinal DEF SettleFinal, Goto, rowVars, Row, RowOf, JobIds, TypeOK, Budget,
     Running, Unrecorded, WorkerKnows, WorkerOK, RowsOK, CountersOK, Open, IdleWorker
<1>SettleRetry. ASSUME SettleRetry PROVE Budget'
  BY <1>SettleRetry DEF SettleRetry, Goto, rowVars, Row, RowOf, JobIds, TypeOK, Budget,
     Running, Unrecorded, WorkerKnows, WorkerOK, RowsOK, CountersOK, Open, IdleWorker
<1>AddRetry. ASSUME AddRetry PROVE Budget'
  BY <1>AddRetry DEF AddRetry, Goto, AddJob, rowVars, Row, RowOf, JobIds, TypeOK, Budget,
     Running, Unrecorded, WorkerKnows, WorkerOK, RowsOK, CountersOK, Open, IdleWorker
<1>SettleDeadLetter. ASSUME SettleDeadLetter PROVE Budget'
  BY <1>SettleDeadLetter DEF SettleDeadLetter, Goto, rowVars, Row, RowOf, JobIds, TypeOK,
     Budget, Running, Unrecorded, WorkerKnows, WorkerOK, RowsOK, CountersOK, Open, IdleWorker
<1>EmitDeadLettered. ASSUME EmitDeadLettered PROVE Budget'
  BY <1>EmitDeadLettered DEF EmitDeadLettered, Goto, rowVars, Row, RowOf, JobIds, TypeOK,
     Budget, Running, Unrecorded, WorkerKnows, WorkerOK, RowsOK, CountersOK, Open, IdleWorker
<1>RaiseRead. ASSUME RaiseRead PROVE Budget'
  BY <1>RaiseRead DEF RaiseRead, rowVars, Row, RowOf, JobIds, TypeOK, Budget, Running,
     Unrecorded, WorkerKnows, WorkerOK, RowsOK, CountersOK, Open, IdleWorker
<1>RaiseWrite. ASSUME RaiseWrite PROVE Budget'
  BY <1>RaiseWrite DEF RaiseWrite, Goto, rowVars, Row, RowOf, JobIds, TypeOK, Budget, Running,
     Unrecorded, WorkerKnows, WorkerOK, RowsOK, CountersOK, Open, IdleWorker
<1>FinishJob. ASSUME FinishJob PROVE Budget'
  BY <1>FinishJob DEF FinishJob, SettleJob, rowVars, Row, RowOf, JobIds, TypeOK, Budget,
     Running, Unrecorded, WorkerKnows, WorkerOK, RowsOK, CountersOK, Open, IdleWorker
<1>ResolveAlert. ASSUME NEW x \in Destinations, ResolveAlert(x) PROVE Budget'
  BY <1>ResolveAlert DEF ResolveAlert, rowVars, Row, RowOf, JobIds, TypeOK, Budget, Running,
     Unrecorded, WorkerKnows, WorkerOK, RowsOK, CountersOK, Open, IdleWorker
<1>DeleteDestination. ASSUME NEW x \in Destinations, DeleteDestination(x) PROVE Budget'
  BY <1>DeleteDestination DEF DeleteDestination, rowVars, Row, RowOf, JobIds, TypeOK, Budget,
     Running, Unrecorded, WorkerKnows, WorkerOK, RowsOK, CountersOK, Open, IdleWorker
<1>WorkerCrash. ASSUME WorkerCrash PROVE Budget'
  BY <1>WorkerCrash DEF WorkerCrash, rowVars, Row, RowOf, JobIds, TypeOK, Budget, Running,
     Unrecorded, WorkerKnows, WorkerOK, RowsOK, CountersOK, Open, IdleWorker
<1>RedisLoss. ASSUME RedisLoss PROVE Budget'
  BY <1>RedisLoss DEF RedisLoss, Loss, rowVars, Row, RowOf, JobIds, TypeOK, Budget, Running,
     Unrecorded, WorkerKnows, WorkerOK, RowsOK, CountersOK, Open, IdleWorker
<1>CallFails. ASSUME CallFails PROVE Budget'
  BY <1>CallFails DEF CallFails, SettleJob, Loss, rowVars, Row, RowOf, JobIds, TypeOK, Budget,
     Running, Unrecorded, WorkerKnows, WorkerOK, RowsOK, CountersOK, Open, IdleWorker
<1>QED. QED
  BY <1>1, <1>CreateDelivery, <1>MakerAbandoned, <1>PickUp, <1>ReadDelivery, <1>RowVanished,
     <1>MarkDelivering, <1>CallDestination, <1>SettleFinal, <1>SettleRetry, <1>AddRetry,
     <1>SettleDeadLetter, <1>EmitDeadLettered, <1>RaiseRead, <1>RaiseWrite, <1>FinishJob,
     <1>ResolveAlert, <1>DeleteDestination, <1>WorkerCrash, <1>RedisLoss, <1>CallFails DEF
     Next, MakerNext, ProcessorNext, RouteEvent, Begin, rowVars, Replay, EnqueueDelivery,
     StalledCheck

\* The call itself is within the budget.
LEMMA AttemptsStep ==
  TypeOK /\ WorkerKnows /\ Budget /\ AttemptsBounded /\ Next => AttemptsBounded'
<1> SUFFICES ASSUME TypeOK /\ WorkerKnows /\ Budget /\ AttemptsBounded, Next
             PROVE  AttemptsBounded'
  OBVIOUS
<1>1. ASSUME UNCHANGED <<calls, used>> PROVE AttemptsBounded'
  BY <1>1 DEF AttemptsBounded
<1>MakerAbandoned. ASSUME NEW c \in Makers, MakerAbandoned(c) PROVE AttemptsBounded'
  BY <1>MakerAbandoned DEF MakerAbandoned, Loss, rowVars, Row, RowOf, JobIds, TypeOK,
     AttemptsBounded, RowsOK, CountersOK
<1>CallDestination. ASSUME CallDestination PROVE AttemptsBounded'
  <2>1. used' = used
    BY <1>CallDestination DEF CallDestination
  <2>2. calls[Row] <= worker.count + Unrecorded /\ worker.count \in 0..(MaxAttempts - 1)
    BY <1>CallDestination DEF CallDestination, Budget, Running, TypeOK, WorkerOK
  <2>3. calls'[Row] = calls[Row] + 1 /\ \A d \in Deliveries \ {Row} : calls'[d] = calls[d]
    BY <1>CallDestination, CallEffect DEF TypeOK, RowsOK
  <2>4. QED
    BY <1>CallDestination, <2>1, <2>2, <2>3, CallEffect DEF AttemptsBounded, Unrecorded,
       TypeOK, RowsOK, CountersOK
<1>ResolveAlert. ASSUME NEW x \in Destinations, ResolveAlert(x) PROVE AttemptsBounded'
  BY <1>ResolveAlert DEF ResolveAlert, rowVars, Row, RowOf, JobIds, TypeOK, AttemptsBounded,
     RowsOK, CountersOK
<1>DeleteDestination. ASSUME NEW x \in Destinations, DeleteDestination(x) PROVE AttemptsBounded'
  BY <1>DeleteDestination DEF DeleteDestination, rowVars, Row, RowOf, JobIds, TypeOK,
     AttemptsBounded, RowsOK, CountersOK
<1>WorkerCrash. ASSUME WorkerCrash PROVE AttemptsBounded'
  BY <1>WorkerCrash DEF WorkerCrash, rowVars, Row, RowOf, JobIds, TypeOK, AttemptsBounded,
     RowsOK, CountersOK
<1>RedisLoss. ASSUME RedisLoss PROVE AttemptsBounded'
  BY <1>RedisLoss DEF RedisLoss, Loss, rowVars, Row, RowOf, JobIds, TypeOK, AttemptsBounded,
     RowsOK, CountersOK
<1>CallFails. ASSUME CallFails PROVE AttemptsBounded'
  BY <1>CallFails DEF CallFails, SettleJob, Loss, rowVars, Row, RowOf, JobIds, TypeOK,
     AttemptsBounded, RowsOK, CountersOK
<1>QED. QED
  BY <1>1, <1>MakerAbandoned, <1>CallDestination, <1>ResolveAlert, <1>DeleteDestination,
     <1>WorkerCrash, <1>RedisLoss, <1>CallFails DEF Next, MakerNext, ProcessorNext,
     RouteEvent, Begin, Replay, CreateDelivery, EnqueueDelivery, PickUp, StalledCheck,
     ReadDelivery, RowVanished, MarkDelivering, SettleFinal, SettleRetry, AddRetry,
     SettleDeadLetter, EmitDeadLettered, RaiseRead, RaiseWrite, FinishJob

-----------------------------------------------------------------------------
(* The chain of jobs.                                                      *)

\* No step adds a job under an id that was used.
LEMMA FreshStep ==
  TypeOK /\ WorkerKnows /\ FreshIds /\ Next => FreshIds'
<1> SUFFICES ASSUME TypeOK /\ WorkerKnows /\ FreshIds, Next PROVE FreshIds'
  OBVIOUS
<1>1. ASSUME UNCHANGED <<row, count, jobs, worker, maker>> PROVE FreshIds'
  BY <1>1 DEF FreshIds, Running, Row
<1>RouteEvent. ASSUME NEW c \in Makers, NEW x \in Destinations, RouteEvent(c, x) PROVE FreshIds'
  BY <1>RouteEvent DEF RouteEvent, Begin, rowVars, Row, RowOf, JobIds, TypeOK, FreshIds,
     Running, WorkerKnows, WorkerOK, RowsOK, MakersOK, JobsOK, JobRecords, NoJob, NewJob,
     IdleWorker, IdleMaker
<1>Replay. ASSUME NEW c \in Makers, NEW d \in Deliveries, Replay(c, d) PROVE FreshIds'
  BY <1>Replay DEF Replay, Begin, rowVars, Row, RowOf, JobIds, TypeOK, FreshIds, Running,
     WorkerKnows, WorkerOK, RowsOK, MakersOK, JobsOK, JobRecords, NoJob, NewJob, IdleWorker,
     IdleMaker
<1>CreateDelivery. ASSUME NEW c \in Makers, CreateDelivery(c) PROVE FreshIds'
  <2>1. CASE UNCHANGED <<row, count, jobs, worker>> /\ maker' = [maker EXCEPT ![c] = IdleMaker]
    BY <2>1 DEF FreshIds, Running, Row, TypeOK, MakersOK, IdleMaker
  <2>2. ASSUME NEW d \in Deliveries, row[d] = "none", row' = [row EXCEPT ![d] = "pending"],
               maker' = [maker EXCEPT ![c].pc = "enqueue", ![c].row = d], UNCHANGED <<count, jobs, worker>>
        PROVE  FreshIds'
    <3>1. worker.pc # "idle" => Row \in Deliveries /\ Row # d
      BY <2>2 DEF FreshIds, TypeOK, WorkerOK, Row, RowOf, JobIds
    <3>2. /\ maker'[c].pc = "enqueue" /\ maker'[c].row = d
          /\ \A b \in Makers \ {c} : maker'[b] = maker[b]
      BY <2>2 DEF TypeOK, MakersOK
    <3>3. \A b \in Makers : maker[b].pc = "enqueue" => maker[b].row \in Deliveries /\ maker[b].row # d
      BY <2>2 DEF FreshIds, TypeOK, MakersOK
    <3>4. \A e \in Deliveries \ {d} : row'[e] = row[e]
      BY <2>2 DEF TypeOK, RowsOK
    <3>5. row'[d] = "pending"
      BY <2>2 DEF TypeOK, RowsOK
    <3>6. \A n \in 0..MaxAttempts : jobs[<<d, n>>].state = "absent"
      BY <2>2 DEF FreshIds
    <3>7. \A e \in Deliveries, n \in 0..MaxAttempts :
            row'[e] = "none" \/ n > count[e] => jobs[<<e, n>>].state = "absent"
      BY <3>4, <3>5, <3>6 DEF FreshIds
    <3>8. worker.pc # "idle" => row'[Row] # "none"
      BY <3>1, <3>4 DEF FreshIds
    <3>9. \A b \in Makers : maker'[b].pc = "enqueue" =>
             /\ row'[maker'[b].row] # "none"
             /\ jobs[<<maker'[b].row, 0>>].state = "absent"
             /\ \A a \in Makers \ {b} : maker'[a].pc = "enqueue" => maker'[a].row # maker'[b].row
      <4>1. ASSUME NEW b \in Makers \ {c}, maker'[b].pc = "enqueue"
            PROVE  /\ row'[maker'[b].row] # "none" /\ maker'[b].row # d
                   /\ jobs[<<maker'[b].row, 0>>].state = "absent"
        BY <3>2, <3>3, <3>4, <4>1 DEF FreshIds
      <4>2. ASSUME NEW a \in Makers \ {c}, NEW b \in Makers \ {a, c},
                   maker'[a].pc = "enqueue", maker'[b].pc = "enqueue"
            PROVE  maker'[a].row # maker'[b].row
        <5>1. a \in Makers /\ b \in Makers \ {a} /\ maker'[a] = maker[a] /\ maker'[b] = maker[b]
          BY <3>2
        <5>2. QED
          BY <4>2, <5>1 DEF FreshIds
      <4>3. jobs[<<d, 0>>].state = "absent"
        BY <3>6
      <4>4. QED
        BY <3>2, <3>5, <4>1, <4>2, <4>3
    <3>10. QED
      BY <2>2, <3>7, <3>8, <3>9 DEF FreshIds, Running, Row
  <2>3. QED
    BY <1>CreateDelivery, <2>1, <2>2 DEF CreateDelivery
<1>EnqueueDelivery. ASSUME NEW c \in Makers, EnqueueDelivery(c) PROVE FreshIds'
  BY <1>EnqueueDelivery DEF EnqueueDelivery, AddJob, rowVars, Row, RowOf, JobIds, TypeOK,
     FreshIds, Running, WorkerKnows, WorkerOK, RowsOK, MakersOK, JobsOK, JobRecords, NoJob,
     NewJob, IdleWorker, IdleMaker
<1>MakerAbandoned. ASSUME NEW c \in Makers, MakerAbandoned(c) PROVE FreshIds'
  BY <1>MakerAbandoned DEF MakerAbandoned, Loss, rowVars, Row, RowOf, JobIds, TypeOK,
     FreshIds, Running, WorkerKnows, WorkerOK, RowsOK, MakersOK, JobsOK, JobRecords, NoJob,
     NewJob, IdleWorker, IdleMaker
<1>PickUp. ASSUME NEW j \in JobIds, PickUp(j) PROVE FreshIds'
  BY <1>PickUp DEF PickUp, rowVars, Row, RowOf, JobIds, TypeOK, FreshIds, Running,
     WorkerKnows, WorkerOK, RowsOK, MakersOK, JobsOK, JobRecords, NoJob, NewJob, IdleWorker,
     IdleMaker
<1>StalledCheck. ASSUME NEW j \in JobIds, StalledCheck(j) PROVE FreshIds'
  BY SMTT(30), <1>StalledCheck DEF StalledCheck, rowVars, Row, RowOf, JobIds, TypeOK, FreshIds, Running,
     WorkerKnows, WorkerOK, RowsOK, MakersOK, JobsOK, JobRecords, NoJob, NewJob, IdleWorker,
     IdleMaker
<1>ReadDelivery. ASSUME ReadDelivery PROVE FreshIds'
  BY <1>ReadDelivery DEF ReadDelivery, rowVars, Row, RowOf, JobIds, TypeOK, FreshIds, Running,
     WorkerKnows, WorkerOK, RowsOK, MakersOK, JobsOK, JobRecords, NoJob, NewJob, IdleWorker,
     IdleMaker
<1>RowVanished. ASSUME RowVanished PROVE FreshIds'
  BY <1>RowVanished DEF RowVanished, SettleJob, rowVars, Row, RowOf, JobIds, TypeOK, FreshIds,
     Running, WorkerKnows, WorkerOK, RowsOK, MakersOK, JobsOK, JobRecords, NoJob, NewJob,
     IdleWorker, IdleMaker
<1>MarkDelivering. ASSUME MarkDelivering PROVE FreshIds'
  BY <1>MarkDelivering DEF MarkDelivering, Goto, rowVars, Row, RowOf, JobIds, TypeOK,
     FreshIds, Running, WorkerKnows, WorkerOK, RowsOK, MakersOK, JobsOK, JobRecords, NoJob,
     NewJob, IdleWorker, IdleMaker
<1>CallDestination. ASSUME CallDestination PROVE FreshIds'
  <2>1. UNCHANGED <<row, count, jobs, maker>>
    BY <1>CallDestination DEF CallDestination, rowVars
  <2>2. Row' = Row /\ worker'.pc = "settle" /\ worker.pc = "call"
    BY <1>CallDestination, CallEffect DEF CallDestination, Row
  <2>3. QED
    BY <2>1, <2>2 DEF FreshIds, Running
<1>SettleFinal. ASSUME SettleFinal PROVE FreshIds'
  BY <1>SettleFinal DEF SettleFinal, Goto, rowVars, Row, RowOf, JobIds, TypeOK, FreshIds,
     Running, WorkerKnows, WorkerOK, RowsOK, MakersOK, JobsOK, JobRecords, NoJob, NewJob,
     IdleWorker, IdleMaker
<1>SettleRetry. ASSUME SettleRetry PROVE FreshIds'
  BY <1>SettleRetry DEF SettleRetry, Goto, rowVars, Row, RowOf, JobIds, TypeOK, FreshIds,
     Running, WorkerKnows, WorkerOK, RowsOK, MakersOK, JobsOK, JobRecords, NoJob, NewJob,
     IdleWorker, IdleMaker
<1>AddRetry. ASSUME AddRetry PROVE FreshIds'
  BY <1>AddRetry DEF AddRetry, Goto, AddJob, rowVars, Row, RowOf, JobIds, TypeOK, FreshIds,
     Running, WorkerKnows, WorkerOK, RowsOK, MakersOK, JobsOK, JobRecords, NoJob, NewJob,
     IdleWorker, IdleMaker
<1>SettleDeadLetter. ASSUME SettleDeadLetter PROVE FreshIds'
  BY <1>SettleDeadLetter DEF SettleDeadLetter, Goto, rowVars, Row, RowOf, JobIds, TypeOK,
     FreshIds, Running, WorkerKnows, WorkerOK, RowsOK, MakersOK, JobsOK, JobRecords, NoJob,
     NewJob, IdleWorker, IdleMaker
<1>EmitDeadLettered. ASSUME EmitDeadLettered PROVE FreshIds'
  BY <1>EmitDeadLettered DEF EmitDeadLettered, Goto, rowVars, Row, RowOf, JobIds, TypeOK,
     FreshIds, Running, WorkerKnows, WorkerOK, RowsOK, MakersOK, JobsOK, JobRecords, NoJob,
     NewJob, IdleWorker, IdleMaker
<1>RaiseRead. ASSUME RaiseRead PROVE FreshIds'
  BY <1>RaiseRead DEF RaiseRead, rowVars, Row, RowOf, JobIds, TypeOK, FreshIds, Running,
     WorkerKnows, WorkerOK, RowsOK, MakersOK, JobsOK, JobRecords, NoJob, NewJob, IdleWorker,
     IdleMaker
<1>RaiseWrite. ASSUME RaiseWrite PROVE FreshIds'
  BY <1>RaiseWrite DEF RaiseWrite, Goto, rowVars, Row, RowOf, JobIds, TypeOK, FreshIds,
     Running, WorkerKnows, WorkerOK, RowsOK, MakersOK, JobsOK, JobRecords, NoJob, NewJob,
     IdleWorker, IdleMaker
<1>FinishJob. ASSUME FinishJob PROVE FreshIds'
  BY <1>FinishJob DEF FinishJob, SettleJob, rowVars, Row, RowOf, JobIds, TypeOK, FreshIds,
     Running, WorkerKnows, WorkerOK, RowsOK, MakersOK, JobsOK, JobRecords, NoJob, NewJob,
     IdleWorker, IdleMaker
<1>DeleteDestination. ASSUME NEW x \in Destinations, DeleteDestination(x) PROVE FreshIds'
  BY <1>DeleteDestination DEF DeleteDestination, rowVars, Row, RowOf, JobIds, TypeOK,
     FreshIds, Running, WorkerKnows, WorkerOK, RowsOK, MakersOK, JobsOK, JobRecords, NoJob,
     NewJob, IdleWorker, IdleMaker
<1>WorkerCrash. ASSUME WorkerCrash PROVE FreshIds'
  BY <1>WorkerCrash DEF WorkerCrash, rowVars, Row, RowOf, JobIds, TypeOK, FreshIds, Running,
     WorkerKnows, WorkerOK, RowsOK, MakersOK, JobsOK, JobRecords, NoJob, NewJob, IdleWorker,
     IdleMaker
<1>RedisLoss. ASSUME RedisLoss PROVE FreshIds'
  BY <1>RedisLoss DEF RedisLoss, Loss, rowVars, Row, RowOf, JobIds, TypeOK, FreshIds, Running,
     WorkerKnows, WorkerOK, RowsOK, MakersOK, JobsOK, JobRecords, NoJob, NewJob, IdleWorker,
     IdleMaker
<1>CallFails. ASSUME CallFails PROVE FreshIds'
  BY <1>CallFails DEF CallFails, SettleJob, Loss, rowVars, Row, RowOf, JobIds, TypeOK,
     FreshIds, Running, WorkerKnows, WorkerOK, RowsOK, MakersOK, JobsOK, JobRecords, NoJob,
     NewJob, IdleWorker, IdleMaker
<1>QED. QED
  BY <1>1, <1>RouteEvent, <1>Replay, <1>CreateDelivery, <1>EnqueueDelivery, <1>MakerAbandoned,
     <1>PickUp, <1>StalledCheck, <1>ReadDelivery, <1>RowVanished, <1>MarkDelivering,
     <1>CallDestination, <1>SettleFinal, <1>SettleRetry, <1>AddRetry, <1>SettleDeadLetter,
     <1>EmitDeadLettered, <1>RaiseRead, <1>RaiseWrite, <1>FinishJob, <1>DeleteDestination,
     <1>WorkerCrash, <1>RedisLoss, <1>CallFails DEF Next, MakerNext, ProcessorNext,
     ResolveAlert, rowVars

\* Only a crash leaves an active job without a worker.
LEMMA StallsStep ==
  TypeOK /\ WorkerKnows /\ StallsCounted /\ Next => StallsCounted'
<1> SUFFICES ASSUME TypeOK /\ WorkerKnows /\ StallsCounted, Next PROVE StallsCounted'
  OBVIOUS
<1>1. ASSUME UNCHANGED <<used, worker, jobs>> PROVE StallsCounted'
  BY <1>1 DEF StallsCounted, Held
<1>EnqueueDelivery. ASSUME NEW c \in Makers, EnqueueDelivery(c) PROVE StallsCounted'
  <2> DEFINE k == <<maker[c].row, 0>>
  <2>1. k \in JobIds /\ AddJob(k) /\ UNCHANGED <<worker, used>>
    BY <1>EnqueueDelivery DEF EnqueueDelivery, TypeOK, MakersOK, JobIds
  <2> HIDE DEF k
  <2>2. QED
    BY <2>1, AddJobEffect DEF StallsCounted, Held, TypeOK, JobsOK, JobRecords, NewJob,
       WorkerOK, CountersOK
<1>MakerAbandoned. ASSUME NEW c \in Makers, MakerAbandoned(c) PROVE StallsCounted'
  BY <1>MakerAbandoned DEF MakerAbandoned, Loss, rowVars, Row, RowOf, JobIds, TypeOK,
     StallsCounted, MakersOK, Held, WorkerOK, JobsOK, JobRecords, NoJob, NewJob, IdleWorker,
     CountersOK
<1>PickUp. ASSUME NEW j \in JobIds, PickUp(j) PROVE StallsCounted'
  BY <1>PickUp DEF PickUp, rowVars, Row, RowOf, JobIds, TypeOK, StallsCounted, MakersOK, Held,
     WorkerOK, JobsOK, JobRecords, NoJob, NewJob, IdleWorker, CountersOK
<1>StalledCheck. ASSUME NEW j \in JobIds, StalledCheck(j) PROVE StallsCounted'
  BY <1>StalledCheck DEF StalledCheck, rowVars, Row, RowOf, JobIds, TypeOK, StallsCounted,
     MakersOK, Held, WorkerOK, JobsOK, JobRecords, NoJob, NewJob, IdleWorker, CountersOK
<1>ReadDelivery. ASSUME ReadDelivery PROVE StallsCounted'
  BY <1>ReadDelivery DEF ReadDelivery, rowVars, Row, RowOf, JobIds, TypeOK, StallsCounted,
     MakersOK, Held, WorkerOK, JobsOK, JobRecords, NoJob, NewJob, IdleWorker, CountersOK
<1>RowVanished. ASSUME RowVanished PROVE StallsCounted'
  BY <1>RowVanished DEF RowVanished, SettleJob, rowVars, Row, RowOf, JobIds, TypeOK,
     StallsCounted, MakersOK, Held, WorkerOK, JobsOK, JobRecords, NoJob, NewJob, IdleWorker,
     CountersOK
<1>MarkDelivering. ASSUME MarkDelivering PROVE StallsCounted'
  BY <1>MarkDelivering DEF MarkDelivering, Goto, rowVars, Row, RowOf, JobIds, TypeOK,
     StallsCounted, MakersOK, Held, WorkerOK, JobsOK, JobRecords, NoJob, NewJob, IdleWorker,
     CountersOK
<1>CallDestination. ASSUME CallDestination PROVE StallsCounted'
  BY <1>CallDestination, CallEffect DEF CallDestination, StallsCounted, Held
<1>SettleFinal. ASSUME SettleFinal PROVE StallsCounted'
  BY <1>SettleFinal DEF SettleFinal, Goto, rowVars, Row, RowOf, JobIds, TypeOK, StallsCounted,
     MakersOK, Held, WorkerOK, JobsOK, JobRecords, NoJob, NewJob, IdleWorker, CountersOK
<1>SettleRetry. ASSUME SettleRetry PROVE StallsCounted'
  BY <1>SettleRetry DEF SettleRetry, Goto, rowVars, Row, RowOf, JobIds, TypeOK, StallsCounted,
     MakersOK, Held, WorkerOK, JobsOK, JobRecords, NoJob, NewJob, IdleWorker, CountersOK
<1>AddRetry. ASSUME AddRetry PROVE StallsCounted'
  BY <1>AddRetry DEF AddRetry, Goto, AddJob, rowVars, Row, RowOf, JobIds, TypeOK,
     StallsCounted, MakersOK, Held, WorkerOK, JobsOK, JobRecords, NoJob, NewJob, IdleWorker,
     CountersOK
<1>SettleDeadLetter. ASSUME SettleDeadLetter PROVE StallsCounted'
  BY <1>SettleDeadLetter DEF SettleDeadLetter, Goto, rowVars, Row, RowOf, JobIds, TypeOK,
     StallsCounted, MakersOK, Held, WorkerOK, JobsOK, JobRecords, NoJob, NewJob, IdleWorker,
     CountersOK
<1>EmitDeadLettered. ASSUME EmitDeadLettered PROVE StallsCounted'
  BY <1>EmitDeadLettered DEF EmitDeadLettered, Goto, rowVars, Row, RowOf, JobIds, TypeOK,
     StallsCounted, MakersOK, Held, WorkerOK, JobsOK, JobRecords, NoJob, NewJob, IdleWorker,
     CountersOK
<1>RaiseRead. ASSUME RaiseRead PROVE StallsCounted'
  BY <1>RaiseRead DEF RaiseRead, rowVars, Row, RowOf, JobIds, TypeOK, StallsCounted, MakersOK,
     Held, WorkerOK, JobsOK, JobRecords, NoJob, NewJob, IdleWorker, CountersOK
<1>RaiseWrite. ASSUME RaiseWrite PROVE StallsCounted'
  BY <1>RaiseWrite DEF RaiseWrite, Goto, rowVars, Row, RowOf, JobIds, TypeOK, StallsCounted,
     MakersOK, Held, WorkerOK, JobsOK, JobRecords, NoJob, NewJob, IdleWorker, CountersOK
<1>FinishJob. ASSUME FinishJob PROVE StallsCounted'
  BY <1>FinishJob DEF FinishJob, SettleJob, rowVars, Row, RowOf, JobIds, TypeOK,
     StallsCounted, MakersOK, Held, WorkerOK, JobsOK, JobRecords, NoJob, NewJob, IdleWorker,
     CountersOK
<1>ResolveAlert. ASSUME NEW x \in Destinations, ResolveAlert(x) PROVE StallsCounted'
  BY <1>ResolveAlert DEF ResolveAlert, rowVars, Row, RowOf, JobIds, TypeOK, StallsCounted,
     MakersOK, Held, WorkerOK, JobsOK, JobRecords, NoJob, NewJob, IdleWorker, CountersOK
<1>DeleteDestination. ASSUME NEW x \in Destinations, DeleteDestination(x) PROVE StallsCounted'
  BY <1>DeleteDestination DEF DeleteDestination, rowVars, Row, RowOf, JobIds, TypeOK,
     StallsCounted, MakersOK, Held, WorkerOK, JobsOK, JobRecords, NoJob, NewJob, IdleWorker,
     CountersOK
<1>WorkerCrash. ASSUME WorkerCrash PROVE StallsCounted'
  BY <1>WorkerCrash DEF WorkerCrash, rowVars, Row, RowOf, JobIds, TypeOK, StallsCounted,
     MakersOK, Held, WorkerOK, JobsOK, JobRecords, NoJob, NewJob, IdleWorker, CountersOK
<1>RedisLoss. ASSUME RedisLoss PROVE StallsCounted'
  BY <1>RedisLoss DEF RedisLoss, Loss, rowVars, Row, RowOf, JobIds, TypeOK, StallsCounted,
     MakersOK, Held, WorkerOK, JobsOK, JobRecords, NoJob, NewJob, IdleWorker, CountersOK
<1>CallFails. ASSUME CallFails PROVE StallsCounted'
  BY <1>CallFails DEF CallFails, SettleJob, Loss, rowVars, Row, RowOf, JobIds, TypeOK,
     StallsCounted, MakersOK, Held, WorkerOK, JobsOK, JobRecords, NoJob, NewJob, IdleWorker,
     CountersOK
<1>QED. QED
  BY <1>1, <1>EnqueueDelivery, <1>MakerAbandoned, <1>PickUp, <1>StalledCheck, <1>ReadDelivery,
     <1>RowVanished, <1>MarkDelivering, <1>CallDestination, <1>SettleFinal, <1>SettleRetry,
     <1>AddRetry, <1>SettleDeadLetter, <1>EmitDeadLettered, <1>RaiseRead, <1>RaiseWrite,
     <1>FinishJob, <1>ResolveAlert, <1>DeleteDestination, <1>WorkerCrash, <1>RedisLoss,
     <1>CallFails DEF Next, MakerNext, ProcessorNext, RouteEvent, Begin, Replay,
     CreateDelivery

\* The retry is added before the processor finishes, and stays.
LEMMA HandsOverStep ==
  TypeOK /\ WorkerKnows /\ FreshIds /\ StallsCounted /\ HandsOver /\ Next => HandsOver'
<1> SUFFICES ASSUME TypeOK /\ WorkerKnows /\ FreshIds /\ StallsCounted /\ HandsOver, Next
             PROVE  HandsOver'
  OBVIOUS
<1>1. ASSUME UNCHANGED <<used, worker, row, jobs>> PROVE HandsOver'
  BY <1>1 DEF HandsOver, Running, Row
<1>CreateDelivery. ASSUME NEW c \in Makers, CreateDelivery(c) PROVE HandsOver'
  BY <1>CreateDelivery DEF CreateDelivery, rowVars, Row, RowOf, JobIds, TypeOK, HandsOver,
     FreshIds, StallsCounted, Held, Running, Open, WorkerKnows, WorkerOK, JobsOK, RowsOK,
     MakersOK, JobRecords, NewJob, IdleWorker, CountersOK
<1>EnqueueDelivery. ASSUME NEW c \in Makers, EnqueueDelivery(c) PROVE HandsOver'
  BY <1>EnqueueDelivery DEF EnqueueDelivery, AddJob, rowVars, Row, RowOf, JobIds, TypeOK,
     HandsOver, FreshIds, StallsCounted, Held, Running, Open, WorkerKnows, WorkerOK, JobsOK,
     RowsOK, MakersOK, JobRecords, NewJob, IdleWorker, CountersOK
<1>MakerAbandoned. ASSUME NEW c \in Makers, MakerAbandoned(c) PROVE HandsOver'
  BY <1>MakerAbandoned DEF MakerAbandoned, Loss, rowVars, Row, RowOf, JobIds, TypeOK,
     HandsOver, FreshIds, StallsCounted, Held, Running, Open, WorkerKnows, WorkerOK, JobsOK,
     RowsOK, MakersOK, JobRecords, NewJob, IdleWorker, CountersOK
<1>PickUp. ASSUME NEW j \in JobIds, PickUp(j) PROVE HandsOver'
  BY <1>PickUp DEF PickUp, rowVars, Row, RowOf, JobIds, TypeOK, HandsOver, FreshIds,
     StallsCounted, Held, Running, Open, WorkerKnows, WorkerOK, JobsOK, RowsOK, MakersOK,
     JobRecords, NewJob, IdleWorker, CountersOK
<1>StalledCheck. ASSUME NEW j \in JobIds, StalledCheck(j) PROVE HandsOver'
  <2>1. UNCHANGED <<row, worker, used>>
    BY <1>StalledCheck DEF StalledCheck, rowVars
  <2>2. \A i \in JobIds : used.crash <= MaxStalled /\ used.loss = 0 /\ jobs[i].state \in {"wait", "active"} =>
          jobs'[i].state \in {"wait", "active"}
    BY <1>StalledCheck, StalledEffect
  <2>3. \A n \in 0..MaxAttempts : worker.pc = "finish" => <<Row, n>> \in JobIds
    BY DEF TypeOK, WorkerOK, JobIds, Row, RowOf
  <2>4. QED
    BY <2>1, <2>2, <2>3 DEF HandsOver, Running, Row
<1>ReadDelivery. ASSUME ReadDelivery PROVE HandsOver'
  BY <1>ReadDelivery DEF ReadDelivery, rowVars, Row, RowOf, JobIds, TypeOK, HandsOver,
     FreshIds, StallsCounted, Held, Running, Open, WorkerKnows, WorkerOK, JobsOK, RowsOK,
     MakersOK, JobRecords, NewJob, IdleWorker, CountersOK
<1>RowVanished. ASSUME RowVanished PROVE HandsOver'
  BY <1>RowVanished DEF RowVanished, SettleJob, rowVars, Row, RowOf, JobIds, TypeOK,
     HandsOver, FreshIds, StallsCounted, Held, Running, Open, WorkerKnows, WorkerOK, JobsOK,
     RowsOK, MakersOK, JobRecords, NewJob, IdleWorker, CountersOK
<1>MarkDelivering. ASSUME MarkDelivering PROVE HandsOver'
  BY <1>MarkDelivering DEF MarkDelivering, Goto, rowVars, Row, RowOf, JobIds, TypeOK,
     HandsOver, FreshIds, StallsCounted, Held, Running, Open, WorkerKnows, WorkerOK, JobsOK,
     RowsOK, MakersOK, JobRecords, NewJob, IdleWorker, CountersOK
<1>CallDestination. ASSUME CallDestination PROVE HandsOver'
  BY <1>CallDestination, CallEffect DEF HandsOver, Running
<1>SettleFinal. ASSUME SettleFinal PROVE HandsOver'
  BY <1>SettleFinal DEF SettleFinal, Goto, rowVars, Row, RowOf, JobIds, TypeOK, HandsOver,
     FreshIds, StallsCounted, Held, Running, Open, WorkerKnows, WorkerOK, JobsOK, RowsOK,
     MakersOK, JobRecords, NewJob, IdleWorker, CountersOK
<1>SettleRetry. ASSUME SettleRetry PROVE HandsOver'
  BY <1>SettleRetry DEF SettleRetry, Goto, rowVars, Row, RowOf, JobIds, TypeOK, HandsOver,
     FreshIds, StallsCounted, Held, Running, Open, WorkerKnows, WorkerOK, JobsOK, RowsOK,
     MakersOK, JobRecords, NewJob, IdleWorker, CountersOK
<1>AddRetry. ASSUME AddRetry PROVE HandsOver'
  <2> DEFINE k == <<Row, worker.count + 1>>
  <2>1. worker.pc = "retry" /\ worker.count + 1 \in 0..MaxAttempts /\ k \in JobIds
    BY <1>AddRetry DEF AddRetry, Goto, TypeOK, WorkerOK, JobIds, Row, RowOf
  <2>2. AddJob(k) /\ UNCHANGED <<row, used>> /\ worker' = [worker EXCEPT !.pc = "finish"]
    BY <1>AddRetry DEF AddRetry, Goto, rowVars
  <2>3. Row' = Row /\ worker'.job = worker.job
    BY <2>2 DEF TypeOK, WorkerOK, Row
  <2>4. jobs[k].state = "absent"
    BY <2>1 DEF FreshIds, Running
  <2>5. jobs'[k].state = "wait"
    BY <2>1, <2>2, <2>4, AddJobEffect DEF NewJob
  <2>6. used.loss = 0 => worker.job # k
    BY <2>1, <2>4 DEF StallsCounted
  <2>7. QED
    BY <2>1, <2>2, <2>3, <2>5, <2>6 DEF HandsOver
<1>SettleDeadLetter. ASSUME SettleDeadLetter PROVE HandsOver'
  BY <1>SettleDeadLetter DEF SettleDeadLetter, Goto, rowVars, Row, RowOf, JobIds, TypeOK,
     HandsOver, FreshIds, StallsCounted, Held, Running, Open, WorkerKnows, WorkerOK, JobsOK,
     RowsOK, MakersOK, JobRecords, NewJob, IdleWorker, CountersOK
<1>EmitDeadLettered. ASSUME EmitDeadLettered PROVE HandsOver'
  BY <1>EmitDeadLettered DEF EmitDeadLettered, Goto, rowVars, Row, RowOf, JobIds, TypeOK,
     HandsOver, FreshIds, StallsCounted, Held, Running, Open, WorkerKnows, WorkerOK, JobsOK,
     RowsOK, MakersOK, JobRecords, NewJob, IdleWorker, CountersOK
<1>RaiseRead. ASSUME RaiseRead PROVE HandsOver'
  BY <1>RaiseRead DEF RaiseRead, rowVars, Row, RowOf, JobIds, TypeOK, HandsOver, FreshIds,
     StallsCounted, Held, Running, Open, WorkerKnows, WorkerOK, JobsOK, RowsOK, MakersOK,
     JobRecords, NewJob, IdleWorker, CountersOK
<1>RaiseWrite. ASSUME RaiseWrite PROVE HandsOver'
  BY <1>RaiseWrite DEF RaiseWrite, Goto, rowVars, Row, RowOf, JobIds, TypeOK, HandsOver,
     FreshIds, StallsCounted, Held, Running, Open, WorkerKnows, WorkerOK, JobsOK, RowsOK,
     MakersOK, JobRecords, NewJob, IdleWorker, CountersOK
<1>FinishJob. ASSUME FinishJob PROVE HandsOver'
  BY <1>FinishJob DEF FinishJob, SettleJob, rowVars, Row, RowOf, JobIds, TypeOK, HandsOver,
     FreshIds, StallsCounted, Held, Running, Open, WorkerKnows, WorkerOK, JobsOK, RowsOK,
     MakersOK, JobRecords, NewJob, IdleWorker, CountersOK
<1>ResolveAlert. ASSUME NEW x \in Destinations, ResolveAlert(x) PROVE HandsOver'
  BY <1>ResolveAlert DEF ResolveAlert, rowVars, Row, RowOf, JobIds, TypeOK, HandsOver,
     FreshIds, StallsCounted, Held, Running, Open, WorkerKnows, WorkerOK, JobsOK, RowsOK,
     MakersOK, JobRecords, NewJob, IdleWorker, CountersOK
<1>DeleteDestination. ASSUME NEW x \in Destinations, DeleteDestination(x) PROVE HandsOver'
  BY <1>DeleteDestination DEF DeleteDestination, rowVars, Row, RowOf, JobIds, TypeOK,
     HandsOver, FreshIds, StallsCounted, Held, Running, Open, WorkerKnows, WorkerOK, JobsOK,
     RowsOK, MakersOK, JobRecords, NewJob, IdleWorker, CountersOK
<1>WorkerCrash. ASSUME WorkerCrash PROVE HandsOver'
  BY <1>WorkerCrash DEF WorkerCrash, rowVars, Row, RowOf, JobIds, TypeOK, HandsOver, FreshIds,
     StallsCounted, Held, Running, Open, WorkerKnows, WorkerOK, JobsOK, RowsOK, MakersOK,
     JobRecords, NewJob, IdleWorker, CountersOK
<1>RedisLoss. ASSUME RedisLoss PROVE HandsOver'
  BY <1>RedisLoss DEF RedisLoss, Loss, rowVars, Row, RowOf, JobIds, TypeOK, HandsOver,
     FreshIds, StallsCounted, Held, Running, Open, WorkerKnows, WorkerOK, JobsOK, RowsOK,
     MakersOK, JobRecords, NewJob, IdleWorker, CountersOK
<1>CallFails. ASSUME CallFails PROVE HandsOver'
  BY <1>CallFails DEF CallFails, SettleJob, Loss, rowVars, Row, RowOf, JobIds, TypeOK,
     HandsOver, FreshIds, StallsCounted, Held, Running, Open, WorkerKnows, WorkerOK, JobsOK,
     RowsOK, MakersOK, JobRecords, NewJob, IdleWorker, CountersOK
<1>QED. QED
  BY <1>1, <1>CreateDelivery, <1>EnqueueDelivery, <1>MakerAbandoned, <1>PickUp,
     <1>StalledCheck, <1>ReadDelivery, <1>RowVanished, <1>MarkDelivering, <1>CallDestination,
     <1>SettleFinal, <1>SettleRetry, <1>AddRetry, <1>SettleDeadLetter, <1>EmitDeadLettered,
     <1>RaiseRead, <1>RaiseWrite, <1>FinishJob, <1>ResolveAlert, <1>DeleteDestination,
     <1>WorkerCrash, <1>RedisLoss, <1>CallFails DEF Next, MakerNext, ProcessorNext,
     RouteEvent, Begin, rowVars, Replay

\* No step takes the last job of an open row away.
LEMMA PursuedStep ==
  TypeOK /\ WorkerKnows /\ FreshIds /\ StallsCounted /\ HandsOver /\ OpenIsPursued /\ Next => OpenIsPursued'
<1> SUFFICES ASSUME TypeOK /\ WorkerKnows /\ FreshIds /\ StallsCounted /\ HandsOver /\ OpenIsPursued, Next
             PROVE  OpenIsPursued'
  OBVIOUS
<1>1. ASSUME UNCHANGED <<jobs, maker>>, used'.crash >= used.crash, used'.loss >= used.loss,
             \A d \in Deliveries : row'[d] \in Open => row[d] \in Open
      PROVE  OpenIsPursued'
  <2>1. used'.crash <= MaxStalled /\ used'.loss = 0 => used.crash <= MaxStalled /\ used.loss = 0
    BY <1>1, CountersStep DEF TypeOK, CountersOK
  <2>2. QED
    BY <1>1, <2>1 DEF OpenIsPursued, Pursued
<1>2. ASSUME NEW d \in Deliveries, row[d] \in Open, used.crash <= MaxStalled, used.loss = 0,
             \A n \in 0..MaxAttempts : jobs[<<d, n>>].state \in {"wait", "active"} => jobs'[<<d, n>>] = jobs[<<d, n>>],
             \A c \in Makers : maker[c].pc = "enqueue" /\ maker[c].row = d => maker'[c] = maker[c]
      PROVE  Pursued(d)'
  BY <1>2 DEF OpenIsPursued, Pursued
<1>3. ASSUME UNCHANGED <<row, maker, used>>, NEW j \in JobIds, \A i \in JobIds \ {j} : jobs'[i] = jobs[i],
             \/ used.crash <= MaxStalled /\ used.loss = 0 => jobs'[j].state \in {"wait", "active"}
             \/ jobs'[j] = jobs[j]
      PROVE  OpenIsPursued'
  <2>1. \A d \in Deliveries, n \in 0..MaxAttempts : <<d, n>> \in JobIds
    BY DEF JobIds
  <2>2. QED
    BY <1>3, <2>1 DEF OpenIsPursued, Pursued
<1>RouteEvent. ASSUME NEW c \in Makers, NEW x \in Destinations, RouteEvent(c, x)
               PROVE  OpenIsPursued'
  BY <1>RouteEvent DEF RouteEvent, Begin, rowVars, OpenIsPursued, Pursued, TypeOK, MakersOK,
     IdleMaker
<1>Replay. ASSUME NEW c \in Makers, NEW d \in Deliveries, Replay(c, d) PROVE OpenIsPursued'
  BY <1>Replay DEF Replay, Begin, rowVars, OpenIsPursued, Pursued, TypeOK, MakersOK, IdleMaker
<1>CreateDelivery. ASSUME NEW c \in Makers, CreateDelivery(c) PROVE OpenIsPursued'
  <2> SUFFICES ASSUME used.crash <= MaxStalled, used.loss = 0, NEW e \in Deliveries, row'[e] \in Open
               PROVE  Pursued(e)'
    BY <1>CreateDelivery DEF CreateDelivery, OpenIsPursued
  <2>1. jobs' = jobs
    BY <1>CreateDelivery DEF CreateDelivery
  <2>2. \A b \in Makers : maker[b].pc = "enqueue" => maker'[b] = maker[b]
    BY <1>CreateDelivery DEF CreateDelivery, TypeOK, MakersOK
  <2>3. CASE row[e] \in Open
    BY <2>1, <2>2, <2>3, <1>2
  <2>4. CASE row[e] \notin Open
    <3>1. PICK d \in Deliveries : /\ row' = [row EXCEPT ![d] = "pending"]
                                 /\ maker' = [maker EXCEPT ![c].pc = "enqueue", ![c].row = d]
      BY <1>CreateDelivery, <2>4 DEF CreateDelivery
    <3>2. d = e
      BY <2>4, <3>1 DEF TypeOK, RowsOK
    <3>3. maker'[c].pc = "enqueue" /\ maker'[c].row = e
      BY <3>1, <3>2 DEF TypeOK, MakersOK
    <3>4. QED
      BY <3>3 DEF Pursued
  <2>5. QED
    BY <2>3, <2>4
<1>EnqueueDelivery. ASSUME NEW c \in Makers, EnqueueDelivery(c) PROVE OpenIsPursued'
  <2> SUFFICES ASSUME used.crash <= MaxStalled, used.loss = 0, NEW d \in Deliveries, row[d] \in Open
               PROVE  Pursued(d)'
    BY <1>EnqueueDelivery DEF EnqueueDelivery, OpenIsPursued, rowVars
  <2> DEFINE k == <<maker[c].row, 0>>
  <2>1. k \in JobIds /\ AddJob(k) /\ jobs[k].state = "absent"
    BY <1>EnqueueDelivery DEF EnqueueDelivery, TypeOK, MakersOK, JobIds, FreshIds
  <2>2. jobs'[k].state = "wait" /\ \A i \in JobIds \ {k} : jobs'[i] = jobs[i]
    BY <2>1, AddJobEffect DEF NewJob
  <2>3. CASE maker[c].row = d
    <3>1. 0 \in 0..MaxAttempts
      OBVIOUS
    <3>2. QED
      BY <2>2, <2>3, <3>1 DEF Pursued
  <2>4. CASE maker[c].row # d
    <3>1. \A n \in 0..MaxAttempts : <<d, n>> \in JobIds /\ <<d, n>> # k
      BY <2>4 DEF JobIds
    <3>2. \A b \in Makers \ {c} : maker'[b] = maker[b]
      BY <1>EnqueueDelivery DEF EnqueueDelivery, TypeOK, MakersOK
    <3>3. \A b \in Makers : maker[b].pc = "enqueue" /\ maker[b].row = d => maker'[b] = maker[b]
      BY <2>4, <3>2
    <3> HIDE DEF k
    <3>4. QED
      BY <2>2, <3>1, <3>3, <1>2
  <2>5. QED
    BY <2>3, <2>4
<1>MakerAbandoned. ASSUME NEW c \in Makers, MakerAbandoned(c) PROVE OpenIsPursued'
  BY <1>MakerAbandoned DEF MakerAbandoned, Loss, OpenIsPursued, TypeOK, CountersOK
<1>PickUp. ASSUME NEW j \in JobIds, PickUp(j) PROVE OpenIsPursued'
  <2>1. /\ UNCHANGED <<row, maker, used>>
        /\ jobs'[j].state = "active" /\ \A i \in JobIds \ {j} : jobs'[i] = jobs[i]
    BY <1>PickUp DEF PickUp, rowVars, TypeOK, JobsOK, JobRecords
  <2>2. QED
    BY <2>1, <1>3
<1>StalledCheck. ASSUME NEW j \in JobIds, StalledCheck(j) PROVE OpenIsPursued'
  <2>1. UNCHANGED <<row, maker, used>>
    BY <1>StalledCheck DEF StalledCheck, rowVars
  <2>2. QED
    BY <1>StalledCheck, <2>1, <1>3, StalledEffect
<1>ReadDelivery. ASSUME ReadDelivery PROVE OpenIsPursued'
  BY <1>ReadDelivery, <1>1 DEF ReadDelivery, rowVars, TypeOK, CountersOK
<1>RowVanished. ASSUME RowVanished PROVE OpenIsPursued'
  <2>1. UNCHANGED <<row, maker, used>> /\ row[Row] = "deleted"
    BY <1>RowVanished DEF RowVanished, rowVars
  <2>2. \A i \in JobIds \ {worker.job} : jobs'[i] = jobs[i]
    BY <1>RowVanished, SettleJobEffect DEF RowVanished
  <2>3. \A d \in Deliveries, n \in 0..MaxAttempts :
          row[d] \in Open => <<d, n>> \in JobIds /\ <<d, n>> # worker.job
    BY <2>1 DEF Row, RowOf, JobIds, Open
  <2>4. QED
    BY <2>1, <2>2, <2>3, <1>2 DEF OpenIsPursued
<1>MarkDelivering. ASSUME MarkDelivering PROVE OpenIsPursued'
  BY <1>MarkDelivering, <1>1 DEF MarkDelivering, Goto, rowVars, TypeOK, CountersOK, RowsOK,
     WorkerKnows, Running, WorkerOK, Open, Row, RowOf, JobIds
<1>CallDestination. ASSUME CallDestination PROVE OpenIsPursued'
  <2>1. UNCHANGED <<jobs, maker, row, used>>
    BY <1>CallDestination DEF CallDestination, rowVars
  <2>2. QED
    BY <2>1, <1>1 DEF TypeOK, CountersOK
<1>SettleFinal. ASSUME SettleFinal PROVE OpenIsPursued'
  BY <1>SettleFinal, <1>1 DEF SettleFinal, Goto, rowVars, TypeOK, CountersOK, RowsOK,
     WorkerKnows, Running, WorkerOK, Open, Row, RowOf, JobIds
<1>SettleRetry. ASSUME SettleRetry PROVE OpenIsPursued'
  BY <1>SettleRetry, <1>1 DEF SettleRetry, Goto, rowVars, TypeOK, CountersOK, RowsOK,
     WorkerKnows, Running, WorkerOK, Open, Row, RowOf, JobIds
<1>AddRetry. ASSUME AddRetry PROVE OpenIsPursued'
  <2> DEFINE k == <<Row, worker.count + 1>>
  <2>1. k \in JobIds /\ AddJob(k) /\ UNCHANGED <<row, maker, used>>
    BY <1>AddRetry DEF AddRetry, Goto, rowVars, TypeOK, WorkerOK, JobIds, Row, RowOf
  <2> HIDE DEF k
  <2>2. QED
    BY <2>1, <1>3, AddJobEffect DEF NewJob
<1>SettleDeadLetter. ASSUME SettleDeadLetter PROVE OpenIsPursued'
  BY <1>SettleDeadLetter, <1>1 DEF SettleDeadLetter, Goto, rowVars, TypeOK, CountersOK,
     RowsOK, WorkerKnows, Running, WorkerOK, Open, Row, RowOf, JobIds
<1>EmitDeadLettered. ASSUME EmitDeadLettered PROVE OpenIsPursued'
  BY <1>EmitDeadLettered, <1>1 DEF EmitDeadLettered, Goto, rowVars, TypeOK, CountersOK
<1>RaiseRead. ASSUME RaiseRead PROVE OpenIsPursued'
  BY <1>RaiseRead, <1>1 DEF RaiseRead, rowVars, TypeOK, CountersOK
<1>RaiseWrite. ASSUME RaiseWrite PROVE OpenIsPursued'
  BY <1>RaiseWrite, <1>1 DEF RaiseWrite, Goto, rowVars, TypeOK, CountersOK
<1>FinishJob. ASSUME FinishJob PROVE OpenIsPursued'
  <2> SUFFICES ASSUME used.crash <= MaxStalled, used.loss = 0, NEW d \in Deliveries, row[d] \in Open
               PROVE  Pursued(d)'
    BY <1>FinishJob DEF FinishJob, OpenIsPursued, rowVars
  <2>1. \A i \in JobIds \ {worker.job} : jobs'[i] = jobs[i]
    BY <1>FinishJob, SettleJobEffect DEF FinishJob
  <2>2. maker' = maker /\ \A n \in 0..MaxAttempts : <<d, n>> \in JobIds
    BY <1>FinishJob DEF FinishJob, JobIds
  <2>3. CASE Row = d
    <3>1. PICK n \in 0..MaxAttempts : /\ <<Row, n>> # worker.job
                                     /\ jobs[<<Row, n>>].state \in {"wait", "active"}
      BY <1>FinishJob, <2>3 DEF FinishJob, HandsOver, Running
    <3>2. QED
      BY <2>1, <2>2, <2>3, <3>1 DEF Pursued
  <2>4. CASE Row # d
    <3>1. \A n \in 0..MaxAttempts : <<d, n>> # worker.job
      BY <2>4 DEF Row, RowOf
    <3>2. QED
      BY <2>1, <2>2, <3>1, <1>2
  <2>5. QED
    BY <2>3, <2>4
<1>ResolveAlert. ASSUME NEW x \in Destinations, ResolveAlert(x) PROVE OpenIsPursued'
  BY <1>ResolveAlert, <1>1 DEF ResolveAlert, rowVars, TypeOK, CountersOK
<1>DeleteDestination. ASSUME NEW x \in Destinations, DeleteDestination(x) PROVE OpenIsPursued'
  BY <1>DeleteDestination, <1>1 DEF DeleteDestination, rowVars, TypeOK, CountersOK, RowsOK, Open
<1>WorkerCrash. ASSUME WorkerCrash PROVE OpenIsPursued'
  BY <1>WorkerCrash, <1>1 DEF WorkerCrash, rowVars, TypeOK, CountersOK
<1>RedisLoss. ASSUME RedisLoss PROVE OpenIsPursued'
  BY <1>RedisLoss DEF RedisLoss, Loss, OpenIsPursued, TypeOK, CountersOK
<1>CallFails. ASSUME CallFails PROVE OpenIsPursued'
  BY <1>CallFails DEF CallFails, SettleJob, Loss, OpenIsPursued, TypeOK, CountersOK
<1>QED. QED
  BY <1>RouteEvent, <1>Replay, <1>CreateDelivery, <1>EnqueueDelivery, <1>MakerAbandoned,
     <1>PickUp, <1>StalledCheck, <1>ReadDelivery, <1>RowVanished, <1>MarkDelivering,
     <1>CallDestination, <1>SettleFinal, <1>SettleRetry, <1>AddRetry, <1>SettleDeadLetter,
     <1>EmitDeadLettered, <1>RaiseRead, <1>RaiseWrite, <1>FinishJob, <1>ResolveAlert,
     <1>DeleteDestination, <1>WorkerCrash, <1>RedisLoss, <1>CallFails DEF Next, MakerNext,
     ProcessorNext

-----------------------------------------------------------------------------
(* Dead letters.                                                           *)

\* A dead letter is announced step by step and stays announced.
LEMMA AnnouncingStep ==
  TypeOK /\ WorkerKnows /\ Announcing /\ Next => Announcing'
<1> SUFFICES ASSUME TypeOK /\ WorkerKnows /\ Announcing, Next PROVE Announcing'
  OBVIOUS
<1>1. ASSUME UNCHANGED <<used, row, worker, dead, dest, firing>> PROVE Announcing'
  BY <1>1 DEF Announcing, Running, Row
<1>CreateDelivery. ASSUME NEW c \in Makers, CreateDelivery(c) PROVE Announcing'
  BY <1>CreateDelivery DEF CreateDelivery, rowVars, Row, RowOf, JobIds, TypeOK, Announcing,
     Running, WorkerKnows, WorkerOK, RowsOK, IdleWorker, Open, CountersOK
<1>MakerAbandoned. ASSUME NEW c \in Makers, MakerAbandoned(c) PROVE Announcing'
  BY <1>MakerAbandoned DEF MakerAbandoned, Loss, rowVars, Row, RowOf, JobIds, TypeOK,
     Announcing, Running, WorkerKnows, WorkerOK, RowsOK, IdleWorker, Open, CountersOK
<1>PickUp. ASSUME NEW j \in JobIds, PickUp(j) PROVE Announcing'
  BY <1>PickUp DEF PickUp, rowVars, Row, RowOf, JobIds, TypeOK, Announcing, Running,
     WorkerKnows, WorkerOK, RowsOK, IdleWorker, Open, CountersOK
<1>ReadDelivery. ASSUME ReadDelivery PROVE Announcing'
  BY <1>ReadDelivery DEF ReadDelivery, rowVars, Row, RowOf, JobIds, TypeOK, Announcing,
     Running, WorkerKnows, WorkerOK, RowsOK, IdleWorker, Open, CountersOK
<1>RowVanished. ASSUME RowVanished PROVE Announcing'
  BY <1>RowVanished DEF RowVanished, SettleJob, rowVars, Row, RowOf, JobIds, TypeOK,
     Announcing, Running, WorkerKnows, WorkerOK, RowsOK, IdleWorker, Open, CountersOK
<1>MarkDelivering. ASSUME MarkDelivering PROVE Announcing'
  BY <1>MarkDelivering DEF MarkDelivering, Goto, rowVars, Row, RowOf, JobIds, TypeOK,
     Announcing, Running, WorkerKnows, WorkerOK, RowsOK, IdleWorker, Open, CountersOK
<1>CallDestination. ASSUME CallDestination PROVE Announcing'
  BY <1>CallDestination, CallEffect DEF CallDestination, rowVars, Announcing, Running, Row
<1>SettleFinal. ASSUME SettleFinal PROVE Announcing'
  BY <1>SettleFinal DEF SettleFinal, Goto, rowVars, Row, RowOf, JobIds, TypeOK, Announcing,
     Running, WorkerKnows, WorkerOK, RowsOK, IdleWorker, Open, CountersOK
<1>SettleRetry. ASSUME SettleRetry PROVE Announcing'
  BY <1>SettleRetry DEF SettleRetry, Goto, rowVars, Row, RowOf, JobIds, TypeOK, Announcing,
     Running, WorkerKnows, WorkerOK, RowsOK, IdleWorker, Open, CountersOK
<1>AddRetry. ASSUME AddRetry PROVE Announcing'
  BY <1>AddRetry DEF AddRetry, Goto, AddJob, rowVars, Row, RowOf, JobIds, TypeOK, Announcing,
     Running, WorkerKnows, WorkerOK, RowsOK, IdleWorker, Open, CountersOK
<1>SettleDeadLetter. ASSUME SettleDeadLetter PROVE Announcing'
  BY <1>SettleDeadLetter DEF SettleDeadLetter, Goto, rowVars, Row, RowOf, JobIds, TypeOK,
     Announcing, Running, WorkerKnows, WorkerOK, RowsOK, IdleWorker, Open, CountersOK
<1>EmitDeadLettered. ASSUME EmitDeadLettered PROVE Announcing'
  BY <1>EmitDeadLettered DEF EmitDeadLettered, Goto, rowVars, Row, RowOf, JobIds, TypeOK,
     Announcing, Running, WorkerKnows, WorkerOK, RowsOK, IdleWorker, Open, CountersOK
<1>RaiseRead. ASSUME RaiseRead PROVE Announcing'
  BY <1>RaiseRead DEF RaiseRead, rowVars, Row, RowOf, JobIds, TypeOK, Announcing, Running,
     WorkerKnows, WorkerOK, RowsOK, IdleWorker, Open, CountersOK
<1>RaiseWrite. ASSUME RaiseWrite PROVE Announcing'
  BY <1>RaiseWrite DEF RaiseWrite, Goto, rowVars, Row, RowOf, JobIds, TypeOK, Announcing,
     Running, WorkerKnows, WorkerOK, RowsOK, IdleWorker, Open, CountersOK
<1>FinishJob. ASSUME FinishJob PROVE Announcing'
  BY <1>FinishJob DEF FinishJob, SettleJob, rowVars, Row, RowOf, JobIds, TypeOK, Announcing,
     Running, WorkerKnows, WorkerOK, RowsOK, IdleWorker, Open, CountersOK
<1>ResolveAlert. ASSUME NEW x \in Destinations, ResolveAlert(x) PROVE Announcing'
  BY <1>ResolveAlert DEF ResolveAlert, rowVars, Row, RowOf, JobIds, TypeOK, Announcing,
     Running, WorkerKnows, WorkerOK, RowsOK, IdleWorker, Open, CountersOK
<1>DeleteDestination. ASSUME NEW x \in Destinations, DeleteDestination(x) PROVE Announcing'
  BY <1>DeleteDestination DEF DeleteDestination, rowVars, Row, RowOf, JobIds, TypeOK,
     Announcing, Running, WorkerKnows, WorkerOK, RowsOK, IdleWorker, Open, CountersOK
<1>WorkerCrash. ASSUME WorkerCrash PROVE Announcing'
  BY <1>WorkerCrash DEF WorkerCrash, rowVars, Row, RowOf, JobIds, TypeOK, Announcing, Running,
     WorkerKnows, WorkerOK, RowsOK, IdleWorker, Open, CountersOK
<1>RedisLoss. ASSUME RedisLoss PROVE Announcing'
  BY <1>RedisLoss DEF RedisLoss, Loss, rowVars, Row, RowOf, JobIds, TypeOK, Announcing,
     Running, WorkerKnows, WorkerOK, RowsOK, IdleWorker, Open, CountersOK
<1>CallFails. ASSUME CallFails PROVE Announcing'
  BY <1>CallFails DEF CallFails, SettleJob, Loss, rowVars, Row, RowOf, JobIds, TypeOK,
     Announcing, Running, WorkerKnows, WorkerOK, RowsOK, IdleWorker, Open, CountersOK
<1>QED. QED
  BY <1>1, <1>CreateDelivery, <1>MakerAbandoned, <1>PickUp, <1>ReadDelivery, <1>RowVanished,
     <1>MarkDelivering, <1>CallDestination, <1>SettleFinal, <1>SettleRetry, <1>AddRetry,
     <1>SettleDeadLetter, <1>EmitDeadLettered, <1>RaiseRead, <1>RaiseWrite, <1>FinishJob,
     <1>ResolveAlert, <1>DeleteDestination, <1>WorkerCrash, <1>RedisLoss, <1>CallFails DEF
     Next, MakerNext, ProcessorNext, RouteEvent, Begin, rowVars, Replay, EnqueueDelivery,
     StalledCheck

-----------------------------------------------------------------------------
(* The theorems.                                                           *)

\* The invariant holds before anything is created.
LEMMA InitIInv == Init => IInv
<1> SUFFICES ASSUME Init PROVE IInv
  OBVIOUS
<1>1. RowsOK /\ JobsOK /\ MakersOK /\ CountersOK
  BY DEF Init, RowsOK, JobsOK, MakersOK, CountersOK, Statuses, Open, JobRecords, NoJob,
     IdleMaker
<1>2. worker.pc = "idle"
  BY DEF Init, IdleWorker
<1>3. WorkerOK
  BY <1>2 DEF Init, WorkerOK, WorkerPCs, IdleWorker
<1>4. WorkerKnows /\ HandsOver /\ Announcing /\ OpenIsPursued /\ DeliveredOnlyIfArrived
  BY <1>2 DEF Init, WorkerKnows, HandsOver, Announcing, OpenIsPursued, DeliveredOnlyIfArrived,
     Running, Open
<1>5. Budget /\ AttemptsBounded
  BY <1>2 DEF Init, Budget, AttemptsBounded, Running, Unrecorded
<1>6. FreshIds /\ StallsCounted
  <2>1. \A d \in Deliveries, n \in 0..MaxAttempts : <<d, n>> \in JobIds
    BY DEF JobIds
  <2>2. QED
    BY <1>2, <2>1 DEF Init, FreshIds, StallsCounted, Held, Running, NoJob, IdleMaker
<1>7. QED
  BY <1>1, <1>3, <1>4, <1>5, <1>6 DEF IInv, TypeOK

\* Every step keeps the invariant.
LEMMA StepIInv == IInv /\ [Next]_vars => IInv'
<1> SUFFICES ASSUME IInv, [Next]_vars PROVE IInv'
  OBVIOUS
<1>1. CASE Next
  <2>1. TypeOK'
    BY <1>1, RowsStep, JobsStep, WorkerStep, MakersStep, CountersStep DEF IInv, TypeOK
  <2>2. WorkerKnows' /\ DeliveredOnlyIfArrived' /\ Announcing'
    BY <1>1, KnowsStep, ArrivedStep, AnnouncingStep DEF IInv
  <2>3. Budget' /\ AttemptsBounded'
    BY <1>1, BudgetStep, AttemptsStep DEF IInv
  <2>4. FreshIds' /\ StallsCounted' /\ HandsOver' /\ OpenIsPursued'
    BY <1>1, FreshStep, StallsStep, HandsOverStep, PursuedStep DEF IInv
  <2>5. QED
    BY <2>1, <2>2, <2>3, <2>4 DEF IInv
<1>2. CASE UNCHANGED vars
  <2>1. TypeOK'
    BY <1>2 DEF vars, IInv, TypeOK, RowsOK, JobsOK, WorkerOK, MakersOK, CountersOK, Row
  <2>2. WorkerKnows' /\ DeliveredOnlyIfArrived' /\ Announcing'
    BY <1>2 DEF vars, IInv, WorkerKnows, DeliveredOnlyIfArrived, Announcing, Running, Row
  <2>3. Budget' /\ AttemptsBounded'
    BY <1>2 DEF vars, IInv, Budget, AttemptsBounded, Unrecorded, Running, Row
  <2>4. FreshIds'
    BY <1>2 DEF vars, IInv, FreshIds, Running, Row
  <2>5. StallsCounted' /\ HandsOver' /\ OpenIsPursued'
    BY <1>2 DEF vars, IInv, StallsCounted, Held, HandsOver, OpenIsPursued, Pursued, Running, Row
  <2>6. QED
    BY <2>1, <2>2, <2>3, <2>4, <2>5 DEF IInv
<1>3. QED
  BY <1>1, <1>2

\* Every reachable state of the delivery pipeline satisfies the inductive
\* invariant: what the processor knows of its row, the attempts it has recorded,
\* the jobs that pursue the row and what has been told of dead letters.
THEOREM Invariance == Spec => []IInv
BY InitIInv, StepIInv, PTL DEF Spec

\* The rows, the jobs, the running processor and the running makers keep their
\* types, and an open row has attempts left: handleTemporaryFailure never counts
\* past max_attempts.
THEOREM TypeCorrect == Spec => []TypeOK
BY Invariance, PTL DEF IInv

\* However the worker dies, jobs stall or calls fail, executeDelivery runs at most
\* max_attempts times for a delivery, plus once per failure.
THEOREM AttemptsAreBounded == Spec => []AttemptsBounded
BY Invariance, PTL DEF IInv

\* Nothing scans webhook_deliveries, and nothing has to: up to maxStalledCount
\* deaths of the worker never break the chain of jobs of an open delivery.
THEOREM OpenRowsArePursued == Spec => []OpenIsPursued
BY Invariance, PTL DEF IInv

\* A row marked delivered has reached its destination, and without failures a
\* dead-lettered row has its event and its alert.
THEOREM SettledRowsTellTheTruth == Spec => []SettledTruthfully
<1>1. IInv => SettledTruthfully
  BY DEF IInv, SettledTruthfully, DeadLetterAnnounced, Announcing, Running, TypeOK, WorkerOK
<1>2. QED
  BY <1>1, Invariance, PTL

\* A step of anybody leaves a settled row as it is or deletes it with its
\* destination: the processor writes only the row it read as open, which nobody
\* else settles (process, line 64).
LEMMA StepKeepsTerminal ==
  ASSUME TypeOK, WorkerKnows, Next, NEW d \in Deliveries, row[d] \in Terminal
  PROVE  row'[d] \in {row[d], "deleted"}
<1>1. ASSUME NEW c \in Makers, CreateDelivery(c) PROVE row'[d] = row[d]
  BY <1>1 DEF CreateDelivery, Terminal, TypeOK, RowsOK
<1>2. ASSUME MarkDelivering \/ SettleFinal \/ SettleRetry \/ SettleDeadLetter
      PROVE  row'[d] = row[d]
  <2>1. Row # d
    BY <1>2 DEF MarkDelivering, SettleFinal, SettleRetry, SettleDeadLetter, Goto,
       WorkerKnows, Running, Open, Terminal
  <2>2. QED
    BY <1>2, <2>1 DEF MarkDelivering, SettleFinal, SettleRetry, SettleDeadLetter, TypeOK, RowsOK
<1>3. ASSUME NEW x \in Destinations, DeleteDestination(x) PROVE row'[d] \in {row[d], "deleted"}
  BY <1>3 DEF DeleteDestination
<1>4. CASE UNCHANGED row
  BY <1>4
<1>5. QED
  BY <1>1, <1>2, <1>3, <1>4 DEF Next, MakerNext, ProcessorNext, RouteEvent, Replay, Begin,
     EnqueueDelivery,
     MakerAbandoned, PickUp, StalledCheck, ReadDelivery, RowVanished, CallDestination, AddRetry, EmitDeadLettered,
     RaiseRead, RaiseWrite, FinishJob, ResolveAlert, WorkerCrash, RedisLoss, CallFails, rowVars

\* TerminalStays for every number of deliveries, jobs and failures.
THEOREM SettledRowsStay == Spec => TerminalStays
<1>1. IInv /\ [Next]_vars =>
        [\A d \in Deliveries : row[d] \in Terminal => row'[d] \in {row[d], "deleted"}]_vars
  BY StepKeepsTerminal DEF IInv
<1>2. QED
  BY <1>1, Invariance, PTL DEF Spec, TerminalStays
=============================================================================
