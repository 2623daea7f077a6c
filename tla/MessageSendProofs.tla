-------------------------- MODULE MessageSendProofs --------------------------
(***************************************************************************)
(* What TLAPS proves of MessageSend for every set of messages, requests    *)
(* and reporters, every bound and every kind of failure.                   *)
(***************************************************************************)
EXTENDS MessageSend, FiniteSetTheorems, TLAPS

USE BoundsAssumption, NoneAssumption

LEMMA MsgOfType == ASSUME NEW j \in JobIds PROVE MsgOf(j) \in Messages
BY DEF JobIds, MsgOf

LEMMA JobIdType ==
  ASSUME NEW m \in Messages, NEW k \in 0..MaxRetries PROVE <<m, k>> \in JobIds /\ MsgOf(<<m, k>>) = m
BY DEF JobIds, MsgOf

\* Replacing the last element of a sequence keeps its type.
LEMMA ExceptLast ==
  ASSUME NEW A, NEW s \in Seq(A), NEW e, s # <<>> => e \in A
  PROVE  [s EXCEPT ![Len(s)] = e] \in Seq(A)
<1> DEFINE t == [s EXCEPT ![Len(s)] = e]
<1>1. Len(s) \in Nat /\ s \in [1..Len(s) -> A]
  OBVIOUS
<1>2. ASSUME NEW i \in 1..Len(s) PROVE t[i] \in A
  <2>1. s # <<>>
    BY <1>1
  <2>2. QED
    BY <1>1, <2>1 DEF JobRecords
<1>3. t \in [1..Len(s) -> A]
  BY <1>1, <1>2
<1>4. QED
  BY <1>1, <1>3

LEMMA AppendType ==
  ASSUME NEW A, NEW s \in Seq(A), NEW e \in A PROVE Append(s, e) \in Seq(A)
OBVIOUS

LEMMA LastElement ==
  ASSUME NEW A, NEW s \in Seq(A), s # <<>> PROVE s[Len(s)] \in A
OBVIOUS

\* Setting the result of the newest attempt keeps the attempts well typed.
LEMMA SetResultType ==
  ASSUME NEW s \in Seq([no : 1..MaxAttempts, result : Results]), NEW res \in Results
  PROVE  [s EXCEPT ![Len(s)].result = res] \in Seq([no : 1..MaxAttempts, result : Results])
<1> DEFINE e == [s[Len(s)] EXCEPT !.result = res]
<1>1. s # <<>> => e \in [no : 1..MaxAttempts, result : Results]
  <2>1. s # <<>> => s[Len(s)] \in [no : 1..MaxAttempts, result : Results]
    BY LastElement
  <2>2. QED
    BY <2>1
<1>2. [s EXCEPT ![Len(s)] = e] \in Seq([no : 1..MaxAttempts, result : Results])
  <2> HIDE DEF e
  <2>1. QED
    BY <1>1, ExceptLast
<1>3. QED
  BY <1>2
\* Settling a job counts one more attempt; it only waits again with attempts left.
LEMMA SettledType ==
  ASSUME NEW job \in JobRecords,
         job.made < MaxAttempts, job.stalls <= MaxStalled
  PROVE  /\ Settled(job) \in JobRecords
         /\ Settled(job).state \in {"wait", "active"} =>
              Settled(job).made < MaxAttempts /\ Settled(job).stalls <= MaxStalled
<1> DEFINE st == IF worker.outcome # "error" THEN "completed"
                 ELSE IF job.made + 1 < MaxAttempts THEN "wait" ELSE "failed"
<1>1. st \in {"completed", "wait", "failed"} /\ (st = "wait" => job.made + 1 < MaxAttempts)
  OBVIOUS
<1>2. Settled(job) = [job EXCEPT !.made = @ + 1, !.state = st]
  BY DEF Settled
<1>3. QED
  <2> HIDE DEF st
  <2>1. /\ Settled(job).made = job.made + 1 /\ Settled(job).stalls = job.stalls
        /\ Settled(job).calls = job.calls /\ Settled(job).state = st
        /\ Settled(job) = [state |-> st, made |-> job.made + 1, stalls |-> job.stalls,
                           calls |-> job.calls]
    BY <1>2 DEF JobRecords
  <2>2. QED
    BY <1>1, <2>1 DEF JobRecords

LEMMA HistoryType ==
  ASSUME NEW h \in [Messages -> SUBSET Statuses], NEW m \in Messages, NEW s \in Statuses
  PROVE  [h EXCEPT ![m] = @ \cup {s}] \in [Messages -> SUBSET Statuses]
OBVIOUS

LEMMA EventType ==
  ASSUME NEW m \in Messages,
         NEW type \in {"message.queued", "message.sent", "message.failed"}
  PROVE  <<type, m>> \in EventIds
BY DEF EventIds

LEMMA WorkerMsgType == WorkerOK /\ worker.pc # "idle" => Msg \in Messages
BY MsgOfType DEF WorkerOK, Msg

\* Every step keeps RowsOK.
LEMMA RowsStep == TypeOK /\ [Next]_vars => RowsOK'
<1> SUFFICES ASSUME TypeOK, [Next]_vars PROVE RowsOK'
  OBVIOUS
<1> USE MsgOfType, JobIdType DEF TypeOK
<1>1. CASE UNCHANGED rowVars
  BY <1>1 DEF RowsOK, rowVars
<1>2. ASSUME NEW r \in Requests, NEW m \in Messages, NEW later \in BOOLEAN, Send(r, m, later)
      PROVE  RowsOK'
  <2>1. PICK s \in {"scheduled", "queued"} : SetStatus(m, s) /\ AddHistory(m, s)
    BY <1>2 DEF Send
  <2>2. status' \in [Messages -> Statuses]
    BY <2>1 DEF RowsOK, SetStatus, Statuses
  <2>3. hist' \in [Messages -> SUBSET Statuses]
    BY <2>1, HistoryType DEF RowsOK, AddHistory, Statuses
  <2>4. events' \in SUBSET EventIds
    BY ZenonT(60), <1>2, EventType DEF RowsOK, Send
  <2>5. QED
    BY <1>2, <2>2, <2>3, <2>4 DEF RowsOK, Send
<1>3. ASSUME NEW r \in Requests, RetryTx(r)
      PROVE  RowsOK'
  BY <1>3 DEF RowsOK, WorkerOK, HandlersOK, Statuses, Reported, RetryTx, SetStatus,
     AddHistory
<1>4. ASSUME NEW r \in Requests, CancelTx(r)
      PROVE  RowsOK'
  BY <1>4 DEF RowsOK, WorkerOK, HandlersOK, Statuses, Reported, CancelTx, SetStatus,
     AddHistory
<1>5. CASE MarkDispatching
  BY <1>5 DEF RowsOK, WorkerOK, HandlersOK, Statuses, Reported, MarkDispatching, Step,
     SetStatus, Msg
<1>6. CASE WriteHistory
  <2>1. Msg \in Messages
    BY <1>6, WorkerMsgType DEF WriteHistory, Step
  <2>2. PICK s \in {"dispatching", "sent", "failed"} : AddHistory(Msg, s)
    BY <1>6 DEF WriteHistory
  <2>3. hist' \in [Messages -> SUBSET Statuses]
    BY <2>1, <2>2, HistoryType DEF RowsOK, AddHistory, Statuses
  <2>4. QED
    BY <1>6, <2>3 DEF RowsOK, WriteHistory
<1>7. CASE CreateAttempt
  <2>1. Msg \in Messages
    BY <1>7, WorkerMsgType DEF CreateAttempt, Step
  <2>2. [no |-> worker.no, result |-> "pending"] \in [no : 1..MaxAttempts, result : Results]
    BY <1>7 DEF CreateAttempt, Step, WorkerOK, Results
  <2>3. attempts' \in [Messages -> Seq([no : 1..MaxAttempts, result : Results])]
    BY <1>7, <2>1, <2>2, AppendType DEF RowsOK, CreateAttempt
  <2>4. QED
    BY <1>7, <2>3 DEF RowsOK, CreateAttempt
<1>8. CASE MarkSent
  BY <1>8 DEF RowsOK, WorkerOK, HandlersOK, Statuses, Reported, MarkSent, Step,
     SetStatus, Msg
<1>9. CASE AttemptSent
  BY <1>9, SetResultType DEF RowsOK, WorkerOK, HandlersOK, Statuses, Reported,
     AttemptSent, Step, SetResult, Msg, Results
<1>10. CASE AttemptResult
  <2>1. Msg \in Messages
    BY <1>10, WorkerMsgType DEF AttemptResult, Step
  <2>2. PICK res \in Results : SetResult(res)
    BY <1>10 DEF AttemptResult, Results
  <2>3. attempts' \in [Messages -> Seq([no : 1..MaxAttempts, result : Results])]
    BY <2>1, <2>2, SetResultType DEF RowsOK, SetResult
  <2>4. QED
    BY <1>10, <2>3 DEF RowsOK, AttemptResult
<1>11. CASE MarkFailed
  BY <1>11 DEF RowsOK, WorkerOK, HandlersOK, Statuses, Reported, MarkFailed, Step,
     SetStatus, Msg
<1>12. CASE RaiseAlert
  <2>1. Msg \in Messages
    BY <1>12, WorkerMsgType DEF RaiseAlert, Step
  <2>2. QED
    BY <1>12, <2>1 DEF RowsOK, RaiseAlert
<1>13. CASE EmitEvent
  <2>1. Msg \in Messages
    BY <1>13, WorkerMsgType DEF EmitEvent, Step
  <2>2. PICK type \in {"message.sent", "message.failed"} : events' = events \cup {<<type, Msg>>}
    BY <1>13 DEF EmitEvent
  <2>3. events' \in SUBSET EventIds
    <3>1. <<type, Msg>> \in EventIds
      BY <2>1, EventType
    <3>2. QED
      BY <2>2, <3>1 DEF RowsOK
  <2>4. QED
    BY <1>13, <2>3 DEF RowsOK, EmitEvent
<1>14. ASSUME NEW m \in Messages, ClaimDue(m)
      PROVE  RowsOK'
  BY <1>14 DEF RowsOK, WorkerOK, HandlersOK, Statuses, Reported, ClaimDue, SetStatus
<1>15. ASSUME NEW m \in Messages, ClaimHistory(m)
      PROVE  RowsOK'
  BY <1>15 DEF RowsOK, WorkerOK, HandlersOK, Statuses, Reported, ClaimHistory,
     AddHistory
<1>16. ASSUME NEW p \in Reporters, ReportUpdate(p)
      PROVE  RowsOK'
  BY <1>16 DEF RowsOK, WorkerOK, HandlersOK, Statuses, Reported, ReportUpdate, SetStatus
<1>17. ASSUME NEW p \in Reporters, ReportHistory(p)
      PROVE  RowsOK'
  BY <1>17 DEF RowsOK, WorkerOK, HandlersOK, Statuses, Reported, ReportHistory,
     AddHistory, IdleReporter
<1>18. QED
  BY <1>1, <1>2, <1>3, <1>4, <1>5, <1>6, <1>7, <1>8, <1>9, <1>10, <1>11, <1>12, <1>13,
     <1>14, <1>15, <1>16, <1>17
     DEF Next, ApiNext, ProcessorNext, SchedulerNext, ReportNext, FaultNext, vars,
         rowVars, tickVars, RetryRead, CancelRead, EnqueueSend, CancelRemove, PickUp,
         StalledCheck, CallAdapter, FinishJob, ReadDue, ClaimEnqueue, ReadStuck,
         Reconcile, ReportRead, RequestAbandoned, ClaimAbandoned, WorkerCrash,
         RedisLoss, DbError, AnswerLost

\* Every step keeps JobsOK.
LEMMA JobsStep == TypeOK /\ [Next]_vars => JobsOK'
<1> SUFFICES ASSUME TypeOK, [Next]_vars PROVE JobsOK'
  OBVIOUS
<1> USE MsgOfType, JobIdType DEF TypeOK
<1>1. CASE UNCHANGED jobs
  BY <1>1 DEF JobsOK
<1>2. ASSUME NEW r \in Requests, EnqueueSend(r)
      PROVE  JobsOK'
  BY <1>2 DEF JobsOK, JobRecords, HandlersOK, EnqueueSend, AddJob, IdleRequest, NewJob,
     NoJob
<1>3. ASSUME NEW r \in Requests, CancelRemove(r)
      PROVE  JobsOK'
  <2>1. UNCHANGED jobs \/ jobs' = [jobs EXCEPT ![<<api[r].msg, 0>>] = NoJob]
    BY <1>3 DEF CancelRemove, RemoveJob
  <2>2. NoJob \in JobRecords /\ NoJob.state = "absent"
    BY DEF NoJob, JobRecords
  <2>3. QED
    BY <2>1, <2>2 DEF JobsOK
<1>4. ASSUME NEW j \in JobIds, PickUp(j)
      PROVE  JobsOK'
  BY <1>4 DEF JobsOK, JobRecords, PickUp
<1>5. ASSUME NEW j \in JobIds, StalledCheck(j)
      PROVE  JobsOK'
  BY <1>5 DEF JobsOK, JobRecords, StalledCheck, Held
<1>6. CASE CallAdapter
  BY <1>6 DEF JobsOK, JobRecords, WorkerOK, CallAdapter, CountCall, Msg
<1>7. CASE FinishJob
  <2>1. worker.job \in JobIds
    BY <1>7 DEF FinishJob, WorkerOK
  <2>2. CASE jobs[worker.job].state = "active"
    <3> DEFINE s == Settled(jobs[worker.job])
    <3>1. jobs' = [jobs EXCEPT ![worker.job] = s]
      BY <1>7, <2>2 DEF FinishJob
    <3>2. /\ s \in JobRecords
          /\ s.state \in {"wait", "active"} => s.made < MaxAttempts /\ s.stalls <= MaxStalled
      BY <2>1, <2>2, SettledType DEF JobsOK
    <3>3. QED
      <4> HIDE DEF s
      <4>1. QED
        BY <2>1, <3>1, <3>2 DEF JobsOK
  <2>3. QED
    BY <1>7, <2>2 DEF FinishJob, JobsOK
<1>8. ASSUME NEW m \in Messages, ClaimEnqueue(m)
      PROVE  JobsOK'
  BY <1>8 DEF JobsOK, JobRecords, ClaimEnqueue, AddJob, NewJob, NoJob
<1>9. ASSUME NEW m \in Messages, Reconcile(m)
      PROVE  JobsOK'
  BY <1>9 DEF JobsOK, JobRecords, Reconcile, AddJob, NewJob, NoJob
<1>10. CASE RedisLoss
  BY <1>10 DEF JobsOK, JobRecords, RedisLoss, Fault, NoJob
<1>11. CASE AnswerLost
  BY <1>11 DEF JobsOK, JobRecords, WorkerOK, AnswerLost, Fault, CountCall, Msg
<1>12. QED
  BY <1>1, <1>2, <1>3, <1>4, <1>5, <1>6, <1>7, <1>8, <1>9, <1>10, <1>11
     DEF Next, ApiNext, ProcessorNext, SchedulerNext, ReportNext, FaultNext, vars,
         rowVars, tickVars, Send, RetryRead, CancelRead, RetryTx, CancelTx,
         MarkDispatching, WriteHistory, CreateAttempt, MarkSent, AttemptSent,
         AttemptResult, MarkFailed, RaiseAlert, EmitEvent, ReadDue, ClaimDue,
         ClaimHistory, ReadStuck, ReportRead, ReportUpdate, ReportHistory,
         RequestAbandoned, ClaimAbandoned, WorkerCrash, DbError

\* Every step keeps WorkerOK.
LEMMA WorkerStep == TypeOK /\ [Next]_vars => WorkerOK'
<1> SUFFICES ASSUME TypeOK, [Next]_vars PROVE WorkerOK'
  OBVIOUS
<1> USE MsgOfType, JobIdType DEF TypeOK
<1>1. CASE UNCHANGED worker
  BY <1>1 DEF WorkerOK
<1>2. ASSUME NEW j \in JobIds, PickUp(j)
      PROVE  WorkerOK'
  BY <1>2 DEF WorkerOK, JobsOK, JobRecords, BeforeCall, AfterCall, PickUp
<1>3. CASE MarkDispatching
  BY <1>3 DEF WorkerOK, BeforeCall, AfterCall, MarkDispatching, Step, SetStatus,
     Msg
<1>4. CASE WriteHistory
  BY <1>4 DEF WorkerOK, BeforeCall, AfterCall, WriteHistory, Step, AddHistory,
     Msg
<1>5. CASE CreateAttempt
  BY <1>5 DEF WorkerOK, BeforeCall, AfterCall, CreateAttempt, Step, Msg, Results
<1>6. CASE CallAdapter
  BY <1>6 DEF WorkerOK, BeforeCall, AfterCall, CallAdapter, CountCall, Msg
<1>7. CASE MarkSent
  BY <1>7 DEF WorkerOK, BeforeCall, AfterCall, MarkSent, Step, SetStatus, Msg
<1>8. CASE AttemptSent
  BY <1>8 DEF WorkerOK, BeforeCall, AfterCall, AttemptSent, Step, SetResult,
     Msg, Results
<1>9. CASE AttemptResult
  BY <1>9 DEF WorkerOK, BeforeCall, AfterCall, AttemptResult, Step, SetResult,
     Msg, Results
<1>10. CASE MarkFailed
  BY <1>10 DEF WorkerOK, BeforeCall, AfterCall, MarkFailed, Step, SetStatus, Msg
<1>11. CASE RaiseAlert
  BY <1>11 DEF WorkerOK, BeforeCall, AfterCall, RaiseAlert, Step, Msg
<1>12. CASE EmitEvent
  BY <1>12 DEF WorkerOK, BeforeCall, AfterCall, EmitEvent, Step, Msg, EventIds
<1>13. CASE FinishJob
  BY <1>13 DEF WorkerOK, BeforeCall, AfterCall, FinishJob, Settled, IdleWorker
<1>14. CASE WorkerCrash
  BY <1>14 DEF WorkerOK, BeforeCall, AfterCall, WorkerCrash, Fault, IdleWorker,
     IdleReporter
<1>15. CASE DbError
  BY <1>15 DEF WorkerOK, BeforeCall, AfterCall, DbError, Fault, AfterDbError
<1>16. CASE AnswerLost
  BY <1>16 DEF WorkerOK, BeforeCall, AfterCall, AnswerLost, Fault, CountCall,
     Msg
<1>17. QED
  BY ZenonT(60), <1>1, <1>2, <1>3, <1>4, <1>5, <1>6, <1>7, <1>8, <1>9, <1>10, <1>11, <1>12, <1>13,
     <1>14, <1>15, <1>16
     DEF Next, ApiNext, ProcessorNext, SchedulerNext, ReportNext, FaultNext, vars,
         rowVars, tickVars, Send, RetryRead, CancelRead, EnqueueSend, RetryTx, CancelTx,
         CancelRemove, StalledCheck, ReadDue, ClaimDue, ClaimHistory, ClaimEnqueue,
         ReadStuck, Reconcile, ReportRead, ReportUpdate, ReportHistory,
         RequestAbandoned, ClaimAbandoned, RedisLoss

\* Every step keeps HandlersOK.
LEMMA HandlersStep == TypeOK /\ [Next]_vars => HandlersOK'
<1> SUFFICES ASSUME TypeOK, [Next]_vars PROVE HandlersOK'
  OBVIOUS
<1> USE MsgOfType, JobIdType DEF TypeOK
<1>1. CASE UNCHANGED <<api, report>>
  BY <1>1 DEF HandlersOK
<1>2. ASSUME NEW r \in Requests, NEW m \in Messages, NEW later \in BOOLEAN, Send(r, m, later)
      PROVE  HandlersOK'
  BY <1>2 DEF HandlersOK, CountersOK, RequestPCs, Reported, Send, SetStatus, AddHistory,
     IdleRequest, EventIds
<1>3. ASSUME NEW r \in Requests, NEW m \in Messages, RetryRead(r, m)
      PROVE  HandlersOK'
  BY <1>3 DEF HandlersOK, CountersOK, RequestPCs, Reported, RetryRead
<1>4. ASSUME NEW r \in Requests, NEW m \in Messages, CancelRead(r, m)
      PROVE  HandlersOK'
  BY <1>4 DEF HandlersOK, CountersOK, RequestPCs, Reported, CancelRead
<1>5. ASSUME NEW r \in Requests, EnqueueSend(r)
      PROVE  HandlersOK'
  BY <1>5 DEF HandlersOK, CountersOK, RequestPCs, Reported, EnqueueSend, AddJob,
     IdleRequest, NewJob, NoJob
<1>6. ASSUME NEW r \in Requests, RetryTx(r)
      PROVE  HandlersOK'
  BY <1>6 DEF HandlersOK, CountersOK, RequestPCs, Reported, RetryTx, SetStatus,
     AddHistory
<1>7. ASSUME NEW r \in Requests, CancelTx(r)
      PROVE  HandlersOK'
  BY <1>7 DEF HandlersOK, CountersOK, RequestPCs, Reported, CancelTx, SetStatus,
     AddHistory
<1>8. ASSUME NEW r \in Requests, CancelRemove(r)
      PROVE  HandlersOK'
  BY <1>8 DEF HandlersOK, CountersOK, RequestPCs, Reported, CancelRemove, RemoveJob,
     Held, IdleRequest, NoJob
<1>9. ASSUME NEW p \in Reporters, NEW m \in Messages, NEW next \in Reported, ReportRead(p, m, next)
      PROVE  HandlersOK'
  BY <1>9 DEF HandlersOK, CountersOK, RequestPCs, Reported, ReportRead
<1>10. ASSUME NEW p \in Reporters, ReportUpdate(p)
      PROVE  HandlersOK'
  BY <1>10 DEF HandlersOK, CountersOK, RequestPCs, Reported, ReportUpdate, SetStatus
<1>11. ASSUME NEW p \in Reporters, ReportHistory(p)
      PROVE  HandlersOK'
  BY <1>11 DEF HandlersOK, CountersOK, RequestPCs, Reported, ReportHistory, AddHistory,
     IdleReporter
<1>12. ASSUME NEW r \in Requests, RequestAbandoned(r)
      PROVE  HandlersOK'
  BY <1>12 DEF HandlersOK, CountersOK, RequestPCs, Reported, RequestAbandoned, Fault,
     IdleRequest
<1>13. CASE WorkerCrash
  BY <1>13 DEF HandlersOK, CountersOK, RequestPCs, Reported, WorkerCrash, Fault,
     IdleWorker, IdleReporter
<1>14. QED
  BY <1>1, <1>2, <1>3, <1>4, <1>5, <1>6, <1>7, <1>8, <1>9, <1>10, <1>11, <1>12, <1>13
     DEF Next, ApiNext, ProcessorNext, SchedulerNext, ReportNext, FaultNext, vars,
         rowVars, tickVars, PickUp, StalledCheck, MarkDispatching, WriteHistory,
         CreateAttempt, CallAdapter, MarkSent, AttemptSent, AttemptResult, MarkFailed,
         RaiseAlert, EmitEvent, FinishJob, ReadDue, ClaimDue, ClaimHistory,
         ClaimEnqueue, ReadStuck, Reconcile, ClaimAbandoned, RedisLoss, DbError,
         AnswerLost

\* Every step keeps TicksOK.
LEMMA TicksStep == TypeOK /\ [Next]_vars => TicksOK'
<1> SUFFICES ASSUME TypeOK, [Next]_vars PROVE TicksOK'
  OBVIOUS
<1> USE MsgOfType, JobIdType DEF TypeOK
<1>1. CASE UNCHANGED tickVars
  BY <1>1 DEF TicksOK, tickVars
<1>2. ASSUME NEW m \in Messages, ReadDue(m)
      PROVE  TicksOK'
  BY <1>2 DEF TicksOK, ReadDue
<1>3. ASSUME NEW m \in Messages, ClaimDue(m)
      PROVE  TicksOK'
  BY <1>3 DEF TicksOK, ClaimDue, SetStatus
<1>4. ASSUME NEW m \in Messages, ClaimHistory(m)
      PROVE  TicksOK'
  BY <1>4 DEF TicksOK, ClaimHistory, AddHistory
<1>5. ASSUME NEW m \in Messages, ClaimEnqueue(m)
      PROVE  TicksOK'
  BY <1>5 DEF TicksOK, ClaimEnqueue, AddJob, NewJob, NoJob
<1>6. ASSUME NEW m \in Messages, ReadStuck(m)
      PROVE  TicksOK'
  BY <1>6 DEF TicksOK, ReadStuck
<1>7. ASSUME NEW m \in Messages, Reconcile(m)
      PROVE  TicksOK'
  BY <1>7 DEF TicksOK, Reconcile, AddJob, NewJob, NoJob
<1>8. ASSUME NEW m \in Messages, ClaimAbandoned(m)
      PROVE  TicksOK'
  BY <1>8 DEF TicksOK, ClaimAbandoned, Fault
<1>9. CASE WorkerCrash
  BY <1>9 DEF TicksOK, WorkerCrash, Fault, IdleWorker, IdleReporter
<1>10. QED
  BY ZenonT(60), <1>1, <1>2, <1>3, <1>4, <1>5, <1>6, <1>7, <1>8, <1>9
     DEF Next, ApiNext, ProcessorNext, SchedulerNext, ReportNext, FaultNext, vars,
         rowVars, tickVars, Send, RetryRead, CancelRead, EnqueueSend, RetryTx, CancelTx,
         CancelRemove, PickUp, StalledCheck, MarkDispatching, WriteHistory,
         CreateAttempt, CallAdapter, MarkSent, AttemptSent, AttemptResult, MarkFailed,
         RaiseAlert, EmitEvent, FinishJob, ReportRead, ReportUpdate, ReportHistory,
         RequestAbandoned, RedisLoss, DbError, AnswerLost

\* Every step keeps CountersOK.
LEMMA CountersStep == TypeOK /\ [Next]_vars => CountersOK'
<1> SUFFICES ASSUME TypeOK, [Next]_vars PROVE CountersOK'
  OBVIOUS
<1> USE MsgOfType, JobIdType DEF TypeOK
<1>1. CASE UNCHANGED <<accepted, used>>
  BY <1>1 DEF CountersOK
<1>2. ASSUME NEW r \in Requests, NEW m \in Messages, RetryRead(r, m)
      PROVE  CountersOK'
  BY <1>2 DEF CountersOK, WorkerOK, RetryRead
<1>3. ASSUME NEW r \in Requests, NEW m \in Messages, CancelRead(r, m)
      PROVE  CountersOK'
  BY <1>3 DEF CountersOK, WorkerOK, CancelRead
<1>4. ASSUME NEW p \in Reporters, NEW m \in Messages, NEW next \in Reported, ReportRead(p, m, next)
      PROVE  CountersOK'
  BY <1>4 DEF CountersOK, WorkerOK, ReportRead
<1>5. CASE CallAdapter
  BY <1>5 DEF CountersOK, WorkerOK, CallAdapter, CountCall, Msg
<1>6. ASSUME NEW r \in Requests, RequestAbandoned(r)
      PROVE  CountersOK'
  BY <1>6 DEF CountersOK, WorkerOK, RequestAbandoned, Fault, IdleRequest
<1>7. ASSUME NEW m \in Messages, ClaimAbandoned(m)
      PROVE  CountersOK'
  BY <1>7 DEF CountersOK, WorkerOK, ClaimAbandoned, Fault
<1>8. CASE WorkerCrash
  BY <1>8 DEF CountersOK, WorkerOK, WorkerCrash, Fault, IdleWorker, IdleReporter
<1>9. CASE RedisLoss
  BY <1>9 DEF CountersOK, WorkerOK, RedisLoss, Fault, NoJob
<1>10. CASE DbError
  BY <1>10 DEF CountersOK, WorkerOK, DbError, Fault, AfterDbError
<1>11. CASE AnswerLost
  BY <1>11 DEF CountersOK, WorkerOK, AnswerLost, Fault, CountCall, Msg
<1>12. QED
  BY <1>1, <1>2, <1>3, <1>4, <1>5, <1>6, <1>7, <1>8, <1>9, <1>10, <1>11
     DEF Next, ApiNext, ProcessorNext, SchedulerNext, ReportNext, FaultNext, vars,
         rowVars, tickVars, Send, EnqueueSend, RetryTx, CancelTx, CancelRemove, PickUp,
         StalledCheck, MarkDispatching, WriteHistory, CreateAttempt, MarkSent,
         AttemptSent, AttemptResult, MarkFailed, RaiseAlert, EmitEvent, FinishJob,
         ReadDue, ClaimDue, ClaimHistory, ClaimEnqueue, ReadStuck, Reconcile,
         ReportUpdate, ReportHistory

LEMMA TypeInit == Init => TypeOK
BY DEF Init, TypeOK, RowsOK, JobsOK, JobRecords, WorkerOK, HandlersOK, TicksOK, CountersOK, NoJob,
       IdleWorker, IdleRequest, IdleReporter, Statuses, RequestPCs

LEMMA TypeStep == TypeOK /\ [Next]_vars => TypeOK'
BY RowsStep, JobsStep, WorkerStep, HandlersStep, TicksStep, CountersStep DEF TypeOK

\* In every reachable state of the pipeline, for any number of messages, handlers
\* and failures, all rows, jobs and handlers are well formed; in particular an
\* attempt number never exceeds MAX_SEND_ATTEMPTS and a job that BullMQ may still
\* run has attempts left.
THEOREM TypeCorrect == Spec => []TypeOK
BY TypeInit, TypeStep, PTL DEF Spec
-----------------------------------------------------------------------------
(* Sent only if accepted.                                                    *)

\* SentOnlyIfAccepted, and: the worker is only on the "sent" branch, and a report
\* handler only has a message, when the provider has accepted a copy.
AcceptInv ==
  /\ SentOnlyIfAccepted
  /\ worker.pc \in {"sentStatus", "sentHistory", "sentAttempt", "sentEvent"} => accepted[Msg] > 0
  /\ \A p \in Reporters : report[p].pc # "idle" => accepted[report[p].msg] > 0

\* Every step keeps AcceptInv.
LEMMA AcceptStep == TypeOK /\ AcceptInv /\ [Next]_vars => AcceptInv'
<1> SUFFICES ASSUME TypeOK, AcceptInv, [Next]_vars PROVE AcceptInv'
  OBVIOUS
<1> USE MsgOfType, WorkerMsgType
<1>1. CASE UNCHANGED <<status, ext, events, worker, report, accepted>>
  BY <1>1 DEF AcceptInv, SentOnlyIfAccepted, Msg
<1>2. ASSUME NEW r \in Requests, NEW m \in Messages, NEW later \in BOOLEAN, Send(r, m, later)
      PROVE  AcceptInv'
  BY <1>2 DEF AcceptInv, SentOnlyIfAccepted, TypeOK, RowsOK, CountersOK, WorkerOK,
     HandlersOK, Msg, rowVars, Send, SetStatus, AddHistory
<1>3. ASSUME NEW r \in Requests, RetryTx(r)
      PROVE  AcceptInv'
  BY <1>3 DEF AcceptInv, SentOnlyIfAccepted, TypeOK, RowsOK, CountersOK, WorkerOK,
     HandlersOK, Msg, rowVars, RetryTx, SetStatus, AddHistory
<1>4. ASSUME NEW r \in Requests, CancelTx(r)
      PROVE  AcceptInv'
  BY <1>4 DEF AcceptInv, SentOnlyIfAccepted, TypeOK, RowsOK, CountersOK, WorkerOK,
     HandlersOK, Msg, rowVars, CancelTx, SetStatus, AddHistory
<1>5. ASSUME NEW j \in JobIds, PickUp(j)
      PROVE  AcceptInv'
  BY <1>5 DEF AcceptInv, SentOnlyIfAccepted, TypeOK, RowsOK, CountersOK, WorkerOK,
     HandlersOK, Msg, rowVars, PickUp
<1>6. CASE MarkDispatching
  BY <1>6 DEF AcceptInv, SentOnlyIfAccepted, TypeOK, RowsOK, CountersOK, WorkerOK,
     HandlersOK, Msg, rowVars, MarkDispatching, Step, SetStatus
<1>7. CASE WriteHistory
  <2>1. /\ worker'.job = worker.job
        /\ worker'.pc \in {"sentStatus", "sentHistory", "sentAttempt", "sentEvent"} =>
             worker.pc \in {"sentStatus", "sentHistory", "sentAttempt", "sentEvent"}
    BY <1>7 DEF WriteHistory, Step, TypeOK, WorkerOK
  <2>2. UNCHANGED <<status, ext, events, report, accepted>>
    BY <1>7 DEF WriteHistory
  <2>3. QED
    BY <2>1, <2>2 DEF AcceptInv, SentOnlyIfAccepted, Msg
<1>8. CASE CreateAttempt
  BY <1>8 DEF AcceptInv, SentOnlyIfAccepted, TypeOK, RowsOK, CountersOK, WorkerOK,
     HandlersOK, Msg, rowVars, CreateAttempt, Step
<1>9. CASE CallAdapter
  <2>1. Msg \in Messages /\ Msg' = Msg
    BY <1>9 DEF CallAdapter, Msg, TypeOK, WorkerOK
  <2>2. \A m \in Messages : accepted'[m] >= accepted[m]
    BY <1>9, <2>1 DEF CallAdapter, TypeOK, CountersOK
  <2>3. worker'.pc = "sentStatus" => accepted'[Msg] > 0
    <3>1. worker'.pc = "sentStatus" => accepted' = [accepted EXCEPT ![Msg] = @ + 1]
      BY <1>9 DEF CallAdapter, TypeOK, WorkerOK
    <3>2. QED
      BY <2>1, <3>1 DEF TypeOK, CountersOK
  <2>4. worker'.pc \in {"sentStatus", "attemptResult"}
    BY <1>9 DEF CallAdapter, TypeOK, WorkerOK
  <2>5. UNCHANGED <<status, ext, events, report>>
    BY <1>9 DEF CallAdapter, rowVars
  <2>6. \A m \in Messages : accepted[m] \in Nat /\ accepted'[m] \in Nat
    BY <1>9, <2>1 DEF CallAdapter, TypeOK, CountersOK
  <2>7. QED
    BY <2>1, <2>2, <2>3, <2>4, <2>5, <2>6 DEF AcceptInv, SentOnlyIfAccepted, TypeOK, HandlersOK
<1>10. CASE MarkSent
  BY <1>10 DEF AcceptInv, SentOnlyIfAccepted, TypeOK, RowsOK, CountersOK, WorkerOK,
     HandlersOK, Msg, rowVars, MarkSent, Step, SetStatus
<1>11. CASE AttemptSent
  BY <1>11 DEF AcceptInv, SentOnlyIfAccepted, TypeOK, RowsOK, CountersOK, WorkerOK,
     HandlersOK, Msg, rowVars, AttemptSent, Step, SetResult
<1>12. CASE AttemptResult
  BY SMTT(30), <1>12 DEF AcceptInv, SentOnlyIfAccepted, TypeOK, RowsOK, CountersOK, WorkerOK,
     HandlersOK, Msg, rowVars, AttemptResult, Step, SetResult
<1>13. CASE MarkFailed
  BY <1>13 DEF AcceptInv, SentOnlyIfAccepted, TypeOK, RowsOK, CountersOK, WorkerOK,
     HandlersOK, Msg, rowVars, MarkFailed, Step, SetStatus
<1>14. CASE RaiseAlert
  BY <1>14 DEF AcceptInv, SentOnlyIfAccepted, TypeOK, RowsOK, CountersOK, WorkerOK,
     HandlersOK, Msg, rowVars, RaiseAlert, Step
<1>15. CASE EmitEvent
  BY <1>15 DEF AcceptInv, SentOnlyIfAccepted, TypeOK, RowsOK, CountersOK, WorkerOK,
     HandlersOK, Msg, rowVars, EmitEvent, Step
<1>16. CASE FinishJob
  BY <1>16 DEF AcceptInv, SentOnlyIfAccepted, TypeOK, RowsOK, CountersOK, WorkerOK,
     HandlersOK, Msg, rowVars, FinishJob, Settled, IdleWorker
<1>17. ASSUME NEW m \in Messages, ClaimDue(m)
      PROVE  AcceptInv'
  BY <1>17 DEF AcceptInv, SentOnlyIfAccepted, TypeOK, RowsOK, CountersOK, WorkerOK,
     HandlersOK, Msg, rowVars, ClaimDue, SetStatus
<1>18. ASSUME NEW p \in Reporters, NEW m \in Messages, NEW next \in Reported, ReportRead(p, m, next)
      PROVE  AcceptInv'
  BY <1>18 DEF AcceptInv, SentOnlyIfAccepted, TypeOK, RowsOK, CountersOK, WorkerOK,
     HandlersOK, Msg, rowVars, ReportRead
<1>19. ASSUME NEW p \in Reporters, ReportUpdate(p)
      PROVE  AcceptInv'
  BY <1>19 DEF AcceptInv, SentOnlyIfAccepted, TypeOK, RowsOK, CountersOK, WorkerOK,
     HandlersOK, Msg, rowVars, ReportUpdate, SetStatus
<1>20. ASSUME NEW p \in Reporters, ReportHistory(p)
      PROVE  AcceptInv'
  BY <1>20 DEF AcceptInv, SentOnlyIfAccepted, TypeOK, RowsOK, CountersOK, WorkerOK,
     HandlersOK, Msg, rowVars, ReportHistory, AddHistory, IdleReporter
<1>21. CASE WorkerCrash
  BY <1>21 DEF AcceptInv, SentOnlyIfAccepted, TypeOK, RowsOK, CountersOK, WorkerOK,
     HandlersOK, Msg, rowVars, WorkerCrash, Fault, IdleWorker, IdleReporter
<1>22. CASE DbError
  <2>1. worker'.pc \notin {"sentStatus", "sentHistory", "sentAttempt", "sentEvent"}
    BY <1>22 DEF DbError, AfterDbError, TypeOK, WorkerOK, BeforeCall, AfterCall
  <2>2. UNCHANGED <<status, ext, events, report, accepted>>
    BY <1>22 DEF DbError, rowVars
  <2>3. QED
    BY <2>1, <2>2 DEF AcceptInv, SentOnlyIfAccepted
<1>23. CASE AnswerLost
  <2>1. worker'.pc = "attemptResult"
    BY <1>23 DEF AnswerLost, TypeOK, WorkerOK
  <2>2. UNCHANGED <<status, ext, events, report>>
    BY <1>23 DEF AnswerLost, rowVars
  <2>3. \A m \in Messages : accepted[m] > 0 => accepted'[m] > 0
    BY <1>23 DEF AnswerLost, TypeOK, CountersOK
  <2>4. \A p \in Reporters : report[p].pc # "idle" => report[p].msg \in Messages
    BY DEF TypeOK, HandlersOK
  <2>5. QED
    BY <2>1, <2>2, <2>3, <2>4 DEF AcceptInv, SentOnlyIfAccepted
<1>24. QED
  BY <1>1, <1>2, <1>3, <1>4, <1>5, <1>6, <1>7, <1>8, <1>9, <1>10, <1>11, <1>12, <1>13,
     <1>14, <1>15, <1>16, <1>17, <1>18, <1>19, <1>20, <1>21, <1>22, <1>23
     DEF Next, ApiNext, ProcessorNext, SchedulerNext, ReportNext, FaultNext, vars,
         rowVars, tickVars, RetryRead, CancelRead, EnqueueSend, CancelRemove,
         StalledCheck, ReadDue, ClaimHistory, ClaimEnqueue, ReadStuck, Reconcile,
         RequestAbandoned, ClaimAbandoned, RedisLoss

\* For every number of messages, requests and reports and every kind and number of
\* failures: a message is shown as sent, delivered or read, has an external id or
\* is announced as sent only if the provider has accepted a copy of it.
THEOREM SentOnlyIfAcceptedAlways == Spec => []SentOnlyIfAccepted
<1>1. Init => AcceptInv
  BY DEF Init, AcceptInv, SentOnlyIfAccepted, IdleWorker, IdleReporter
<1>2. AcceptInv => SentOnlyIfAccepted
  BY DEF AcceptInv
<1>3. QED
  BY <1>1, <1>2, TypeInit, TypeStep, AcceptStep, PTL DEF Spec

-----------------------------------------------------------------------------
(* A job calls the provider a bounded number of times.                       *)

\* One call more than the attempts and stalls counted so far can only have been
\* made in the run that is still open; and the counts themselves are bounded.
CallsInv ==
  \A j \in JobIds :
    /\ jobs[j].calls <= jobs[j].made + jobs[j].stalls
         + (IF jobs[j].state = "active" /\ (Held(j) => worker.pc \in AfterCall) THEN 1 ELSE 0)
    /\ jobs[j].made + jobs[j].stalls
         + (IF jobs[j].state \in {"wait", "active"} THEN 1 ELSE 0) <= MaxAttempts + MaxStalled

LEMMA JobsDomain == TypeOK => jobs = [i \in JobIds |-> jobs[i]]
BY DEF TypeOK, JobsOK

\* Adding a job keeps CallsInv: a new job has made no call.
LEMMA AddJobCalls ==
  ASSUME TypeOK, CallsInv, NEW j \in JobIds, AddJob(j), UNCHANGED worker
  PROVE  CallsInv'
<1>1. CASE jobs[j].state = "absent"
  <2>1. jobs' = [jobs EXCEPT ![j] = NewJob]
    BY <1>1 DEF AddJob
  <2>2. ASSUME NEW i \in JobIds, i # j PROVE jobs'[i] = jobs[i]
    BY <2>1, <2>2, JobsDomain
  <2>3. jobs'[j] = [state |-> "wait", made |-> 0, stalls |-> 0, calls |-> 0]
    BY <2>1 DEF TypeOK, JobsOK, JobRecords, NewJob, NoJob
  <2>4. QED
    BY <2>2, <2>3 DEF CallsInv, Held
<1>2. CASE jobs[j].state # "absent"
  BY <1>2 DEF AddJob, CallsInv, Held
<1>3. QED
  BY <1>1, <1>2

\* Every step keeps CallsInv.
LEMMA CallsStep == TypeOK /\ CallsInv /\ [Next]_vars => CallsInv'
<1> SUFFICES ASSUME TypeOK, CallsInv, [Next]_vars PROVE CallsInv'
  OBVIOUS
<1> USE JobIdType
<1>1. CASE UNCHANGED <<jobs, worker>>
  BY <1>1 DEF CallsInv, Held
<1>2. ASSUME NEW r \in Requests, EnqueueSend(r)
      PROVE  CallsInv'
  <2>1. <<api[r].msg, api[r].sfx>> \in JobIds
    BY <1>2 DEF EnqueueSend, TypeOK, HandlersOK
  <2>2. QED
    BY <1>2, <2>1, AddJobCalls DEF EnqueueSend
<1>3. ASSUME NEW r \in Requests, CancelRemove(r)
      PROVE  CallsInv'
  <2> DEFINE j == <<api[r].msg, 0>>
  <2>1. j \in JobIds /\ UNCHANGED worker
    BY <1>3 DEF CancelRemove, TypeOK, HandlersOK
  <2>2. UNCHANGED jobs \/ jobs' = [jobs EXCEPT ![j] = NoJob]
    BY <1>3 DEF CancelRemove, RemoveJob
  <2>3. CASE jobs' = [jobs EXCEPT ![j] = NoJob]
    <3> HIDE DEF j
    <3>1. ASSUME NEW i \in JobIds, i # j PROVE jobs'[i] = jobs[i]
      BY <2>3, <3>1, JobsDomain
    <3>2. jobs'[j] = [state |-> "absent", made |-> 0, stalls |-> 0, calls |-> 0]
      BY <2>1, <2>3 DEF TypeOK, JobsOK, JobRecords, NoJob
    <3>3. QED
      BY <2>1, <3>1, <3>2 DEF CallsInv, Held
  <2>4. QED
    BY <1>1, <2>1, <2>2, <2>3
<1>4. ASSUME NEW j \in JobIds, PickUp(j)
      PROVE  CallsInv'
  BY <1>4 DEF CallsInv, TypeOK, JobsOK, JobRecords, WorkerOK, HandlersOK, Held,
     BeforeCall, AfterCall, PickUp
<1>5. ASSUME NEW j \in JobIds, StalledCheck(j)
      PROVE  CallsInv'
  BY <1>5 DEF CallsInv, TypeOK, JobsOK, JobRecords, WorkerOK, HandlersOK, Held,
     BeforeCall, AfterCall, StalledCheck, Held
<1>6. CASE MarkDispatching
  BY <1>6 DEF CallsInv, TypeOK, JobsOK, JobRecords, WorkerOK, HandlersOK, Held,
     BeforeCall, AfterCall, MarkDispatching, Step, SetStatus
<1>7. CASE WriteHistory
  BY <1>7 DEF CallsInv, TypeOK, JobsOK, JobRecords, WorkerOK, HandlersOK, Held,
     BeforeCall, AfterCall, WriteHistory, Step, AddHistory
<1>8. CASE CreateAttempt
  BY <1>8 DEF CallsInv, TypeOK, JobsOK, JobRecords, WorkerOK, HandlersOK, Held,
     BeforeCall, AfterCall, CreateAttempt, Step
<1>9. CASE CallAdapter
  <2>1. worker' \in {[worker EXCEPT !.pc = "sentStatus", !.outcome = "accepted"],
                     [worker EXCEPT !.pc = "attemptResult", !.outcome = "permanent"],
                     [worker EXCEPT !.pc = "attemptResult", !.outcome = "error"]}
    BY <1>9 DEF CallAdapter
  <2>2. worker.job \in JobIds /\ worker'.job = worker.job /\ worker'.pc \in AfterCall
    BY <1>9, <2>1 DEF CallAdapter, TypeOK, WorkerOK, AfterCall
  <2>3. worker.pc \notin AfterCall /\ worker'.pc # "idle" /\ worker.pc # "idle"
    BY <1>9, <2>2 DEF CallAdapter, AfterCall
  <2>4. ASSUME NEW i \in JobIds, i # worker.job PROVE jobs'[i] = jobs[i]
    BY <1>9, <2>4, JobsDomain DEF CallAdapter, CountCall
  <2>5. jobs'[worker.job] = IF jobs[worker.job].state = "active"
                            THEN [jobs[worker.job] EXCEPT !.calls = @ + 1] ELSE jobs[worker.job]
    BY <1>9, <2>2 DEF CallAdapter, CountCall, TypeOK, JobsOK, JobRecords
  <2>6. QED
    BY <2>2, <2>3, <2>4, <2>5 DEF CallsInv, Held, TypeOK, JobsOK, JobRecords
<1>10. CASE MarkSent
  BY <1>10 DEF CallsInv, TypeOK, JobsOK, JobRecords, WorkerOK, HandlersOK, Held,
     BeforeCall, AfterCall, MarkSent, Step, SetStatus
<1>11. CASE AttemptSent
  BY <1>11 DEF CallsInv, TypeOK, JobsOK, JobRecords, WorkerOK, HandlersOK, Held,
     BeforeCall, AfterCall, AttemptSent, Step, SetResult
<1>12. CASE AttemptResult
  BY <1>12 DEF CallsInv, TypeOK, JobsOK, JobRecords, WorkerOK, HandlersOK, Held,
     BeforeCall, AfterCall, AttemptResult, Step, SetResult
<1>13. CASE MarkFailed
  BY <1>13 DEF CallsInv, TypeOK, JobsOK, JobRecords, WorkerOK, HandlersOK, Held,
     BeforeCall, AfterCall, MarkFailed, Step, SetStatus
<1>14. CASE RaiseAlert
  BY <1>14 DEF CallsInv, TypeOK, JobsOK, JobRecords, WorkerOK, HandlersOK, Held,
     BeforeCall, AfterCall, RaiseAlert, Step
<1>15. CASE EmitEvent
  BY <1>15 DEF CallsInv, TypeOK, JobsOK, JobRecords, WorkerOK, HandlersOK, Held,
     BeforeCall, AfterCall, EmitEvent, Step
<1>16. CASE FinishJob
  BY <1>16 DEF CallsInv, TypeOK, JobsOK, JobRecords, WorkerOK, HandlersOK, Held,
     BeforeCall, AfterCall, FinishJob, Settled, IdleWorker
<1>17. ASSUME NEW m \in Messages, ClaimEnqueue(m)
      PROVE  CallsInv'
  <2>1. <<m, 0>> \in JobIds
    OBVIOUS
  <2>2. QED
    BY <1>17, <2>1, AddJobCalls DEF ClaimEnqueue
<1>18. ASSUME NEW m \in Messages, Reconcile(m)
      PROVE  CallsInv'
  <2>1. <<m, 0>> \in JobIds
    OBVIOUS
  <2>2. QED
    BY <1>18, <2>1, AddJobCalls DEF Reconcile
<1>19. CASE WorkerCrash
  BY <1>19 DEF CallsInv, TypeOK, JobsOK, JobRecords, WorkerOK, HandlersOK, Held,
     BeforeCall, AfterCall, WorkerCrash, Fault, IdleWorker, IdleReporter
<1>20. CASE RedisLoss
  BY <1>20 DEF CallsInv, TypeOK, JobsOK, JobRecords, WorkerOK, HandlersOK, Held,
     BeforeCall, AfterCall, RedisLoss, Fault, NoJob
<1>21. CASE DbError
  BY <1>21 DEF CallsInv, TypeOK, JobsOK, JobRecords, WorkerOK, HandlersOK, Held,
     BeforeCall, AfterCall, DbError, Fault, AfterDbError
<1>22. CASE AnswerLost
  BY <1>22 DEF CallsInv, TypeOK, JobsOK, JobRecords, WorkerOK, HandlersOK, Held,
     BeforeCall, AfterCall, AnswerLost, Fault, CountCall
<1>23. QED
  BY <1>1, <1>2, <1>3, <1>4, <1>5, <1>6, <1>7, <1>8, <1>9, <1>10, <1>11, <1>12, <1>13,
     <1>14, <1>15, <1>16, <1>17, <1>18, <1>19, <1>20, <1>21, <1>22
     DEF Next, ApiNext, ProcessorNext, SchedulerNext, ReportNext, FaultNext, vars,
         rowVars, tickVars, Send, RetryRead, CancelRead, RetryTx, CancelTx, ReadDue,
         ClaimDue, ClaimHistory, ReadStuck, ReportRead, ReportUpdate, ReportHistory,
         RequestAbandoned, ClaimAbandoned

\* Whatever crashes, retries and interleavings happen, one job calls the provider
\* at most MAX_SEND_ATTEMPTS + maxStalledCount times.
THEOREM CallsBoundedAlways == Spec => []CallsBounded
<1>1. Init => CallsInv
  BY DEF Init, CallsInv, NoJob
<1>2. TypeOK /\ CallsInv => CallsBounded
  BY DEF CallsInv, CallsBounded, TypeOK, JobsOK, JobRecords
<1>3. QED
  BY <1>1, <1>2, TypeInit, TypeStep, CallsStep, PTL DEF Spec

-----------------------------------------------------------------------------
(* What holds as long as nothing fails.                                      *)

\* Everything has been said about a message that BullMQ gives up.
Announced(m) == "failed" \in hist[m] /\ m \in alerts /\ <<"message.failed", m>> \in events

\* Without crashes the active job is the one the worker runs, and BullMQ and the
\* processor agree on the number of its attempt; the outcome says where the
\* processor is.
RunningOK ==
  /\ \A j \in JobIds : jobs[j].state = "active" => Held(j)
  /\ worker.pc # "idle" => jobs[worker.job].state = "active" /\ worker.no = jobs[worker.job].made + 1
  /\ worker.pc \in BeforeCall => worker.outcome = "none"
  /\ worker.pc \in {"sentStatus", "sentHistory", "sentAttempt", "sentEvent"} => worker.outcome = "accepted"

\* How far the processor is with a message it gives up, and the jobs given up.
ToldOK ==
  /\ worker.pc \in {"failAlert", "failEvent"} => "failed" \in hist[Msg]
  /\ worker.pc = "failEvent" => Msg \in alerts
  /\ worker.pc = "finish" /\ worker.outcome = "error" => worker.no < MaxAttempts \/ Announced(Msg)
  /\ \A j \in JobIds : jobs[j].state = "failed" => Announced(MsgOf(j))

\* A job that can no longer make the provider accept a copy; the jobs of m that
\* still can, whether they exist yet or not; the cancellations under way, each of
\* which may yet remove a job that is spent.
Spent(j) == jobs[j].state \in {"completed", "failed"} \/ (Held(j) /\ worker.outcome = "accepted")
Unspent(m) == {k \in 0..used.retry : ~Spent(<<m, k>>)}
Cancelling == {r \in Requests : api[r].pc \in {"cancelTx", "cancelRemove"}}

\* Every copy is accounted for.
NumbersOK ==
  /\ \A j \in JobIds : jobs[j].state # "absent" => j[2] <= used.retry
  /\ \A r \in Requests : api[r].sfx <= used.retry
CopiesOK ==
  /\ IsFiniteSet(Cancelling)
  /\ \A m \in Messages :
       accepted[m] + Cardinality(Unspent(m)) + Cardinality(Cancelling) <= 1 + used.retry + used.cancel

\* s is the status of m and a handler that wrote it is about to write its history row.
Due(m, s) ==
  \/ worker.pc = "dispatchHistory" /\ Msg = m /\ s = "dispatching"
  \/ worker.pc = "sentHistory" /\ Msg = m /\ s = "sent"
  \/ worker.pc = "failHistory" /\ Msg = m /\ s = "failed"
  \/ claim[m] = "history" /\ s = "queued"
  \/ \E p \in Reporters : report[p].pc = "history" /\ report[p].msg = m /\ report[p].next = s
HistoryOK == \A m \in Messages : status[m] # "none" => status[m] \in hist[m] \/ Due(m, status[m])

CalmInv == RunningOK /\ ToldOK /\ HistoryOK /\ NumbersOK /\ CopiesOK

\* A step in which nothing fails.
CalmNext ==
  \/ \E r \in Requests : ApiNext(r)
  \/ \E j \in JobIds : PickUp(j) \/ StalledCheck(j)
  \/ ProcessorNext
  \/ \E m \in Messages : SchedulerNext(m) \/ ReadStuck(m) \/ Reconcile(m)
  \/ \E p \in Reporters : ReportNext(p)

\* Failures are counted: while none has happened, every step is a calm one.
LEMMA Calm ==
  ASSUME TypeOK, Next, used'.fault = 0
  PROVE  used.fault = 0 /\ CalmNext
<1>1. ASSUME NEW kind, Fault(kind) PROVE FALSE
  BY <1>1 DEF Fault, TypeOK, CountersOK
<1>2. CalmNext
  BY <1>1 DEF Next, CalmNext, FaultNext, RequestAbandoned, ClaimAbandoned, WorkerCrash,
     RedisLoss, DbError, AnswerLost
<1>3. used.fault = used'.fault
  BY ZenonT(60), <1>2 DEF CalmNext, ApiNext, ProcessorNext, SchedulerNext, ReportNext, Send, EnqueueSend,
     RetryRead, RetryTx, CancelRead, CancelTx, CancelRemove, PickUp, StalledCheck,
     MarkDispatching, WriteHistory, CreateAttempt, CallAdapter, MarkSent, AttemptSent,
     AttemptResult, MarkFailed, RaiseAlert, EmitEvent, FinishJob, ReadDue, ClaimDue,
     ClaimHistory, ClaimEnqueue, ReadStuck, Reconcile, ReportRead, ReportUpdate,
     ReportHistory, TypeOK, CountersOK
<1>4. QED
  BY <1>2, <1>3

\* A step of the processor moves the worker on and leaves the job it runs.
LEMMA StepEffect ==
  ASSUME TypeOK, NEW from \in BeforeCall \cup AfterCall, NEW to \in BeforeCall \cup AfterCall, Step(from, to)
  PROVE  /\ worker.pc = from /\ worker'.pc = to /\ worker'.job = worker.job /\ worker'.no = worker.no
         /\ worker'.outcome = worker.outcome /\ Msg' = Msg /\ Msg \in Messages /\ worker.job \in JobIds
<1>1. worker.pc = from /\ worker'.pc = to /\ worker'.job = worker.job /\ worker'.no = worker.no
      /\ worker'.outcome = worker.outcome
  BY DEF Step, TypeOK, WorkerOK
<1>2. worker.pc # "idle"
  BY <1>1 DEF BeforeCall, AfterCall
<1>3. QED
  BY <1>1, <1>2, WorkerMsgType DEF Msg, TypeOK, WorkerOK

\* add() makes a job that waits, or nothing.
LEMMA AddEffect ==
  ASSUME TypeOK, NEW j \in JobIds, AddJob(j)
  PROVE  /\ \A i \in JobIds \ {j} : jobs'[i] = jobs[i]
         /\ jobs'[j] = jobs[j] \/ (jobs[j].state = "absent" /\ jobs'[j].state = "wait")
<1>1. CASE jobs[j].state = "absent"
  <2>1. NewJob.state = "wait"
    BY DEF NewJob, NoJob
  <2>2. QED
    BY <1>1, <2>1 DEF AddJob, TypeOK, JobsOK
<1>2. CASE jobs[j].state # "absent"
  BY <1>2 DEF AddJob
<1>3. QED
  BY <1>1, <1>2

\* Only the worker makes a job active, and it keeps it until it settles it.
LEMMA RunningStep ==
  TypeOK /\ RunningOK /\ CalmNext => RunningOK'
<1> SUFFICES ASSUME TypeOK /\ RunningOK, CalmNext PROVE RunningOK'
  OBVIOUS
<1>1. ASSUME UNCHANGED <<jobs, worker>> PROVE RunningOK'
  BY <1>1 DEF RunningOK, Held
<1>EnqueueSend. ASSUME NEW r \in Requests, EnqueueSend(r) PROVE RunningOK'
  <2>1. <<api[r].msg, api[r].sfx>> \in JobIds /\ AddJob(<<api[r].msg, api[r].sfx>>) /\ UNCHANGED worker
    BY <1>EnqueueSend, JobIdType DEF EnqueueSend, TypeOK, HandlersOK
  <2>2. QED
    BY <2>1, AddEffect DEF RunningOK, Held, TypeOK, WorkerOK
<1>CancelRemove. ASSUME NEW r \in Requests, CancelRemove(r) PROVE RunningOK'
  <2> DEFINE j == <<api[r].msg, 0>>
  <2>1. j \in JobIds /\ UNCHANGED worker
    BY <1>CancelRemove, JobIdType DEF CancelRemove, TypeOK, HandlersOK
  <2>2. NoJob.state = "absent"
    BY DEF NoJob
  <2>3. UNCHANGED jobs \/ (jobs[j].state # "active" /\ jobs' = [jobs EXCEPT ![j] = NoJob])
    BY <1>CancelRemove, <2>1 DEF CancelRemove, RemoveJob, RunningOK
  <2> HIDE DEF j
  <2>4. QED
    BY <2>1, <2>2, <2>3 DEF RunningOK, Held, TypeOK, JobsOK, WorkerOK
<1>PickUp. ASSUME NEW j \in JobIds, PickUp(j) PROVE RunningOK'
  BY <1>PickUp DEF PickUp, RunningOK, Held, TypeOK, WorkerOK, JobsOK, JobRecords, BeforeCall,
     AfterCall
<1>StalledCheck. ASSUME NEW j \in JobIds, StalledCheck(j) PROVE RunningOK'
  BY <1>StalledCheck DEF StalledCheck, RunningOK, Held, TypeOK, WorkerOK, JobsOK, JobRecords,
     BeforeCall, AfterCall
<1>MarkDispatching. ASSUME MarkDispatching PROVE RunningOK'
  <2>1. UNCHANGED jobs
    BY <1>MarkDispatching DEF MarkDispatching
  <2>2. QED
    BY <1>MarkDispatching, <2>1, StepEffect DEF MarkDispatching, RunningOK, Held,
       BeforeCall, AfterCall
<1>WriteHistory. ASSUME WriteHistory PROVE RunningOK'
  <2>1. UNCHANGED jobs
    BY <1>WriteHistory DEF WriteHistory
  <2>2. QED
    BY <1>WriteHistory, <2>1, StepEffect DEF WriteHistory, RunningOK, Held, BeforeCall,
       AfterCall
<1>CreateAttempt. ASSUME CreateAttempt PROVE RunningOK'
  <2>1. UNCHANGED jobs
    BY <1>CreateAttempt DEF CreateAttempt
  <2>2. QED
    BY <1>CreateAttempt, <2>1, StepEffect DEF CreateAttempt, RunningOK, Held, BeforeCall,
       AfterCall
<1>CallAdapter. ASSUME CallAdapter PROVE RunningOK'
  <2>1. worker.job \in JobIds /\ jobs[worker.job].state = "active" /\ worker.pc = "call"
    BY <1>CallAdapter DEF CallAdapter, RunningOK, TypeOK, WorkerOK
  <2>2. /\ worker'.job = worker.job /\ worker'.no = worker.no
        /\ \/ worker'.pc = "sentStatus" /\ worker'.outcome = "accepted"
           \/ worker'.pc = "attemptResult"
    BY <1>CallAdapter DEF CallAdapter, TypeOK, WorkerOK
  <2>3. /\ \A i \in JobIds : jobs'[i].state = jobs[i].state
        /\ jobs'[worker.job].made = jobs[worker.job].made
    BY <1>CallAdapter, <2>1 DEF CallAdapter, CountCall, TypeOK, JobsOK, JobRecords
  <2>4. QED
    BY <2>1, <2>2, <2>3 DEF RunningOK, Held, BeforeCall
<1>MarkSent. ASSUME MarkSent PROVE RunningOK'
  <2>1. UNCHANGED jobs
    BY <1>MarkSent DEF MarkSent
  <2>2. QED
    BY <1>MarkSent, <2>1, StepEffect DEF MarkSent, RunningOK, Held, BeforeCall, AfterCall
<1>AttemptSent. ASSUME AttemptSent PROVE RunningOK'
  <2>1. UNCHANGED jobs
    BY <1>AttemptSent DEF AttemptSent
  <2>2. QED
    BY <1>AttemptSent, <2>1, StepEffect DEF AttemptSent, RunningOK, Held, BeforeCall, AfterCall
<1>AttemptResult. ASSUME AttemptResult PROVE RunningOK'
  <2>1. UNCHANGED jobs
    BY <1>AttemptResult DEF AttemptResult
  <2>2. QED
    BY <1>AttemptResult, <2>1, StepEffect DEF AttemptResult, RunningOK, Held, BeforeCall,
       AfterCall
<1>MarkFailed. ASSUME MarkFailed PROVE RunningOK'
  <2>1. UNCHANGED jobs
    BY <1>MarkFailed DEF MarkFailed
  <2>2. QED
    BY <1>MarkFailed, <2>1, StepEffect DEF MarkFailed, RunningOK, Held, BeforeCall, AfterCall
<1>RaiseAlert. ASSUME RaiseAlert PROVE RunningOK'
  <2>1. UNCHANGED jobs
    BY <1>RaiseAlert DEF RaiseAlert
  <2>2. QED
    BY <1>RaiseAlert, <2>1, StepEffect DEF RaiseAlert, RunningOK, Held, BeforeCall, AfterCall
<1>EmitEvent. ASSUME EmitEvent PROVE RunningOK'
  <2>1. UNCHANGED jobs
    BY <1>EmitEvent DEF EmitEvent
  <2>2. QED
    BY <1>EmitEvent, <2>1, StepEffect DEF EmitEvent, RunningOK, Held, BeforeCall, AfterCall
<1>FinishJob. ASSUME FinishJob PROVE RunningOK'
  <2>1. worker.job \in JobIds /\ jobs[worker.job].state = "active" /\ worker'.pc = "idle"
    BY <1>FinishJob DEF FinishJob, RunningOK, TypeOK, WorkerOK, IdleWorker
  <2>2. jobs' = [jobs EXCEPT ![worker.job] = Settled(jobs[worker.job])]
    BY <1>FinishJob, <2>1 DEF FinishJob
  <2>3. Settled(jobs[worker.job]).state # "active"
    BY <2>1 DEF Settled, TypeOK, JobsOK, JobRecords
  <2>4. QED
    BY <2>1, <2>2, <2>3 DEF RunningOK, Held, TypeOK, JobsOK, BeforeCall
<1>ClaimEnqueue. ASSUME NEW m \in Messages, ClaimEnqueue(m) PROVE RunningOK'
  <2>1. <<m, 0>> \in JobIds /\ AddJob(<<m, 0>>) /\ UNCHANGED worker
    BY <1>ClaimEnqueue, JobIdType DEF ClaimEnqueue
  <2>2. QED
    BY <2>1, AddEffect DEF RunningOK, Held, TypeOK, WorkerOK
<1>Reconcile. ASSUME NEW m \in Messages, Reconcile(m) PROVE RunningOK'
  <2>1. <<m, 0>> \in JobIds /\ AddJob(<<m, 0>>) /\ UNCHANGED worker
    BY <1>Reconcile, JobIdType DEF Reconcile
  <2>2. QED
    BY <2>1, AddEffect DEF RunningOK, Held, TypeOK, WorkerOK
<1>QED. QED
  BY <1>1, <1>EnqueueSend, <1>CancelRemove, <1>PickUp, <1>StalledCheck, <1>MarkDispatching,
     <1>WriteHistory, <1>CreateAttempt, <1>CallAdapter, <1>MarkSent, <1>AttemptSent,
     <1>AttemptResult, <1>MarkFailed, <1>RaiseAlert, <1>EmitEvent, <1>FinishJob,
     <1>ClaimEnqueue, <1>Reconcile DEF CalmNext, ApiNext, ProcessorNext, SchedulerNext,
     ReportNext, Send, SetStatus, AddHistory, RetryRead, RetryTx, CancelRead, CancelTx,
     ReadDue, ClaimDue, ClaimHistory, ReadStuck, ReportRead, ReportUpdate, ReportHistory,
     IdleReporter

\* The attempt the processor takes for the last one is the one BullMQ takes for the last:
\* by then history, alert and event are written.
LEMMA ToldStep ==
  TypeOK /\ RunningOK /\ ToldOK /\ CalmNext => ToldOK'
<1> SUFFICES ASSUME TypeOK /\ RunningOK /\ ToldOK, CalmNext PROVE ToldOK'
  OBVIOUS
<1>1. ASSUME UNCHANGED <<jobs, worker, hist, alerts, events>> PROVE ToldOK'
  BY <1>1 DEF ToldOK, Announced, Msg
<1>Send. ASSUME NEW r \in Requests, NEW m \in Messages, NEW later \in BOOLEAN, Send(r, m, later)
         PROVE  ToldOK'
  <2>1. /\ UNCHANGED <<jobs, worker, alerts>> /\ events \subseteq events'
        /\ \A o \in Messages : hist[o] \subseteq hist'[o]
    BY <1>Send DEF Send, AddHistory, TypeOK, RowsOK, HandlersOK
  <2>2. QED
    BY <2>1, MsgOfType, WorkerMsgType DEF ToldOK, Announced, Msg, TypeOK
<1>EnqueueSend. ASSUME NEW r \in Requests, EnqueueSend(r) PROVE ToldOK'
  <2>1. <<api[r].msg, api[r].sfx>> \in JobIds /\ AddJob(<<api[r].msg, api[r].sfx>>) /\ UNCHANGED <<worker, hist, alerts, events>>
    BY <1>EnqueueSend, JobIdType DEF EnqueueSend, TypeOK, HandlersOK, rowVars
  <2>2. QED
    BY <2>1, AddEffect DEF ToldOK, Announced, Msg
<1>RetryTx. ASSUME NEW r \in Requests, RetryTx(r) PROVE ToldOK'
  <2>1. /\ UNCHANGED <<jobs, worker, alerts>> /\ events \subseteq events'
        /\ \A o \in Messages : hist[o] \subseteq hist'[o]
    BY <1>RetryTx DEF RetryTx, AddHistory, TypeOK, RowsOK, HandlersOK
  <2>2. QED
    BY <2>1, MsgOfType, WorkerMsgType DEF ToldOK, Announced, Msg, TypeOK
<1>CancelTx. ASSUME NEW r \in Requests, CancelTx(r) PROVE ToldOK'
  <2>1. /\ UNCHANGED <<jobs, worker, alerts>> /\ events \subseteq events'
        /\ \A o \in Messages : hist[o] \subseteq hist'[o]
    BY <1>CancelTx DEF CancelTx, AddHistory, TypeOK, RowsOK, HandlersOK
  <2>2. QED
    BY <2>1, MsgOfType, WorkerMsgType DEF ToldOK, Announced, Msg, TypeOK
<1>CancelRemove. ASSUME NEW r \in Requests, CancelRemove(r) PROVE ToldOK'
  <2> DEFINE j == <<api[r].msg, 0>>
  <2>1. j \in JobIds /\ UNCHANGED <<worker, hist, alerts, events>>
    BY <1>CancelRemove, JobIdType DEF CancelRemove, TypeOK, HandlersOK, rowVars
  <2>2. NoJob.state = "absent"
    BY DEF NoJob
  <2>3. UNCHANGED jobs \/ jobs' = [jobs EXCEPT ![j] = NoJob]
    BY <1>CancelRemove DEF CancelRemove, RemoveJob
  <2> HIDE DEF j
  <2>4. QED
    BY <2>1, <2>2, <2>3 DEF ToldOK, Announced, Msg, TypeOK, JobsOK
<1>PickUp. ASSUME NEW j \in JobIds, PickUp(j) PROVE ToldOK'
  <2>1. /\ UNCHANGED <<hist, alerts, events>> /\ worker'.pc = "load"
        /\ jobs' = [jobs EXCEPT ![j].state = "active"]
    BY <1>PickUp DEF PickUp, rowVars
  <2>2. \A i \in JobIds : jobs'[i].state = "failed" => jobs[i].state = "failed"
    BY <2>1 DEF TypeOK, JobsOK, JobRecords
  <2>3. QED
    BY <2>1, <2>2 DEF ToldOK, Announced
<1>StalledCheck. ASSUME NEW j \in JobIds, StalledCheck(j) PROVE ToldOK'
  BY <1>StalledCheck DEF StalledCheck, RunningOK
<1>MarkDispatching. ASSUME MarkDispatching PROVE ToldOK'
  <2>1. worker.pc = "load" /\ worker'.pc = "dispatchHistory" /\ worker'.no = worker.no
        /\ worker'.outcome = worker.outcome /\ Msg' = Msg /\ Msg \in Messages
    BY <1>MarkDispatching, StepEffect DEF MarkDispatching, BeforeCall, AfterCall
  <2>2. UNCHANGED <<jobs, hist, alerts, events>>
    BY <1>MarkDispatching, <2>1 DEF MarkDispatching
  <2>3. QED
    BY <2>1, <2>2, MsgOfType DEF ToldOK, Announced, IsRetryable, RunningOK
<1>WriteHistory. ASSUME WriteHistory PROVE ToldOK'
  <2>1. UNCHANGED <<jobs, alerts, events>>
    BY <1>WriteHistory DEF WriteHistory
  <2>2. CASE Step("dispatchHistory", "attempt") /\ AddHistory(Msg, "dispatching")
    <3>1. worker.pc = "dispatchHistory" /\ worker'.pc = "attempt" /\ worker'.no = worker.no
          /\ worker'.outcome = worker.outcome /\ Msg' = Msg /\ Msg \in Messages
      BY <2>2, StepEffect DEF BeforeCall, AfterCall
    <3>2. QED
      BY <2>1, <2>2, <3>1, MsgOfType DEF ToldOK, Announced, IsRetryable, RunningOK,
         AddHistory, TypeOK, RowsOK
  <2>3. CASE Step("sentHistory", "sentAttempt") /\ AddHistory(Msg, "sent")
    <3>1. worker.pc = "sentHistory" /\ worker'.pc = "sentAttempt" /\ worker'.no = worker.no
          /\ worker'.outcome = worker.outcome /\ Msg' = Msg /\ Msg \in Messages
      BY <2>3, StepEffect DEF BeforeCall, AfterCall
    <3>2. QED
      BY <2>1, <2>3, <3>1, MsgOfType DEF ToldOK, Announced, IsRetryable, RunningOK,
         AddHistory, TypeOK, RowsOK
  <2>4. CASE Step("failHistory", "failAlert") /\ AddHistory(Msg, "failed")
    <3>1. worker.pc = "failHistory" /\ worker'.pc = "failAlert" /\ worker'.no = worker.no
          /\ worker'.outcome = worker.outcome /\ Msg' = Msg /\ Msg \in Messages
      BY <2>4, StepEffect DEF BeforeCall, AfterCall
    <3>2. QED
      BY <2>1, <2>4, <3>1, MsgOfType DEF ToldOK, Announced, IsRetryable, RunningOK,
         AddHistory, TypeOK, RowsOK
  <2>5. QED
    BY <1>WriteHistory, <2>2, <2>3, <2>4 DEF WriteHistory
<1>CreateAttempt. ASSUME CreateAttempt PROVE ToldOK'
  <2>1. worker.pc = "attempt" /\ worker'.pc = "call" /\ worker'.no = worker.no
        /\ worker'.outcome = worker.outcome /\ Msg' = Msg /\ Msg \in Messages
    BY <1>CreateAttempt, StepEffect DEF CreateAttempt, BeforeCall, AfterCall
  <2>2. UNCHANGED <<jobs, hist, alerts, events>>
    BY <1>CreateAttempt, <2>1 DEF CreateAttempt
  <2>3. QED
    BY <2>1, <2>2, MsgOfType DEF ToldOK, Announced, IsRetryable, RunningOK
<1>CallAdapter. ASSUME CallAdapter PROVE ToldOK'
  <2>1. worker'.pc \in {"sentStatus", "attemptResult"} /\ UNCHANGED <<hist, alerts, events>>
    BY <1>CallAdapter DEF CallAdapter, TypeOK, WorkerOK, rowVars
  <2>2. \A i \in JobIds : jobs'[i].state = jobs[i].state
    BY <1>CallAdapter DEF CallAdapter, CountCall, TypeOK, JobsOK, JobRecords
  <2>3. QED
    BY <2>1, <2>2 DEF ToldOK, Announced
<1>MarkSent. ASSUME MarkSent PROVE ToldOK'
  <2>1. worker.pc = "sentStatus" /\ worker'.pc = "sentHistory" /\ worker'.no = worker.no
        /\ worker'.outcome = worker.outcome /\ Msg' = Msg /\ Msg \in Messages
    BY <1>MarkSent, StepEffect DEF MarkSent, BeforeCall, AfterCall
  <2>2. UNCHANGED <<jobs, hist, alerts, events>>
    BY <1>MarkSent, <2>1 DEF MarkSent
  <2>3. QED
    BY <2>1, <2>2, MsgOfType DEF ToldOK, Announced, IsRetryable, RunningOK
<1>AttemptSent. ASSUME AttemptSent PROVE ToldOK'
  <2>1. worker.pc = "sentAttempt" /\ worker'.pc = "sentEvent" /\ worker'.no = worker.no
        /\ worker'.outcome = worker.outcome /\ Msg' = Msg /\ Msg \in Messages
    BY <1>AttemptSent, StepEffect DEF AttemptSent, BeforeCall, AfterCall
  <2>2. UNCHANGED <<jobs, hist, alerts, events>>
    BY <1>AttemptSent, <2>1 DEF AttemptSent
  <2>3. QED
    BY <2>1, <2>2, MsgOfType DEF ToldOK, Announced, IsRetryable, RunningOK
<1>AttemptResult. ASSUME AttemptResult PROVE ToldOK'
  <2>1. UNCHANGED <<jobs, hist, alerts, events>>
    BY <1>AttemptResult DEF AttemptResult
  <2>2. CASE Step("attemptResult", "failStatus")
    <3>1. worker.pc = "attemptResult" /\ worker'.pc = "failStatus" /\ worker'.no = worker.no
          /\ worker'.outcome = worker.outcome /\ Msg' = Msg /\ Msg \in Messages
      BY <2>2, StepEffect DEF BeforeCall, AfterCall
    <3>2. QED
      BY <2>1, <2>2, <3>1, MsgOfType DEF ToldOK, Announced, IsRetryable, RunningOK
  <2>3. CASE Step("attemptResult", "finish") /\ worker.outcome = "error" /\ IsRetryable
    <3>1. worker.pc = "attemptResult" /\ worker'.pc = "finish" /\ worker'.no = worker.no
          /\ worker'.outcome = worker.outcome /\ Msg' = Msg /\ Msg \in Messages
      BY <2>3, StepEffect DEF BeforeCall, AfterCall
    <3>2. QED
      BY <2>1, <2>3, <3>1, MsgOfType DEF ToldOK, Announced, IsRetryable, RunningOK
  <2>4. QED
    BY <1>AttemptResult, <2>2, <2>3 DEF AttemptResult
<1>MarkFailed. ASSUME MarkFailed PROVE ToldOK'
  <2>1. worker.pc = "failStatus" /\ worker'.pc = "failHistory" /\ worker'.no = worker.no
        /\ worker'.outcome = worker.outcome /\ Msg' = Msg /\ Msg \in Messages
    BY <1>MarkFailed, StepEffect DEF MarkFailed, BeforeCall, AfterCall
  <2>2. UNCHANGED <<jobs, hist, alerts, events>>
    BY <1>MarkFailed, <2>1 DEF MarkFailed
  <2>3. QED
    BY <2>1, <2>2, MsgOfType DEF ToldOK, Announced, IsRetryable, RunningOK
<1>RaiseAlert. ASSUME RaiseAlert PROVE ToldOK'
  <2>1. worker.pc = "failAlert" /\ worker'.pc = "failEvent" /\ worker'.no = worker.no
        /\ worker'.outcome = worker.outcome /\ Msg' = Msg /\ Msg \in Messages
    BY <1>RaiseAlert, StepEffect DEF RaiseAlert, BeforeCall, AfterCall
  <2>2. UNCHANGED <<jobs, hist, events>> /\ alerts' = alerts \cup {Msg}
    BY <1>RaiseAlert, <2>1 DEF RaiseAlert
  <2>3. QED
    BY <2>1, <2>2, MsgOfType DEF ToldOK, Announced, IsRetryable, RunningOK
<1>EmitEvent. ASSUME EmitEvent PROVE ToldOK'
  <2>1. UNCHANGED <<jobs, hist, alerts>>
    BY <1>EmitEvent DEF EmitEvent
  <2>2. CASE Step("sentEvent", "finish") /\ events' = events \cup {<<"message.sent", Msg>>}
    <3>1. worker.pc = "sentEvent" /\ worker'.pc = "finish" /\ worker'.no = worker.no
          /\ worker'.outcome = worker.outcome /\ Msg' = Msg /\ Msg \in Messages
      BY <2>2, StepEffect DEF BeforeCall, AfterCall
    <3>2. QED
      BY <2>1, <2>2, <3>1, MsgOfType DEF ToldOK, Announced, IsRetryable, RunningOK
  <2>3. CASE Step("failEvent", "finish") /\ events' = events \cup {<<"message.failed", Msg>>}
    <3>1. worker.pc = "failEvent" /\ worker'.pc = "finish" /\ worker'.no = worker.no
          /\ worker'.outcome = worker.outcome /\ Msg' = Msg /\ Msg \in Messages
      BY <2>3, StepEffect DEF BeforeCall, AfterCall
    <3>2. QED
      BY <2>1, <2>3, <3>1, MsgOfType DEF ToldOK, Announced, IsRetryable, RunningOK
  <2>4. QED
    BY <1>EmitEvent, <2>2, <2>3 DEF EmitEvent
<1>FinishJob. ASSUME FinishJob PROVE ToldOK'
  <2>1. /\ worker.job \in JobIds /\ jobs[worker.job].state = "active"
        /\ worker.no = jobs[worker.job].made + 1 /\ worker.pc = "finish"
    BY <1>FinishJob DEF FinishJob, RunningOK, TypeOK, WorkerOK
  <2>2. /\ jobs' = [jobs EXCEPT ![worker.job] = Settled(jobs[worker.job])]
        /\ UNCHANGED <<hist, alerts, events>> /\ worker'.pc = "idle"
    BY <1>FinishJob, <2>1 DEF FinishJob, rowVars, IdleWorker
  <2>3. Settled(jobs[worker.job]).state = "failed" => worker.outcome = "error" /\ ~(worker.no < MaxAttempts)
    BY <2>1 DEF Settled, TypeOK, JobsOK, JobRecords
  <2>4. Settled(jobs[worker.job]).state = "failed" => Announced(Msg)
    BY <2>1, <2>3 DEF ToldOK
  <2>5. QED
    BY <2>1, <2>2, <2>4 DEF ToldOK, Announced, Msg, TypeOK, JobsOK
<1>ClaimHistory. ASSUME NEW m \in Messages, ClaimHistory(m) PROVE ToldOK'
  <2>1. /\ UNCHANGED <<jobs, worker, alerts>> /\ events \subseteq events'
        /\ \A o \in Messages : hist[o] \subseteq hist'[o]
    BY <1>ClaimHistory DEF ClaimHistory, AddHistory, TypeOK, RowsOK, HandlersOK
  <2>2. QED
    BY <2>1, MsgOfType, WorkerMsgType DEF ToldOK, Announced, Msg, TypeOK
<1>ClaimEnqueue. ASSUME NEW m \in Messages, ClaimEnqueue(m) PROVE ToldOK'
  <2>1. <<m, 0>> \in JobIds /\ AddJob(<<m, 0>>) /\ UNCHANGED <<worker, hist, alerts, events>>
    BY <1>ClaimEnqueue, JobIdType DEF ClaimEnqueue, rowVars
  <2>2. QED
    BY <2>1, AddEffect DEF ToldOK, Announced, Msg
<1>Reconcile. ASSUME NEW m \in Messages, Reconcile(m) PROVE ToldOK'
  <2>1. <<m, 0>> \in JobIds /\ AddJob(<<m, 0>>) /\ UNCHANGED <<worker, hist, alerts, events>>
    BY <1>Reconcile, JobIdType DEF Reconcile, rowVars
  <2>2. QED
    BY <2>1, AddEffect DEF ToldOK, Announced, Msg
<1>ReportHistory. ASSUME NEW p \in Reporters, ReportHistory(p) PROVE ToldOK'
  <2>1. /\ UNCHANGED <<jobs, worker, alerts>> /\ events \subseteq events'
        /\ \A o \in Messages : hist[o] \subseteq hist'[o]
    BY <1>ReportHistory DEF ReportHistory, AddHistory, TypeOK, RowsOK, HandlersOK
  <2>2. QED
    BY <2>1, MsgOfType, WorkerMsgType DEF ToldOK, Announced, Msg, TypeOK
<1>QED. QED
  BY <1>1, <1>Send, <1>EnqueueSend, <1>RetryTx, <1>CancelTx, <1>CancelRemove, <1>PickUp,
     <1>StalledCheck, <1>MarkDispatching, <1>WriteHistory, <1>CreateAttempt, <1>CallAdapter,
     <1>MarkSent, <1>AttemptSent, <1>AttemptResult, <1>MarkFailed, <1>RaiseAlert,
     <1>EmitEvent, <1>FinishJob, <1>ClaimHistory, <1>ClaimEnqueue, <1>Reconcile,
     <1>ReportHistory DEF CalmNext, ApiNext, ProcessorNext, SchedulerNext, ReportNext,
     RetryRead, rowVars, CancelRead, ReadDue, ClaimDue, SetStatus, ReadStuck, ReportRead,
     ReportUpdate

\* Whoever writes a status writes its history row before it does anything else.
LEMMA HistoryStep ==
  TypeOK /\ HistoryOK /\ CalmNext => HistoryOK'
<1> SUFFICES ASSUME TypeOK /\ HistoryOK, CalmNext PROVE HistoryOK'
  OBVIOUS
<1>1. ASSUME UNCHANGED <<status, hist, worker, claim, report>> PROVE HistoryOK'
  BY <1>1 DEF HistoryOK, Due, Msg
<1>Send. ASSUME NEW r \in Requests, NEW m \in Messages, NEW later \in BOOLEAN, Send(r, m, later)
         PROVE  HistoryOK'
  BY <1>Send DEF Send, SetStatus, AddHistory, HistoryOK, Due, Msg, tickVars, rowVars, TypeOK,
     RowsOK, TicksOK, HandlersOK
<1>RetryTx. ASSUME NEW r \in Requests, RetryTx(r) PROVE HistoryOK'
  BY <1>RetryTx DEF RetryTx, SetStatus, AddHistory, HistoryOK, Due, Msg, tickVars, rowVars,
     TypeOK, RowsOK, TicksOK, HandlersOK
<1>CancelTx. ASSUME NEW r \in Requests, CancelTx(r) PROVE HistoryOK'
  BY <1>CancelTx DEF CancelTx, SetStatus, AddHistory, HistoryOK, Due, Msg, tickVars, rowVars,
     TypeOK, RowsOK, TicksOK, HandlersOK
<1>PickUp. ASSUME NEW j \in JobIds, PickUp(j) PROVE HistoryOK'
  <2>1. worker.pc = "idle" /\ worker'.pc = "load" /\ UNCHANGED <<status, hist, claim, report>>
    BY <1>PickUp DEF PickUp, rowVars, tickVars
  <2>2. QED
    BY <2>1 DEF HistoryOK, Due
<1>MarkDispatching. ASSUME MarkDispatching PROVE HistoryOK'
  <2>1. worker.pc = "load" /\ worker'.pc = "dispatchHistory" /\ worker'.no = worker.no
        /\ worker'.outcome = worker.outcome /\ Msg' = Msg /\ Msg \in Messages
    BY <1>MarkDispatching, StepEffect DEF MarkDispatching, BeforeCall, AfterCall
  <2>2. UNCHANGED <<hist, claim, report>> /\ status'[Msg] = "dispatching" /\ \A o \in Messages \ {Msg} : status'[o] = status[o]
    BY <1>MarkDispatching, <2>1 DEF MarkDispatching, tickVars, SetStatus, TypeOK, RowsOK
  <2>3. QED
    BY <2>1, <2>2, MsgOfType DEF HistoryOK, Due
<1>WriteHistory. ASSUME WriteHistory PROVE HistoryOK'
  <2>1. UNCHANGED <<status, claim, report>>
    BY <1>WriteHistory DEF WriteHistory, tickVars
  <2>2. CASE Step("dispatchHistory", "attempt") /\ AddHistory(Msg, "dispatching")
    <3>1. worker.pc = "dispatchHistory" /\ worker'.pc = "attempt" /\ worker'.no = worker.no
          /\ worker'.outcome = worker.outcome /\ Msg' = Msg /\ Msg \in Messages
      BY <2>2, StepEffect DEF BeforeCall, AfterCall
    <3>2. QED
      BY <2>1, <2>2, <3>1, MsgOfType DEF HistoryOK, Due, AddHistory, TypeOK, RowsOK
  <2>3. CASE Step("sentHistory", "sentAttempt") /\ AddHistory(Msg, "sent")
    <3>1. worker.pc = "sentHistory" /\ worker'.pc = "sentAttempt" /\ worker'.no = worker.no
          /\ worker'.outcome = worker.outcome /\ Msg' = Msg /\ Msg \in Messages
      BY <2>3, StepEffect DEF BeforeCall, AfterCall
    <3>2. QED
      BY <2>1, <2>3, <3>1, MsgOfType DEF HistoryOK, Due, AddHistory, TypeOK, RowsOK
  <2>4. CASE Step("failHistory", "failAlert") /\ AddHistory(Msg, "failed")
    <3>1. worker.pc = "failHistory" /\ worker'.pc = "failAlert" /\ worker'.no = worker.no
          /\ worker'.outcome = worker.outcome /\ Msg' = Msg /\ Msg \in Messages
      BY <2>4, StepEffect DEF BeforeCall, AfterCall
    <3>2. QED
      BY <2>1, <2>4, <3>1, MsgOfType DEF HistoryOK, Due, AddHistory, TypeOK, RowsOK
  <2>5. QED
    BY <1>WriteHistory, <2>2, <2>3, <2>4 DEF WriteHistory
<1>CreateAttempt. ASSUME CreateAttempt PROVE HistoryOK'
  <2>1. worker.pc = "attempt" /\ worker'.pc = "call" /\ worker'.no = worker.no
        /\ worker'.outcome = worker.outcome /\ Msg' = Msg /\ Msg \in Messages
    BY <1>CreateAttempt, StepEffect DEF CreateAttempt, BeforeCall, AfterCall
  <2>2. UNCHANGED <<status, hist, claim, report>>
    BY <1>CreateAttempt, <2>1 DEF CreateAttempt, tickVars
  <2>3. QED
    BY <2>1, <2>2, MsgOfType DEF HistoryOK, Due
<1>CallAdapter. ASSUME CallAdapter PROVE HistoryOK'
  <2>1. worker.pc = "call" /\ worker'.pc \in {"sentStatus", "attemptResult"}
        /\ UNCHANGED <<status, hist, claim, report>>
    BY <1>CallAdapter DEF CallAdapter, rowVars, tickVars, TypeOK, WorkerOK
  <2>2. QED
    BY <2>1 DEF HistoryOK, Due
<1>MarkSent. ASSUME MarkSent PROVE HistoryOK'
  <2>1. worker.pc = "sentStatus" /\ worker'.pc = "sentHistory" /\ worker'.no = worker.no
        /\ worker'.outcome = worker.outcome /\ Msg' = Msg /\ Msg \in Messages
    BY <1>MarkSent, StepEffect DEF MarkSent, BeforeCall, AfterCall
  <2>2. UNCHANGED <<hist, claim, report>> /\ status'[Msg] = "sent" /\ \A o \in Messages \ {Msg} : status'[o] = status[o]
    BY <1>MarkSent, <2>1 DEF MarkSent, tickVars, SetStatus, TypeOK, RowsOK
  <2>3. QED
    BY <2>1, <2>2, MsgOfType DEF HistoryOK, Due
<1>AttemptSent. ASSUME AttemptSent PROVE HistoryOK'
  <2>1. worker.pc = "sentAttempt" /\ worker'.pc = "sentEvent" /\ worker'.no = worker.no
        /\ worker'.outcome = worker.outcome /\ Msg' = Msg /\ Msg \in Messages
    BY <1>AttemptSent, StepEffect DEF AttemptSent, BeforeCall, AfterCall
  <2>2. UNCHANGED <<status, hist, claim, report>>
    BY <1>AttemptSent, <2>1 DEF AttemptSent, tickVars
  <2>3. QED
    BY <2>1, <2>2, MsgOfType DEF HistoryOK, Due
<1>AttemptResult. ASSUME AttemptResult PROVE HistoryOK'
  <2>1. UNCHANGED <<status, hist, claim, report>>
    BY <1>AttemptResult DEF AttemptResult, tickVars
  <2>2. CASE Step("attemptResult", "failStatus")
    <3>1. worker.pc = "attemptResult" /\ worker'.pc = "failStatus" /\ worker'.no = worker.no
          /\ worker'.outcome = worker.outcome /\ Msg' = Msg /\ Msg \in Messages
      BY <2>2, StepEffect DEF BeforeCall, AfterCall
    <3>2. QED
      BY <2>1, <2>2, <3>1, MsgOfType DEF HistoryOK, Due
  <2>3. CASE Step("attemptResult", "finish") /\ worker.outcome = "error" /\ IsRetryable
    <3>1. worker.pc = "attemptResult" /\ worker'.pc = "finish" /\ worker'.no = worker.no
          /\ worker'.outcome = worker.outcome /\ Msg' = Msg /\ Msg \in Messages
      BY <2>3, StepEffect DEF BeforeCall, AfterCall
    <3>2. QED
      BY <2>1, <2>3, <3>1, MsgOfType DEF HistoryOK, Due
  <2>4. QED
    BY <1>AttemptResult, <2>2, <2>3 DEF AttemptResult
<1>MarkFailed. ASSUME MarkFailed PROVE HistoryOK'
  <2>1. worker.pc = "failStatus" /\ worker'.pc = "failHistory" /\ worker'.no = worker.no
        /\ worker'.outcome = worker.outcome /\ Msg' = Msg /\ Msg \in Messages
    BY <1>MarkFailed, StepEffect DEF MarkFailed, BeforeCall, AfterCall
  <2>2. UNCHANGED <<hist, claim, report>> /\ status'[Msg] = "failed" /\ \A o \in Messages \ {Msg} : status'[o] = status[o]
    BY <1>MarkFailed, <2>1 DEF MarkFailed, tickVars, SetStatus, TypeOK, RowsOK
  <2>3. QED
    BY <2>1, <2>2, MsgOfType DEF HistoryOK, Due
<1>RaiseAlert. ASSUME RaiseAlert PROVE HistoryOK'
  <2>1. worker.pc = "failAlert" /\ worker'.pc = "failEvent" /\ worker'.no = worker.no
        /\ worker'.outcome = worker.outcome /\ Msg' = Msg /\ Msg \in Messages
    BY <1>RaiseAlert, StepEffect DEF RaiseAlert, BeforeCall, AfterCall
  <2>2. UNCHANGED <<status, hist, claim, report>>
    BY <1>RaiseAlert, <2>1 DEF RaiseAlert, tickVars
  <2>3. QED
    BY <2>1, <2>2, MsgOfType DEF HistoryOK, Due
<1>EmitEvent. ASSUME EmitEvent PROVE HistoryOK'
  <2>1. UNCHANGED <<status, hist, claim, report>>
    BY <1>EmitEvent DEF EmitEvent, tickVars
  <2>2. CASE Step("sentEvent", "finish") /\ events' = events \cup {<<"message.sent", Msg>>}
    <3>1. worker.pc = "sentEvent" /\ worker'.pc = "finish" /\ worker'.no = worker.no
          /\ worker'.outcome = worker.outcome /\ Msg' = Msg /\ Msg \in Messages
      BY <2>2, StepEffect DEF BeforeCall, AfterCall
    <3>2. QED
      BY <2>1, <2>2, <3>1, MsgOfType DEF HistoryOK, Due
  <2>3. CASE Step("failEvent", "finish") /\ events' = events \cup {<<"message.failed", Msg>>}
    <3>1. worker.pc = "failEvent" /\ worker'.pc = "finish" /\ worker'.no = worker.no
          /\ worker'.outcome = worker.outcome /\ Msg' = Msg /\ Msg \in Messages
      BY <2>3, StepEffect DEF BeforeCall, AfterCall
    <3>2. QED
      BY <2>1, <2>3, <3>1, MsgOfType DEF HistoryOK, Due
  <2>4. QED
    BY <1>EmitEvent, <2>2, <2>3 DEF EmitEvent
<1>FinishJob. ASSUME FinishJob PROVE HistoryOK'
  <2>1. worker.pc = "finish" /\ worker'.pc = "idle" /\ UNCHANGED <<status, hist, claim, report>>
    BY <1>FinishJob DEF FinishJob, rowVars, tickVars, IdleWorker
  <2>2. QED
    BY <2>1 DEF HistoryOK, Due
<1>ClaimDue. ASSUME NEW m \in Messages, ClaimDue(m) PROVE HistoryOK'
  <2>1. UNCHANGED <<hist, worker, report>>
    BY <1>ClaimDue DEF ClaimDue
  <2>2. /\ \A o \in Messages \ {m} : status'[o] = status[o] /\ claim'[o] = claim[o]
        /\ \/ status'[m] = status[m] /\ claim'[m] = claim[m]
           \/ status'[m] = "queued" /\ claim'[m] = "history"
    BY <1>ClaimDue DEF ClaimDue, SetStatus, TypeOK, RowsOK, TicksOK
  <2>3. QED
    BY <2>1, <2>2 DEF HistoryOK, Due, Msg
<1>ClaimHistory. ASSUME NEW m \in Messages, ClaimHistory(m) PROVE HistoryOK'
  BY <1>ClaimHistory DEF ClaimHistory, AddHistory, HistoryOK, Due, Msg, tickVars, rowVars,
     TypeOK, RowsOK, TicksOK, HandlersOK
<1>ClaimEnqueue. ASSUME NEW m \in Messages, ClaimEnqueue(m) PROVE HistoryOK'
  BY <1>ClaimEnqueue DEF ClaimEnqueue, AddJob, HistoryOK, Due, Msg, tickVars, rowVars, TypeOK,
     RowsOK, TicksOK, HandlersOK
<1>ReportRead. ASSUME NEW p \in Reporters, NEW m \in Messages, NEW next \in Reported, ReportRead(p, m, next)
               PROVE  HistoryOK'
  BY <1>ReportRead DEF ReportRead, HistoryOK, Due, Msg, tickVars, rowVars, TypeOK, RowsOK,
     TicksOK, HandlersOK
<1>ReportUpdate. ASSUME NEW p \in Reporters, ReportUpdate(p) PROVE HistoryOK'
  <2>1. UNCHANGED <<hist, worker, claim>>
    BY <1>ReportUpdate DEF ReportUpdate, tickVars
  <2>2. /\ report[p].msg \in Messages /\ report[p].pc = "update"
        /\ status'[report[p].msg] = report[p].next
        /\ \A o \in Messages \ {report[p].msg} : status'[o] = status[o]
    BY <1>ReportUpdate DEF ReportUpdate, SetStatus, TypeOK, RowsOK, HandlersOK
  <2>3. /\ report'[p].pc = "history" /\ report'[p].msg = report[p].msg /\ report'[p].next = report[p].next
        /\ \A q \in Reporters \ {p} : report'[q] = report[q]
    BY <1>ReportUpdate DEF ReportUpdate, TypeOK, HandlersOK
  <2>4. \A o \in Messages, s \in Statuses : Due(o, s) => Due(o, s)'
    BY <2>1, <2>2, <2>3 DEF Due, Msg
  <2>5. Due(report[p].msg, report[p].next)'
    BY <2>3 DEF Due
  <2>6. \A o \in Messages : status[o] \in Statuses
    BY DEF TypeOK, RowsOK
  <2>7. QED
    BY <2>1, <2>2, <2>3, <2>4, <2>5, <2>6 DEF HistoryOK, Due, Msg
<1>ReportHistory. ASSUME NEW p \in Reporters, ReportHistory(p) PROVE HistoryOK'
  BY <1>ReportHistory DEF ReportHistory, AddHistory, IdleReporter, HistoryOK, Due, Msg,
     tickVars, rowVars, TypeOK, RowsOK, TicksOK, HandlersOK
<1>QED. QED
  BY <1>1, <1>Send, <1>RetryTx, <1>CancelTx, <1>PickUp, <1>MarkDispatching, <1>WriteHistory,
     <1>CreateAttempt, <1>CallAdapter, <1>MarkSent, <1>AttemptSent, <1>AttemptResult,
     <1>MarkFailed, <1>RaiseAlert, <1>EmitEvent, <1>FinishJob, <1>ClaimDue, <1>ClaimHistory,
     <1>ClaimEnqueue, <1>ReportRead, <1>ReportUpdate, <1>ReportHistory DEF CalmNext, ApiNext,
     ProcessorNext, SchedulerNext, ReportNext, EnqueueSend, AddJob, rowVars, tickVars,
     RetryRead, CancelRead, CancelRemove, RemoveJob, StalledCheck, ReadDue, ReadStuck,
     Reconcile

\* A job exists only for a retry that has been counted.
LEMMA NumbersStep ==
  TypeOK /\ NumbersOK /\ CalmNext => NumbersOK'
<1> SUFFICES ASSUME TypeOK /\ NumbersOK, CalmNext PROVE NumbersOK'
  OBVIOUS
<1>1. ASSUME UNCHANGED <<jobs, api, used>> PROVE NumbersOK'
  BY <1>1 DEF NumbersOK
<1>Send. ASSUME NEW r \in Requests, NEW m \in Messages, NEW later \in BOOLEAN, Send(r, m, later)
         PROVE  NumbersOK'
  <2>1. UNCHANGED <<jobs, used>> /\ \A q \in Requests : api'[q].sfx \in {0, api[q].sfx}
    BY <1>Send DEF Send, TypeOK, HandlersOK
  <2>2. QED
    BY <2>1 DEF NumbersOK, TypeOK, CountersOK
<1>EnqueueSend. ASSUME NEW r \in Requests, EnqueueSend(r) PROVE NumbersOK'
  <2> DEFINE j == <<api[r].msg, api[r].sfx>>
  <2>1. j \in JobIds /\ j[2] = api[r].sfx /\ AddJob(j) /\ UNCHANGED used
    BY <1>EnqueueSend, JobIdType DEF EnqueueSend, TypeOK, HandlersOK
  <2>2. api' = [api EXCEPT ![r] = IdleRequest] /\ IdleRequest.sfx = 0
    BY <1>EnqueueSend DEF EnqueueSend, IdleRequest
  <2> HIDE DEF j
  <2>3. \A i \in JobIds : jobs'[i].state # "absent" => i[2] <= used.retry
    BY <2>1, AddEffect DEF NumbersOK
  <2>4. QED
    BY <2>1, <2>2, <2>3 DEF NumbersOK, TypeOK, HandlersOK, CountersOK
<1>RetryRead. ASSUME NEW r \in Requests, NEW m \in Messages, RetryRead(r, m) PROVE NumbersOK'
  <2>1. UNCHANGED jobs /\ used'.retry = used.retry + 1 /\ used.retry \in Nat
    BY <1>RetryRead DEF RetryRead, TypeOK, CountersOK
  <2>2. \A q \in Requests : api'[q].sfx \in {used.retry + 1, api[q].sfx} /\ api[q].sfx \in Nat
    BY <1>RetryRead DEF RetryRead, TypeOK, HandlersOK
  <2>3. \A i \in JobIds : i[2] \in Nat
    BY DEF JobIds
  <2>4. QED
    BY <2>1, <2>2, <2>3 DEF NumbersOK
<1>RetryTx. ASSUME NEW r \in Requests, RetryTx(r) PROVE NumbersOK'
  <2>1. UNCHANGED <<jobs, used>> /\ \A q \in Requests : api'[q].sfx = api[q].sfx
    BY <1>RetryTx DEF RetryTx, TypeOK, HandlersOK
  <2>2. QED
    BY <2>1 DEF NumbersOK
<1>CancelRead. ASSUME NEW r \in Requests, NEW m \in Messages, CancelRead(r, m) PROVE NumbersOK'
  <2>1. UNCHANGED jobs /\ used'.retry = used.retry /\ \A q \in Requests : api'[q].sfx \in {0, api[q].sfx}
    BY <1>CancelRead DEF CancelRead, TypeOK, CountersOK, HandlersOK
  <2>2. QED
    BY <2>1 DEF NumbersOK, TypeOK, CountersOK
<1>CancelTx. ASSUME NEW r \in Requests, CancelTx(r) PROVE NumbersOK'
  <2>1. UNCHANGED <<jobs, used>> /\ \A q \in Requests : api'[q].sfx = api[q].sfx
    BY <1>CancelTx DEF CancelTx, TypeOK, HandlersOK
  <2>2. QED
    BY <2>1 DEF NumbersOK
<1>CancelRemove. ASSUME NEW r \in Requests, CancelRemove(r) PROVE NumbersOK'
  <2> DEFINE j == <<api[r].msg, 0>>
  <2>1. j \in JobIds /\ UNCHANGED used
    BY <1>CancelRemove, JobIdType DEF CancelRemove, TypeOK, HandlersOK
  <2>2. NoJob.state = "absent" /\ IdleRequest.sfx = 0
    BY DEF NoJob, IdleRequest
  <2>3. UNCHANGED jobs \/ jobs' = [jobs EXCEPT ![j] = NoJob]
    BY <1>CancelRemove DEF CancelRemove, RemoveJob
  <2>4. api' = [api EXCEPT ![r] = IdleRequest]
    BY <1>CancelRemove DEF CancelRemove
  <2> HIDE DEF j
  <2>5. \A i \in JobIds : jobs'[i].state # "absent" => i[2] <= used.retry
    BY <2>1, <2>2, <2>3 DEF NumbersOK, TypeOK, JobsOK
  <2>6. QED
    BY <2>1, <2>2, <2>4, <2>5 DEF NumbersOK, TypeOK, HandlersOK, CountersOK
<1>PickUp. ASSUME NEW j \in JobIds, PickUp(j) PROVE NumbersOK'
  <2>1. UNCHANGED <<api, used>>
    BY <1>PickUp DEF PickUp
  <2>2. \A i \in JobIds : jobs'[i].state = jobs[i].state \/ jobs[i].state # "absent"
    BY <1>PickUp DEF PickUp, TypeOK, JobsOK, JobRecords, WorkerOK
  <2>3. QED
    BY <2>1, <2>2 DEF NumbersOK
<1>StalledCheck. ASSUME NEW j \in JobIds, StalledCheck(j) PROVE NumbersOK'
  <2>1. UNCHANGED <<api, used>>
    BY <1>StalledCheck DEF StalledCheck
  <2>2. \A i \in JobIds : jobs'[i].state = jobs[i].state \/ jobs[i].state # "absent"
    BY <1>StalledCheck DEF StalledCheck, TypeOK, JobsOK, JobRecords, WorkerOK
  <2>3. QED
    BY <2>1, <2>2 DEF NumbersOK
<1>CallAdapter. ASSUME CallAdapter PROVE NumbersOK'
  <2>1. UNCHANGED <<api, used>>
    BY <1>CallAdapter DEF CallAdapter
  <2>2. \A i \in JobIds : jobs'[i].state = jobs[i].state \/ jobs[i].state # "absent"
    BY <1>CallAdapter DEF CallAdapter, CountCall, TypeOK, JobsOK, JobRecords, WorkerOK
  <2>3. QED
    BY <2>1, <2>2 DEF NumbersOK
<1>FinishJob. ASSUME FinishJob PROVE NumbersOK'
  <2>1. UNCHANGED <<api, used>>
    BY <1>FinishJob DEF FinishJob
  <2>2. \A i \in JobIds : jobs'[i].state = jobs[i].state \/ jobs[i].state # "absent"
    BY <1>FinishJob DEF FinishJob, Settled, TypeOK, JobsOK, JobRecords, WorkerOK
  <2>3. QED
    BY <2>1, <2>2 DEF NumbersOK
<1>ClaimEnqueue. ASSUME NEW m \in Messages, ClaimEnqueue(m) PROVE NumbersOK'
  <2> DEFINE j == <<m, 0>>
  <2>1. j \in JobIds /\ j[2] = 0 /\ AddJob(j) /\ UNCHANGED <<api, used>>
    BY <1>ClaimEnqueue, JobIdType DEF ClaimEnqueue
  <2> HIDE DEF j
  <2>2. \A i \in JobIds : jobs'[i].state # "absent" => i[2] <= used.retry
    BY <2>1, AddEffect DEF NumbersOK, TypeOK, CountersOK
  <2>3. QED
    BY <2>1, <2>2 DEF NumbersOK
<1>Reconcile. ASSUME NEW m \in Messages, Reconcile(m) PROVE NumbersOK'
  <2> DEFINE j == <<m, 0>>
  <2>1. j \in JobIds /\ j[2] = 0 /\ AddJob(j) /\ UNCHANGED <<api, used>>
    BY <1>Reconcile, JobIdType DEF Reconcile
  <2> HIDE DEF j
  <2>2. \A i \in JobIds : jobs'[i].state # "absent" => i[2] <= used.retry
    BY <2>1, AddEffect DEF NumbersOK, TypeOK, CountersOK
  <2>3. QED
    BY <2>1, <2>2 DEF NumbersOK
<1>ReportRead. ASSUME NEW p \in Reporters, NEW m \in Messages, NEW next \in Reported, ReportRead(p, m, next)
               PROVE  NumbersOK'
  <2>1. UNCHANGED <<jobs, api>> /\ used'.retry = used.retry
    BY <1>ReportRead DEF ReportRead, TypeOK, CountersOK
  <2>2. QED
    BY <2>1 DEF NumbersOK
<1>QED. QED
  BY <1>1, <1>Send, <1>EnqueueSend, <1>RetryRead, <1>RetryTx, <1>CancelRead, <1>CancelTx,
     <1>CancelRemove, <1>PickUp, <1>StalledCheck, <1>CallAdapter, <1>FinishJob,
     <1>ClaimEnqueue, <1>Reconcile, <1>ReportRead DEF CalmNext, ApiNext, ProcessorNext,
     SchedulerNext, ReportNext, MarkDispatching, Step, SetStatus, WriteHistory, AddHistory,
     CreateAttempt, MarkSent, AttemptSent, SetResult, AttemptResult, IsRetryable, MarkFailed,
     RaiseAlert, EmitEvent, ReadDue, ClaimDue, ClaimHistory, ReadStuck, ReportUpdate,
     ReportHistory, IdleReporter

\* The jobs that can still send a message are finitely many.
LEMMA UnspentFinite ==
  ASSUME TypeOK, NEW m \in Messages
  PROVE  IsFiniteSet(Unspent(m)) /\ Cardinality(Unspent(m)) \in Nat
<1>1. used.retry \in Nat
  BY DEF TypeOK, CountersOK
<1>2. 0 \in Int /\ used.retry \in Int
  BY <1>1
<1>3. IsFiniteSet(0..used.retry)
  BY <1>2, FS_Interval
<1>4. QED
  BY <1>3, FS_Subset, FS_CardinalityType DEF Unspent

\* A step that counts nothing and makes no spent job unspent keeps the account.
LEMMA CopiesKept ==
  ASSUME TypeOK, TypeOK', CopiesOK, used'.retry = used.retry, used'.cancel = used.cancel, UNCHANGED accepted,
         Cancelling' = Cancelling, \A j \in JobIds : Spent(j) => Spent(j)'
  PROVE  CopiesOK'
<1>1. IsFiniteSet(Cancelling) /\ Cardinality(Cancelling) \in Nat
  BY FS_CardinalityType DEF CopiesOK
<1>2. ASSUME NEW m \in Messages
      PROVE  accepted'[m] + Cardinality(Unspent(m))' + Cardinality(Cancelling)' <= 1 + used'.retry + used'.cancel
  <2>1. Unspent(m)' \subseteq Unspent(m)
    BY DEF Unspent, JobIds, TypeOK, CountersOK
  <2>2. Cardinality(Unspent(m)') <= Cardinality(Unspent(m))
    BY <2>1, UnspentFinite, FS_Subset
  <2>3. accepted[m] + Cardinality(Unspent(m)) + Cardinality(Cancelling) <= 1 + used.retry + used.cancel
    BY DEF CopiesOK
  <2>4. Cardinality(Unspent(m)) \in Nat /\ Cardinality(Unspent(m)') \in Nat
    BY <2>1, UnspentFinite, FS_Subset, FS_CardinalityType
  <2>5. accepted'[m] = accepted[m] /\ accepted[m] \in Nat /\ Cardinality(Cancelling') = Cardinality(Cancelling)
        /\ used.retry \in Nat /\ used.cancel \in Nat
    BY DEF TypeOK, CountersOK
  <2> HIDE DEF Unspent, Cancelling
  <2>6. QED
    BY <1>1, <2>2, <2>3, <2>4, <2>5
<1>3. QED
  BY <1>1, <1>2 DEF CopiesOK

\* The provider's copies, the jobs that can still make one and the cancellations under way
\* together never exceed what was asked for.
LEMMA CopiesStep ==
  TypeOK /\ TypeOK' /\ RunningOK /\ NumbersOK /\ CopiesOK /\ CalmNext => CopiesOK'
<1> SUFFICES ASSUME TypeOK /\ TypeOK' /\ RunningOK /\ NumbersOK /\ CopiesOK, CalmNext
             PROVE  CopiesOK'
  OBVIOUS
<1>1. ASSUME UNCHANGED <<jobs, api, used, worker, accepted>> PROVE CopiesOK'
  BY <1>1 DEF CopiesOK, Cancelling, Unspent, Spent, Held
<1>Send. ASSUME NEW r \in Requests, NEW m \in Messages, NEW later \in BOOLEAN, Send(r, m, later)
         PROVE  CopiesOK'
  <2>1. used'.retry = used.retry /\ used'.cancel = used.cancel /\ UNCHANGED accepted
    BY <1>Send DEF Send, TypeOK, CountersOK
  <2>2. Cancelling' = Cancelling
    BY <1>Send DEF Send, Cancelling, IdleRequest, TypeOK, HandlersOK
  <2>3. \A j \in JobIds : Spent(j) => Spent(j)'
    BY <1>Send DEF Send, Spent, Held
  <2>9. QED
    BY <2>1, <2>2, <2>3, CopiesKept
<1>EnqueueSend. ASSUME NEW r \in Requests, EnqueueSend(r) PROVE CopiesOK'
  <2>1. used'.retry = used.retry /\ used'.cancel = used.cancel /\ UNCHANGED accepted
    BY <1>EnqueueSend DEF EnqueueSend, TypeOK, CountersOK
  <2>2. Cancelling' = Cancelling
    BY <1>EnqueueSend DEF EnqueueSend, Cancelling, IdleRequest, TypeOK, HandlersOK
  <2>3. \A i \in JobIds : Spent(i) => Spent(i)'
    <3> DEFINE j == <<api[r].msg, api[r].sfx>>
    <3>1. j \in JobIds /\ AddJob(j) /\ UNCHANGED worker
      BY <1>EnqueueSend, JobIdType DEF EnqueueSend, TypeOK, HandlersOK
    <3> HIDE DEF j
    <3>2. QED
      BY <3>1, AddEffect DEF Spent, Held
  <2>9. QED
    BY <2>1, <2>2, <2>3, CopiesKept
<1>RetryRead. ASSUME NEW r \in Requests, NEW m \in Messages, RetryRead(r, m) PROVE CopiesOK'
  <2>F. IsFiniteSet(Cancelling) /\ Cardinality(Cancelling) \in Nat
    BY FS_CardinalityType DEF CopiesOK
  <2>N. used.retry \in Nat /\ used.cancel \in Nat /\ \A o \in Messages : accepted[o] \in Nat
    BY DEF TypeOK, CountersOK
  <2>1. used'.retry = used.retry + 1 /\ used'.cancel = used.cancel /\ UNCHANGED <<accepted, jobs, worker>>
    BY <1>RetryRead DEF RetryRead, TypeOK, CountersOK
  <2>2. Cancelling' = Cancelling
    BY <1>RetryRead DEF RetryRead, Cancelling, TypeOK, HandlersOK
  <2>3. ASSUME NEW o \in Messages
        PROVE  accepted'[o] + Cardinality(Unspent(o))' + Cardinality(Cancelling)' <= 1 + used'.retry + used'.cancel
    <3>1. Unspent(o)' \subseteq Unspent(o) \cup {used.retry + 1} /\ used.retry + 1 \notin Unspent(o)
      BY <2>1, <2>N DEF Unspent, Spent, Held
    <3>2. /\ IsFiniteSet(Unspent(o) \cup {used.retry + 1})
          /\ Cardinality(Unspent(o) \cup {used.retry + 1}) = Cardinality(Unspent(o)) + 1
      BY <3>1, UnspentFinite, FS_AddElement
    <3>3. Cardinality(Unspent(o)') <= Cardinality(Unspent(o)) + 1
      BY <3>1, <3>2, FS_Subset
    <3>4. accepted[o] + Cardinality(Unspent(o)) + Cardinality(Cancelling) <= 1 + used.retry + used.cancel
      BY DEF CopiesOK
    <3>5. Cardinality(Unspent(o)) \in Nat /\ Cardinality(Unspent(o)') \in Nat
      BY <3>1, <3>2, UnspentFinite, FS_Subset, FS_CardinalityType
    <3> HIDE DEF Unspent, Cancelling
    <3>6. QED
      BY <2>1, <2>2, <2>F, <2>N, <3>3, <3>4, <3>5
  <2>4. QED
    BY <2>2, <2>3, <2>F DEF CopiesOK
<1>RetryTx. ASSUME NEW r \in Requests, RetryTx(r) PROVE CopiesOK'
  <2>1. used'.retry = used.retry /\ used'.cancel = used.cancel /\ UNCHANGED accepted
    BY <1>RetryTx DEF RetryTx, TypeOK, CountersOK
  <2>2. Cancelling' = Cancelling
    BY <1>RetryTx DEF RetryTx, Cancelling, IdleRequest, TypeOK, HandlersOK
  <2>3. \A j \in JobIds : Spent(j) => Spent(j)'
    BY <1>RetryTx DEF RetryTx, Spent, Held
  <2>9. QED
    BY <2>1, <2>2, <2>3, CopiesKept
<1>CancelRead. ASSUME NEW r \in Requests, NEW m \in Messages, CancelRead(r, m) PROVE CopiesOK'
  <2>F. IsFiniteSet(Cancelling) /\ Cardinality(Cancelling) \in Nat
    BY FS_CardinalityType DEF CopiesOK
  <2>N. used.retry \in Nat /\ used.cancel \in Nat /\ \A o \in Messages : accepted[o] \in Nat
    BY DEF TypeOK, CountersOK
  <2>1. used'.retry = used.retry /\ used'.cancel = used.cancel + 1 /\ UNCHANGED <<accepted, jobs, worker>>
    BY <1>CancelRead DEF CancelRead, TypeOK, CountersOK
  <2>2. Cancelling' = Cancelling \cup {r} /\ r \notin Cancelling
    BY <1>CancelRead DEF CancelRead, Cancelling, TypeOK, HandlersOK
  <2>3. IsFiniteSet(Cancelling') /\ Cardinality(Cancelling') = Cardinality(Cancelling) + 1
    BY <2>2, <2>F, FS_AddElement
  <2>4. ASSUME NEW o \in Messages
        PROVE  accepted'[o] + Cardinality(Unspent(o))' + Cardinality(Cancelling)' <= 1 + used'.retry + used'.cancel
    <3>1. Unspent(o)' = Unspent(o)
      BY <2>1 DEF Unspent, Spent, Held
    <3>2. accepted[o] + Cardinality(Unspent(o)) + Cardinality(Cancelling) <= 1 + used.retry + used.cancel
      BY DEF CopiesOK
    <3>3. Cardinality(Unspent(o)) \in Nat
      BY UnspentFinite
    <3> HIDE DEF Unspent, Cancelling
    <3>4. QED
      BY <2>1, <2>3, <2>F, <2>N, <3>1, <3>2, <3>3
  <2>5. QED
    BY <2>3, <2>4 DEF CopiesOK
<1>CancelTx. ASSUME NEW r \in Requests, CancelTx(r) PROVE CopiesOK'
  <2>1. used'.retry = used.retry /\ used'.cancel = used.cancel /\ UNCHANGED accepted
    BY <1>CancelTx DEF CancelTx, TypeOK, CountersOK
  <2>2. Cancelling' = Cancelling
    BY <1>CancelTx DEF CancelTx, Cancelling, IdleRequest, TypeOK, HandlersOK
  <2>3. \A j \in JobIds : Spent(j) => Spent(j)'
    BY <1>CancelTx DEF CancelTx, Spent, Held
  <2>9. QED
    BY <2>1, <2>2, <2>3, CopiesKept
<1>CancelRemove. ASSUME NEW r \in Requests, CancelRemove(r) PROVE CopiesOK'
  <2>F. IsFiniteSet(Cancelling) /\ Cardinality(Cancelling) \in Nat
    BY FS_CardinalityType DEF CopiesOK
  <2>N. used.retry \in Nat /\ used.cancel \in Nat /\ \A o \in Messages : accepted[o] \in Nat
    BY DEF TypeOK, CountersOK
  <2>1. UNCHANGED <<used, accepted, worker>> /\ api[r].msg \in Messages
    BY <1>CancelRemove DEF CancelRemove, TypeOK, HandlersOK
  <2>2. Cancelling' = Cancelling \ {r} /\ r \in Cancelling
    BY <1>CancelRemove DEF CancelRemove, Cancelling, IdleRequest, TypeOK, HandlersOK
  <2>3. IsFiniteSet(Cancelling') /\ Cardinality(Cancelling') = Cardinality(Cancelling) - 1
    BY <2>2, <2>F, FS_RemoveElement
  <2>4. \A i \in JobIds : i[2] # 0 => jobs'[i] = jobs[i]
    <3>1. <<api[r].msg, 0>> \in JobIds /\ <<api[r].msg, 0>>[2] = 0
      BY <2>1, JobIdType
    <3>2. QED
      BY <1>CancelRemove, <3>1 DEF CancelRemove, RemoveJob, TypeOK, JobsOK
  <2>5. ASSUME NEW o \in Messages
        PROVE  accepted'[o] + Cardinality(Unspent(o))' + Cardinality(Cancelling)' <= 1 + used'.retry + used'.cancel
    <3>1. Unspent(o)' \subseteq Unspent(o) \cup {0}
      BY <2>1, <2>4 DEF Unspent, Spent, Held, JobIds, TypeOK, CountersOK
    <3>2. /\ IsFiniteSet(Unspent(o) \cup {0})
          /\ Cardinality(Unspent(o) \cup {0}) <= Cardinality(Unspent(o)) + 1
      <4>1. IsFiniteSet(Unspent(o)) /\ Cardinality(Unspent(o)) \in Nat
        BY UnspentFinite
      <4>2. /\ IsFiniteSet(Unspent(o) \cup {0})
            /\ Cardinality(Unspent(o) \cup {0}) \in {Cardinality(Unspent(o)), Cardinality(Unspent(o)) + 1}
        BY <4>1, FS_AddElement
      <4>3. QED
        BY <4>1, <4>2
    <3>3. Cardinality(Unspent(o)') <= Cardinality(Unspent(o) \cup {0})
      BY <3>1, <3>2, FS_Subset
    <3>4. accepted[o] + Cardinality(Unspent(o)) + Cardinality(Cancelling) <= 1 + used.retry + used.cancel
      BY DEF CopiesOK
    <3>5. Cardinality(Unspent(o)) \in Nat /\ Cardinality(Unspent(o)') \in Nat /\ Cardinality(Unspent(o) \cup {0}) \in Nat
      BY <3>1, <3>2, UnspentFinite, FS_Subset, FS_CardinalityType
    <3> HIDE DEF Unspent, Cancelling
    <3>6. QED
      BY <2>1, <2>3, <2>F, <2>N, <3>2, <3>3, <3>4, <3>5
  <2>6. QED
    BY <2>3, <2>5 DEF CopiesOK
<1>PickUp. ASSUME NEW j \in JobIds, PickUp(j) PROVE CopiesOK'
  <2>1. used'.retry = used.retry /\ used'.cancel = used.cancel /\ UNCHANGED accepted
    BY <1>PickUp DEF PickUp, TypeOK, CountersOK
  <2>2. Cancelling' = Cancelling
    BY <1>PickUp DEF PickUp, Cancelling
  <2>3. \A i \in JobIds : Spent(i) => Spent(i)'
    <3>1. worker.pc = "idle" /\ jobs[j].state = "wait" /\ \A i \in JobIds \ {j} : jobs'[i] = jobs[i]
      BY <1>PickUp DEF PickUp, TypeOK, JobsOK
    <3>2. QED
      BY <3>1 DEF Spent, Held
  <2>9. QED
    BY <2>1, <2>2, <2>3, CopiesKept
<1>StalledCheck. ASSUME NEW j \in JobIds, StalledCheck(j) PROVE CopiesOK'
  BY <1>StalledCheck DEF StalledCheck, RunningOK
<1>MarkDispatching. ASSUME MarkDispatching PROVE CopiesOK'
  <2>1. used'.retry = used.retry /\ used'.cancel = used.cancel /\ UNCHANGED accepted
    BY <1>MarkDispatching DEF MarkDispatching, TypeOK, CountersOK
  <2>2. Cancelling' = Cancelling
    BY <1>MarkDispatching DEF MarkDispatching, Cancelling
  <2>3. \A j \in JobIds : Spent(j) => Spent(j)'
    BY <1>MarkDispatching, StepEffect DEF MarkDispatching, Spent, Held, BeforeCall, AfterCall
  <2>9. QED
    BY <2>1, <2>2, <2>3, CopiesKept
<1>WriteHistory. ASSUME WriteHistory PROVE CopiesOK'
  <2>1. used'.retry = used.retry /\ used'.cancel = used.cancel /\ UNCHANGED accepted
    BY <1>WriteHistory DEF WriteHistory, TypeOK, CountersOK
  <2>2. Cancelling' = Cancelling
    BY <1>WriteHistory DEF WriteHistory, Cancelling
  <2>3. \A j \in JobIds : Spent(j) => Spent(j)'
    BY <1>WriteHistory, StepEffect DEF WriteHistory, Spent, Held, BeforeCall, AfterCall
  <2>9. QED
    BY <2>1, <2>2, <2>3, CopiesKept
<1>CreateAttempt. ASSUME CreateAttempt PROVE CopiesOK'
  <2>1. used'.retry = used.retry /\ used'.cancel = used.cancel /\ UNCHANGED accepted
    BY <1>CreateAttempt DEF CreateAttempt, TypeOK, CountersOK
  <2>2. Cancelling' = Cancelling
    BY <1>CreateAttempt DEF CreateAttempt, Cancelling
  <2>3. \A j \in JobIds : Spent(j) => Spent(j)'
    BY <1>CreateAttempt, StepEffect DEF CreateAttempt, Spent, Held, BeforeCall, AfterCall
  <2>9. QED
    BY <2>1, <2>2, <2>3, CopiesKept
<1>CallAdapter. ASSUME CallAdapter PROVE CopiesOK'
  <2> DEFINE j == worker.job
  <2>1. /\ j \in JobIds /\ jobs[j].state = "active" /\ worker.outcome = "none" /\ Held(j)
        /\ \A i \in JobIds : jobs'[i].state = jobs[i].state
    BY <1>CallAdapter DEF CallAdapter, RunningOK, TypeOK, WorkerOK, BeforeCall, CountCall,
       JobsOK, JobRecords, Held
  <2>2. Cancelling' = Cancelling
    BY <1>CallAdapter DEF CallAdapter, Cancelling
  <2>3. \A i \in JobIds : Spent(i) => Spent(i)'
    BY <2>1 DEF Spent, Held
  <2>4. CASE UNCHANGED accepted
    BY <1>CallAdapter, <2>2, <2>3, <2>4, CopiesKept DEF CallAdapter
  <2>5. CASE accepted' = [accepted EXCEPT ![Msg] = @ + 1] /\ worker' = [worker EXCEPT !.pc = "sentStatus", !.outcome = "accepted"]
    <3>F. IsFiniteSet(Cancelling) /\ Cardinality(Cancelling) \in Nat
      BY FS_CardinalityType DEF CopiesOK
    <3>N. used.retry \in Nat /\ used.cancel \in Nat /\ UNCHANGED used
      BY <1>CallAdapter DEF CallAdapter, TypeOK, CountersOK
    <3>1. worker'.pc = "sentStatus" /\ worker'.outcome = "accepted" /\ worker'.job = j
      BY <2>5 DEF TypeOK, WorkerOK
    <3>2. Msg \in Messages /\ j[2] \in 0..used.retry /\ j = <<Msg, j[2]>>
      BY <2>1 DEF NumbersOK, Msg, MsgOf, JobIds, TypeOK, CountersOK
    <3>3. j[2] \in Unspent(Msg)
      BY <2>1, <3>2 DEF Unspent, Spent
    <3>4. \A o \in Messages : Unspent(o)' \subseteq Unspent(o)
      BY <2>3, <3>N DEF Unspent, JobIds, TypeOK, CountersOK
    <3>5. j[2] \notin Unspent(Msg)'
      <4>1. Msg' = Msg
        BY <3>1 DEF Msg
      <4>2. QED
        BY <3>1, <3>2, <4>1 DEF Unspent, Spent, Held
    <3>6. Cardinality(Unspent(Msg)) = Cardinality(Unspent(Msg) \ {j[2]}) + 1 /\ IsFiniteSet(Unspent(Msg) \ {j[2]})
      <4>1. IsFiniteSet(Unspent(Msg)) /\ Cardinality(Unspent(Msg)) \in Nat
        BY <3>2, UnspentFinite
      <4> HIDE DEF j
      <4>2. /\ IsFiniteSet(Unspent(Msg) \ {j[2]})
            /\ Cardinality(Unspent(Msg) \ {j[2]}) = Cardinality(Unspent(Msg)) - 1
        BY <3>3, <4>1, FS_RemoveElement
      <4>3. QED
        BY <4>1, <4>2
    <3> HIDE DEF j
    <3>7. ASSUME NEW o \in Messages
          PROVE  accepted'[o] + Cardinality(Unspent(o))' + Cardinality(Cancelling)' <= 1 + used'.retry + used'.cancel
      <4>1. accepted[o] + Cardinality(Unspent(o)) + Cardinality(Cancelling) <= 1 + used.retry + used.cancel
        BY DEF CopiesOK
      <4>2. Cardinality(Unspent(o)) \in Nat /\ Cardinality(Unspent(o)') \in Nat /\ accepted[o] \in Nat
            /\ Cardinality(Unspent(o)') <= Cardinality(Unspent(o))
        BY <3>4, UnspentFinite, FS_Subset, FS_CardinalityType DEF TypeOK, CountersOK
      <4>3. CASE o = Msg
        <5>0. Unspent(o)' \subseteq Unspent(o) \ {j[2]}
          <6>1. Msg' = Msg
            BY <3>1 DEF Msg, j
          <6>2. QED
            BY <3>4, <3>5, <6>1, <4>3 DEF Unspent
        <5>1. Cardinality(Unspent(o)') + 1 <= Cardinality(Unspent(o))
          BY <5>0, <3>6, <4>2, <4>3, FS_Subset, FS_CardinalityType
        <5>2. accepted'[o] = accepted[o] + 1
          BY <2>5, <4>3 DEF TypeOK, CountersOK
        <5> HIDE DEF Unspent, Cancelling
        <5>3. QED
          BY <2>2, <3>F, <3>N, <4>1, <4>2, <5>1, <5>2
      <4>4. CASE o # Msg
        <5>1. accepted'[o] = accepted[o]
          BY <2>5, <4>4 DEF TypeOK, CountersOK
        <5> HIDE DEF Unspent, Cancelling
        <5>2. QED
          BY <2>2, <3>F, <3>N, <4>1, <4>2, <5>1
      <4>5. QED
        BY <4>3, <4>4
    <3>8. QED
      BY <2>2, <3>7, <3>F DEF CopiesOK
  <2>6. QED
    BY <1>CallAdapter, <2>4, <2>5 DEF CallAdapter
<1>MarkSent. ASSUME MarkSent PROVE CopiesOK'
  <2>1. used'.retry = used.retry /\ used'.cancel = used.cancel /\ UNCHANGED accepted
    BY <1>MarkSent DEF MarkSent, TypeOK, CountersOK
  <2>2. Cancelling' = Cancelling
    BY <1>MarkSent DEF MarkSent, Cancelling
  <2>3. \A j \in JobIds : Spent(j) => Spent(j)'
    BY <1>MarkSent, StepEffect DEF MarkSent, Spent, Held, BeforeCall, AfterCall
  <2>9. QED
    BY <2>1, <2>2, <2>3, CopiesKept
<1>AttemptSent. ASSUME AttemptSent PROVE CopiesOK'
  <2>1. used'.retry = used.retry /\ used'.cancel = used.cancel /\ UNCHANGED accepted
    BY <1>AttemptSent DEF AttemptSent, TypeOK, CountersOK
  <2>2. Cancelling' = Cancelling
    BY <1>AttemptSent DEF AttemptSent, Cancelling
  <2>3. \A j \in JobIds : Spent(j) => Spent(j)'
    BY <1>AttemptSent, StepEffect DEF AttemptSent, Spent, Held, BeforeCall, AfterCall
  <2>9. QED
    BY <2>1, <2>2, <2>3, CopiesKept
<1>AttemptResult. ASSUME AttemptResult PROVE CopiesOK'
  <2>1. used'.retry = used.retry /\ used'.cancel = used.cancel /\ UNCHANGED accepted
    BY <1>AttemptResult DEF AttemptResult, TypeOK, CountersOK
  <2>2. Cancelling' = Cancelling
    BY <1>AttemptResult DEF AttemptResult, Cancelling
  <2>3. \A j \in JobIds : Spent(j) => Spent(j)'
    BY <1>AttemptResult, StepEffect DEF AttemptResult, Spent, Held, BeforeCall, AfterCall
  <2>9. QED
    BY <2>1, <2>2, <2>3, CopiesKept
<1>MarkFailed. ASSUME MarkFailed PROVE CopiesOK'
  <2>1. used'.retry = used.retry /\ used'.cancel = used.cancel /\ UNCHANGED accepted
    BY <1>MarkFailed DEF MarkFailed, TypeOK, CountersOK
  <2>2. Cancelling' = Cancelling
    BY <1>MarkFailed DEF MarkFailed, Cancelling
  <2>3. \A j \in JobIds : Spent(j) => Spent(j)'
    BY <1>MarkFailed, StepEffect DEF MarkFailed, Spent, Held, BeforeCall, AfterCall
  <2>9. QED
    BY <2>1, <2>2, <2>3, CopiesKept
<1>RaiseAlert. ASSUME RaiseAlert PROVE CopiesOK'
  <2>1. used'.retry = used.retry /\ used'.cancel = used.cancel /\ UNCHANGED accepted
    BY <1>RaiseAlert DEF RaiseAlert, TypeOK, CountersOK
  <2>2. Cancelling' = Cancelling
    BY <1>RaiseAlert DEF RaiseAlert, Cancelling
  <2>3. \A j \in JobIds : Spent(j) => Spent(j)'
    BY <1>RaiseAlert, StepEffect DEF RaiseAlert, Spent, Held, BeforeCall, AfterCall
  <2>9. QED
    BY <2>1, <2>2, <2>3, CopiesKept
<1>EmitEvent. ASSUME EmitEvent PROVE CopiesOK'
  <2>1. used'.retry = used.retry /\ used'.cancel = used.cancel /\ UNCHANGED accepted
    BY <1>EmitEvent DEF EmitEvent, TypeOK, CountersOK
  <2>2. Cancelling' = Cancelling
    BY <1>EmitEvent DEF EmitEvent, Cancelling
  <2>3. \A j \in JobIds : Spent(j) => Spent(j)'
    BY <1>EmitEvent, StepEffect DEF EmitEvent, Spent, Held, BeforeCall, AfterCall
  <2>9. QED
    BY <2>1, <2>2, <2>3, CopiesKept
<1>FinishJob. ASSUME FinishJob PROVE CopiesOK'
  <2>1. used'.retry = used.retry /\ used'.cancel = used.cancel /\ UNCHANGED accepted
    BY <1>FinishJob DEF FinishJob, TypeOK, CountersOK
  <2>2. Cancelling' = Cancelling
    BY <1>FinishJob DEF FinishJob, Cancelling
  <2>3. \A i \in JobIds : Spent(i) => Spent(i)'
    <3>1. worker.job \in JobIds /\ jobs[worker.job].state = "active"
      BY <1>FinishJob DEF FinishJob, RunningOK, TypeOK, WorkerOK
    <3>2. jobs' = [jobs EXCEPT ![worker.job] = Settled(jobs[worker.job])]
      BY <1>FinishJob, <3>1 DEF FinishJob
    <3>3. worker.outcome = "accepted" => Settled(jobs[worker.job]).state = "completed"
      BY <3>1 DEF Settled, TypeOK, JobsOK, JobRecords
    <3>4. QED
      BY <3>1, <3>2, <3>3 DEF Spent, Held, TypeOK, JobsOK
  <2>9. QED
    BY <2>1, <2>2, <2>3, CopiesKept
<1>ClaimEnqueue. ASSUME NEW m \in Messages, ClaimEnqueue(m) PROVE CopiesOK'
  <2>1. used'.retry = used.retry /\ used'.cancel = used.cancel /\ UNCHANGED accepted
    BY <1>ClaimEnqueue DEF ClaimEnqueue, TypeOK, CountersOK
  <2>2. Cancelling' = Cancelling
    BY <1>ClaimEnqueue DEF ClaimEnqueue, Cancelling
  <2>3. \A i \in JobIds : Spent(i) => Spent(i)'
    <3> DEFINE j == <<m, 0>>
    <3>1. j \in JobIds /\ AddJob(j) /\ UNCHANGED worker
      BY <1>ClaimEnqueue, JobIdType DEF ClaimEnqueue, TypeOK, HandlersOK
    <3> HIDE DEF j
    <3>2. QED
      BY <3>1, AddEffect DEF Spent, Held
  <2>9. QED
    BY <2>1, <2>2, <2>3, CopiesKept
<1>Reconcile. ASSUME NEW m \in Messages, Reconcile(m) PROVE CopiesOK'
  <2>1. used'.retry = used.retry /\ used'.cancel = used.cancel /\ UNCHANGED accepted
    BY <1>Reconcile DEF Reconcile, TypeOK, CountersOK
  <2>2. Cancelling' = Cancelling
    BY <1>Reconcile DEF Reconcile, Cancelling
  <2>3. \A i \in JobIds : Spent(i) => Spent(i)'
    <3> DEFINE j == <<m, 0>>
    <3>1. j \in JobIds /\ AddJob(j) /\ UNCHANGED worker
      BY <1>Reconcile, JobIdType DEF Reconcile, TypeOK, HandlersOK
    <3> HIDE DEF j
    <3>2. QED
      BY <3>1, AddEffect DEF Spent, Held
  <2>9. QED
    BY <2>1, <2>2, <2>3, CopiesKept
<1>ReportRead. ASSUME NEW p \in Reporters, NEW m \in Messages, NEW next \in Reported, ReportRead(p, m, next)
               PROVE  CopiesOK'
  <2>1. used'.retry = used.retry /\ used'.cancel = used.cancel /\ UNCHANGED accepted
    BY <1>ReportRead DEF ReportRead, TypeOK, CountersOK
  <2>2. Cancelling' = Cancelling
    BY <1>ReportRead DEF ReportRead, Cancelling
  <2>3. \A j \in JobIds : Spent(j) => Spent(j)'
    BY <1>ReportRead DEF ReportRead, Spent, Held
  <2>9. QED
    BY <2>1, <2>2, <2>3, CopiesKept
<1>QED. QED
  BY <1>1, <1>Send, <1>EnqueueSend, <1>RetryRead, <1>RetryTx, <1>CancelRead, <1>CancelTx,
     <1>CancelRemove, <1>PickUp, <1>StalledCheck, <1>MarkDispatching, <1>WriteHistory,
     <1>CreateAttempt, <1>CallAdapter, <1>MarkSent, <1>AttemptSent, <1>AttemptResult,
     <1>MarkFailed, <1>RaiseAlert, <1>EmitEvent, <1>FinishJob, <1>ClaimEnqueue, <1>Reconcile,
     <1>ReportRead DEF CalmNext, ApiNext, ProcessorNext, SchedulerNext, ReportNext, ReadDue,
     ClaimDue, SetStatus, ClaimHistory, AddHistory, ReadStuck, ReportUpdate, ReportHistory,
     IdleReporter

\* Nothing has happened: nothing to account for.
LEMMA CalmInit ==
  Init => CalmInv
<1> SUFFICES ASSUME Init PROVE CalmInv
  OBVIOUS
<1>1. RunningOK /\ ToldOK
  BY DEF Init, RunningOK, ToldOK, Held, IdleWorker, NoJob, BeforeCall
<1>2. HistoryOK
  BY DEF Init, HistoryOK
<1>3. NumbersOK
  BY DEF Init, NumbersOK, NoJob, IdleRequest
<1>4. CopiesOK
  <2>1. Cancelling = {} /\ IsFiniteSet(Cancelling) /\ Cardinality(Cancelling) = 0
    <3>1. Cancelling = {}
      BY DEF Init, Cancelling, IdleRequest
    <3>2. QED
      BY <3>1, FS_EmptySet
  <2>2. ASSUME NEW m \in Messages
        PROVE  accepted[m] + Cardinality(Unspent(m)) + Cardinality(Cancelling) <= 1 + used.retry + used.cancel
    <3>1. Unspent(m) \subseteq {0}
      BY DEF Init, Unspent
    <3>2. IsFiniteSet({0}) /\ Cardinality({0}) = 1
      BY FS_Singleton
    <3>3. Cardinality(Unspent(m)) \in Nat /\ Cardinality(Unspent(m)) <= 1
      BY <3>1, <3>2, FS_Subset, FS_CardinalityType
    <3>4. accepted[m] = 0 /\ used.retry = 0 /\ used.cancel = 0
      BY DEF Init
    <3> HIDE DEF Unspent, Cancelling
    <3>5. QED
      BY <2>1, <3>3, <3>4
  <2>3. QED
    BY <2>1, <2>2 DEF CopiesOK
<1>5. QED
  BY <1>1, <1>2, <1>3, <1>4 DEF CalmInv

\* Stuttering changes none of it.
LEMMA CalmStutters ==
  ASSUME CalmInv, UNCHANGED vars
  PROVE  CalmInv'
<1>1. RunningOK' /\ ToldOK'
  BY DEF CalmInv, vars, RunningOK, ToldOK, Announced, Held, Msg
<1>2. HistoryOK' /\ NumbersOK'
  BY DEF CalmInv, vars, HistoryOK, Due, Msg, NumbersOK
<1>3. CopiesOK'
  BY DEF CalmInv, vars, CopiesOK, Cancelling, Unspent, Spent, Held
<1>4. QED
  BY <1>1, <1>2, <1>3 DEF CalmInv

\* As long as no failure has happened, everything above holds: agreement of the two
\* attempt counters, the history, and the account of copies.
THEOREM CalmInvariance ==
  Spec => [](used.fault = 0 => CalmInv)
<1>1. Init => (used.fault = 0 => CalmInv)
  BY CalmInit
<1>2. TypeOK /\ TypeOK' /\ (used.fault = 0 => CalmInv) /\ [Next]_vars => (used.fault = 0 => CalmInv)'
  <2> SUFFICES ASSUME TypeOK, TypeOK', used.fault = 0 => CalmInv, [Next]_vars, used'.fault = 0
               PROVE  CalmInv'
    OBVIOUS
  <2>1. CASE Next
    <3>1. CalmNext /\ CalmInv
      BY <2>1, Calm
    <3>2. QED
      BY <3>1, RunningStep, ToldStep, HistoryStep, NumbersStep, CopiesStep DEF CalmInv
  <2>2. CASE UNCHANGED vars
    BY <2>2, CalmStutters DEF vars
  <2>3. QED
    BY <2>1, <2>2
<1>3. Spec => []TypeOK
  BY TypeCorrect
<1>4. QED
  BY <1>1, <1>2, <1>3, PTL DEF Spec

\* What Due says is what HistoryDue collects.
LEMMA DueIsHistoryDue ==
  ASSUME TypeOK, NEW m \in Messages, Due(m, status[m])
  PROVE  status[m] \in HistoryDue(m)
<1>1. CASE claim[m] = "history" /\ status[m] = "queued"
  BY <1>1 DEF HistoryDue
<1>2. CASE \E p \in Reporters : report[p].pc = "history" /\ report[p].msg = m /\ report[p].next = status[m]
  BY <1>2 DEF HistoryDue
<1>3. CASE worker.pc = "dispatchHistory" /\ Msg = m /\ status[m] = "dispatching"
  BY <1>3 DEF HistoryDue
<1>4. CASE worker.pc = "sentHistory" /\ Msg = m /\ status[m] = "sent"
  BY <1>4 DEF HistoryDue
<1>5. CASE worker.pc = "failHistory" /\ Msg = m /\ status[m] = "failed"
  BY <1>5 DEF HistoryDue
<1>6. QED
  BY <1>1, <1>2, <1>3, <1>4, <1>5 DEF Due

\* Without failures, whatever handlers interleave: the status a message shows has its row
\* in message_status_history, or the handler that wrote it is about to write the row.
THEOREM HistoryIsComplete ==
  Spec => []HistoryComplete
<1>1. TypeOK /\ (used.fault = 0 => CalmInv) => HistoryComplete
  BY DueIsHistoryDue DEF HistoryComplete, HistoryKept, CalmInv, HistoryOK
<1>2. QED
  BY <1>1, CalmInvariance, TypeCorrect, PTL

\* Without failures, a job that BullMQ gives up has been given up by the processor too:
\* history row, alert and message.failed event are there before the job is failed.
THEOREM GivingUpIsAnnounced ==
  Spec => []GivenUpIsAnnounced
<1>1. (used.fault = 0 => CalmInv) => GivenUpIsAnnounced
  BY DEF GivenUpIsAnnounced, CalmInv, ToldOK, Announced
<1>2. QED
  BY <1>1, CalmInvariance, PTL

\* Without failures the provider accepts at most one copy of a message, plus one for each
\* retry and each cancellation an operator asked for.
THEOREM CopiesAreAskedFor ==
  Spec => []ExtraCopiesAreAskedFor
<1>1. TypeOK /\ (used.fault = 0 => CalmInv) => ExtraCopiesAreAskedFor
  <2> SUFFICES ASSUME TypeOK, CopiesOK, NEW m \in Messages
               PROVE  accepted[m] <= 1 + used.retry + used.cancel
    BY DEF ExtraCopiesAreAskedFor, CalmInv
  <2>1. Cardinality(Unspent(m)) \in Nat /\ Cardinality(Cancelling) \in Nat
    BY UnspentFinite, FS_CardinalityType DEF CopiesOK
  <2>2. accepted[m] + Cardinality(Unspent(m)) + Cardinality(Cancelling) <= 1 + used.retry + used.cancel
    BY DEF CopiesOK
  <2>3. accepted[m] \in Nat /\ used.retry \in Nat /\ used.cancel \in Nat
    BY DEF TypeOK, CountersOK
  <2>4. QED
    BY <2>1, <2>2, <2>3
<1>2. QED
  BY <1>1, CalmInvariance, TypeCorrect, PTL

-----------------------------------------------------------------------------
(* What a step may do to a status, failures included.                        *)

\* What a step may write: a retry queues, a tick queues what was scheduled, a report
\* writes what it carries, and the other writers neither queue nor write a late status.
StatusStep ==
  \A o \in Messages :
    \/ status'[o] = status[o]
    \/ status'[o] \in {"scheduled", "dispatching", "sent", "failed", "cancelled"}
    \/ status'[o] = "queued" /\ status[o] \in {"none", "scheduled"}
    \/ status'[o] = "queued" /\ \E r \in Requests : api[r].pc = "retryTx" /\ api[r].msg = o
    \/ \E p \in Reporters : /\ report[p].pc = "update" /\ report'[p].pc = "history"
                            /\ report[p].msg = o /\ status'[o] = report[p].next

\* Every step writes statuses in one of these ways.
LEMMA StatusSteps ==
  TypeOK /\ [Next]_vars => StatusStep
<1> SUFFICES ASSUME TypeOK, [Next]_vars PROVE StatusStep
  OBVIOUS
<1>1. ASSUME UNCHANGED status PROVE StatusStep
  BY <1>1 DEF StatusStep
<1>Send. ASSUME NEW r \in Requests, NEW m \in Messages, NEW later \in BOOLEAN, Send(r, m, later)
         PROVE  StatusStep
  BY <1>Send DEF Send, SetStatus, StatusStep, TypeOK, RowsOK, HandlersOK
<1>RetryTx. ASSUME NEW r \in Requests, RetryTx(r) PROVE StatusStep
  BY <1>RetryTx DEF RetryTx, SetStatus, StatusStep, TypeOK, RowsOK, HandlersOK
<1>CancelTx. ASSUME NEW r \in Requests, CancelTx(r) PROVE StatusStep
  BY <1>CancelTx DEF CancelTx, SetStatus, StatusStep, TypeOK, RowsOK, HandlersOK
<1>MarkDispatching. ASSUME MarkDispatching PROVE StatusStep
  BY <1>MarkDispatching, WorkerMsgType, StepEffect DEF MarkDispatching, SetStatus, StatusStep,
     TypeOK, RowsOK, HandlersOK
<1>MarkSent. ASSUME MarkSent PROVE StatusStep
  BY <1>MarkSent, WorkerMsgType, StepEffect DEF MarkSent, SetStatus, StatusStep, TypeOK,
     RowsOK, HandlersOK
<1>MarkFailed. ASSUME MarkFailed PROVE StatusStep
  BY <1>MarkFailed, WorkerMsgType, StepEffect DEF MarkFailed, SetStatus, StatusStep, TypeOK,
     RowsOK, HandlersOK
<1>ClaimDue. ASSUME NEW m \in Messages, ClaimDue(m) PROVE StatusStep
  BY <1>ClaimDue DEF ClaimDue, SetStatus, StatusStep, TypeOK, RowsOK, HandlersOK
<1>ReportUpdate. ASSUME NEW p \in Reporters, ReportUpdate(p) PROVE StatusStep
  <2>1. /\ report[p].pc = "update" /\ report[p].msg \in Messages /\ report'[p].pc = "history"
        /\ status' = [status EXCEPT ![report[p].msg] = report[p].next]
    BY <1>ReportUpdate DEF ReportUpdate, SetStatus, TypeOK, HandlersOK
  <2>2. QED
    BY <2>1 DEF StatusStep, TypeOK, RowsOK
<1>QED. QED
  BY <1>1, <1>Send, <1>RetryTx, <1>CancelTx, <1>MarkDispatching, <1>MarkSent, <1>MarkFailed,
     <1>ClaimDue, <1>ReportUpdate DEF Next, ApiNext, ProcessorNext, SchedulerNext, ReportNext,
     FaultNext, vars, rowVars, tickVars, EnqueueSend, RetryRead, CancelRead, CancelRemove,
     PickUp, StalledCheck, WriteHistory, CreateAttempt, CallAdapter, AttemptSent,
     AttemptResult, RaiseAlert, EmitEvent, FinishJob, ReadDue, ClaimHistory, ClaimEnqueue,
     ReadStuck, Reconcile, ReportRead, ReportHistory, RequestAbandoned, ClaimAbandoned,
     WorkerCrash, RedisLoss, DbError, AnswerLost

\* A cancelled message goes back to queued by a retry and by nothing else, whatever the
\* scheduler's ticks had read before and whatever fails.
THEOREM CancelledStaysUnlessRetried ==
  Spec => CancelledRequeuedByRetryOnly
<1>1. TypeOK /\ StatusStep => \A m \in Messages :
        status[m] = "cancelled" /\ status'[m] = "queued" =>
          \E r \in Requests : api[r].pc = "retryTx" /\ api[r].msg = m
  <2> SUFFICES ASSUME TypeOK, StatusStep, NEW m \in Messages, status[m] = "cancelled", status'[m] = "queued",
                      ~ \E r \in Requests : api[r].pc = "retryTx" /\ api[r].msg = m
               PROVE  FALSE
    OBVIOUS
  <2>1. PICK p \in Reporters : report[p].pc = "update" /\ report[p].next = "queued"
    BY DEF StatusStep
  <2>2. QED
    BY <2>1 DEF TypeOK, HandlersOK, Reported
<1>2. QED
  BY <1>1, StatusSteps, TypeCorrect, PTL DEF Spec, CancelledRequeuedByRetryOnly

\* The ranks applyStatus compares.
LEMMA Ranks ==
  /\ Rank("none") = 0 /\ Rank("scheduled") = 0 /\ Rank("failed") = 0 /\ Rank("cancelled") = 0
  /\ Rank("queued") = 1 /\ Rank("dispatching") = 2 /\ Rank("sent") = 4
  /\ Rank("delivered") = 5 /\ Rank("read") = 6
BY DEF Rank

\* A report that is about to be written is no step back.
ReportsOK ==
  \A p \in Reporters : report[p].pc = "update" /\ report[p].next # "failed" =>
    Rank(status[report[p].msg]) <= Rank(report[p].next)

\* A handler of reports keeps what it read until it writes it.
ReportStep ==
  \A p \in Reporters :
    \/ report'[p] = report[p]
    \/ report'[p].pc # "update"
    \/ /\ UNCHANGED status
       /\ report'[p].next = "failed" \/ Rank(report'[p].next) > Rank(status[report'[p].msg])

\* Every step does so.
LEMMA ReportSteps ==
  TypeOK /\ [Next]_vars => ReportStep
<1> SUFFICES ASSUME TypeOK, [Next]_vars PROVE ReportStep
  OBVIOUS
<1>1. ASSUME UNCHANGED report PROVE ReportStep
  BY <1>1 DEF ReportStep
<1>ReportRead. ASSUME NEW p \in Reporters, NEW m \in Messages, NEW next \in Reported, ReportRead(p, m, next)
               PROVE  ReportStep
  <2>1. /\ report' = [report EXCEPT ![p] = [pc |-> "update", msg |-> m, next |-> next]]
        /\ UNCHANGED status /\ (next = "failed" \/ Rank(next) > Rank(status[m]))
    BY <1>ReportRead DEF ReportRead, rowVars
  <2>2. QED
    BY <2>1 DEF ReportStep, TypeOK, HandlersOK
<1>ReportUpdate. ASSUME NEW p \in Reporters, ReportUpdate(p) PROVE ReportStep
  BY <1>ReportUpdate DEF ReportUpdate, ReportStep, IdleReporter, TypeOK, HandlersOK
<1>ReportHistory. ASSUME NEW p \in Reporters, ReportHistory(p) PROVE ReportStep
  BY <1>ReportHistory DEF ReportHistory, ReportStep, IdleReporter, TypeOK, HandlersOK
<1>WorkerCrash. ASSUME WorkerCrash PROVE ReportStep
  BY <1>WorkerCrash DEF WorkerCrash, ReportStep, IdleReporter, TypeOK, HandlersOK
<1>QED. QED
  BY <1>1, <1>ReportRead, <1>ReportUpdate, <1>ReportHistory, <1>WorkerCrash DEF Next, ApiNext,
     ProcessorNext, SchedulerNext, ReportNext, FaultNext, vars, rowVars, tickVars, Send,
     EnqueueSend, RetryRead, RetryTx, CancelRead, CancelTx, CancelRemove, PickUp,
     StalledCheck, MarkDispatching, WriteHistory, CreateAttempt, CallAdapter, MarkSent,
     AttemptSent, AttemptResult, MarkFailed, RaiseAlert, EmitEvent, FinishJob, ReadDue,
     ClaimDue, ClaimHistory, ClaimEnqueue, ReadStuck, Reconcile, RequestAbandoned,
     ClaimAbandoned, RedisLoss, DbError, AnswerLost

\* A handler of reports that goes on to the history has written the status it carries.
LEMMA Written ==
  ASSUME TypeOK, [Next]_vars, NEW q \in Reporters, report[q].pc = "update", report'[q].pc = "history"
  PROVE  report[q].msg \in Messages /\ status'[report[q].msg] = report[q].next
<1> DEFINE Goal == report[q].msg \in Messages /\ status'[report[q].msg] = report[q].next
<1> SUFFICES Goal
  OBVIOUS
<1>1. ASSUME UNCHANGED report PROVE Goal
  BY <1>1
<1>ReportRead. ASSUME NEW p \in Reporters, NEW m \in Messages, NEW next \in Reported, ReportRead(p, m, next)
               PROVE  Goal
  BY <1>ReportRead DEF ReportRead, TypeOK, HandlersOK
<1>ReportUpdate. ASSUME NEW p \in Reporters, ReportUpdate(p) PROVE Goal
  <2>1. /\ report[p].msg \in Messages /\ status'[report[p].msg] = report[p].next
        /\ \A o \in Reporters \ {p} : report'[o] = report[o]
    BY <1>ReportUpdate DEF ReportUpdate, SetStatus, TypeOK, HandlersOK, RowsOK
  <2>2. QED
    BY <2>1
<1>ReportHistory. ASSUME NEW p \in Reporters, ReportHistory(p) PROVE Goal
  BY <1>ReportHistory DEF ReportHistory, IdleReporter, TypeOK, HandlersOK
<1>WorkerCrash. ASSUME WorkerCrash PROVE Goal
  BY <1>WorkerCrash DEF WorkerCrash, IdleReporter
<1> HIDE DEF Goal
<1>QED. QED
  BY <1>1, <1>ReportRead, <1>ReportUpdate, <1>ReportHistory, <1>WorkerCrash DEF Next, ApiNext,
     ProcessorNext, SchedulerNext, ReportNext, FaultNext, vars, rowVars, tickVars, Send,
     EnqueueSend, RetryRead, RetryTx, CancelRead, CancelTx, CancelRemove, PickUp,
     StalledCheck, MarkDispatching, WriteHistory, CreateAttempt, CallAdapter, MarkSent,
     AttemptSent, AttemptResult, MarkFailed, RaiseAlert, EmitEvent, FinishJob, ReadDue,
     ClaimDue, ClaimHistory, ClaimEnqueue, ReadStuck, Reconcile, RequestAbandoned,
     ClaimAbandoned, RedisLoss, DbError, AnswerLost

\* With reports handled one at a time, a report other than "failed" never takes a message
\* back, although what it was compared with may have changed since: the processor, the
\* only other writer that moves a message on, does not get past "sent".
THEOREM ReportsOnlyAdvance ==
  ASSUME \A p, q \in Reporters : p = q
  PROVE  Spec => ReportsAdvance
<1>1. Init => ReportsOK
  BY DEF Init, ReportsOK, IdleReporter
<1>2. TypeOK /\ TypeOK' /\ ReportsOK /\ [Next]_vars => ReportsOK'
  <2> SUFFICES ASSUME TypeOK, TypeOK', ReportsOK, [Next]_vars,
                      NEW p \in Reporters, report'[p].pc = "update", report'[p].next # "failed"
               PROVE  Rank(status'[report'[p].msg]) <= Rank(report'[p].next)
    BY DEF ReportsOK
  <2>1. /\ StatusStep /\ ReportStep /\ report'[p].msg \in Messages
        /\ report'[p].next \in {"sent", "delivered", "read"}
        /\ \A o \in Messages : status[o] \in Statuses /\ status'[o] \in Statuses
    BY StatusSteps, ReportSteps DEF TypeOK, HandlersOK, Reported, RowsOK
  <2>2. \A s \in Statuses : Rank(s) \in Nat
    BY Ranks DEF Statuses
  <2>3. CASE UNCHANGED status /\ Rank(report'[p].next) > Rank(status[report'[p].msg])
    BY <2>1, <2>2, <2>3 DEF Statuses
  <2>4. CASE report'[p] = report[p]
    <3>1. report[p].msg \in Messages /\ Rank(status[report[p].msg]) <= Rank(report[p].next)
      BY <2>1, <2>4 DEF ReportsOK
    <3>2. /\ status'[report[p].msg] # "delivered" \/ status'[report[p].msg] = status[report[p].msg]
          /\ status'[report[p].msg] # "read" \/ status'[report[p].msg] = status[report[p].msg]
      BY <2>1, <2>4, <3>1 DEF StatusStep
    <3>3. QED
      BY <2>1, <2>4, <3>1, <3>2, Ranks DEF Statuses
  <2>5. QED
    BY <2>1, <2>3, <2>4 DEF ReportStep
<1>3. TypeOK /\ TypeOK' /\ ReportsOK /\ [Next]_vars =>
        \A p \in Reporters :
          report[p].pc = "update" /\ report'[p].pc = "history" /\ report[p].next # "failed" =>
            Rank(status'[report[p].msg]) >= Rank(status[report[p].msg])
  <2> SUFFICES ASSUME TypeOK, TypeOK', ReportsOK, [Next]_vars, NEW p \in Reporters,
                      report[p].pc = "update", report'[p].pc = "history", report[p].next # "failed"
               PROVE  Rank(status'[report[p].msg]) >= Rank(status[report[p].msg])
    OBVIOUS
  <2>1. report[p].msg \in Messages /\ status'[report[p].msg] = report[p].next
    BY Written
  <2>2. /\ Rank(status[report[p].msg]) <= Rank(report[p].next)
        /\ status[report[p].msg] \in Statuses /\ report[p].next \in Statuses
    BY <2>1 DEF ReportsOK, TypeOK, RowsOK, HandlersOK, Reported, Statuses
  <2>3. \A s \in Statuses : Rank(s) \in Nat
    BY Ranks DEF Statuses
  <2>4. QED
    BY <2>1, <2>2, <2>3
<1>4. QED
  BY <1>1, <1>2, <1>3, TypeCorrect, PTL DEF Spec, ReportsAdvance
=============================================================================
