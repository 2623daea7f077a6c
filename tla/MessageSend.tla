----------------------------- MODULE MessageSend -----------------------------
(***************************************************************************)
(* The outbound pipeline: the API handlers that create, retry and cancel a *)
(* message (apps/api/src/messages/messages.service.ts), the BullMQ queue   *)
(* "message.send", the worker's MessageSendProcessor, the scheduler that   *)
(* releases scheduled messages, the reconciler that re-enqueues stuck      *)
(* ones, and the transport's delivery reports.                             *)
(*                                                                         *)
(* Every awaited database write, queue operation or adapter call is one    *)
(* step, so handlers interleave wherever the code awaits.  A message is    *)
(* its row: bodies, addresses and attachments do not affect control flow.  *)
(* Time is abstracted: a scheduled message may be due, and a queued or     *)
(* dispatching one may be stale, at any moment; a delayed job is a waiting *)
(* one.  The audit log is left out.                                        *)
(***************************************************************************)
EXTENDS Integers, Sequences, FiniteSets

CONSTANTS
  Messages,     \* ids of message rows
  Requests,     \* concurrent API request handlers
  Reporters,    \* concurrent handlers of delivery reports
  None,         \* no message / no job
  MaxAttempts,  \* MAX_SEND_ATTEMPTS, also the "attempts" option of every job
  MaxStalled,   \* BullMQ's maxStalledCount
  MaxRetries,   \* bound: POST /messages/:id/retry calls
  MaxCancels,   \* bound: POST /messages/:id/cancel calls
  MaxReports,   \* bound: delivery reports
  Faults,       \* kinds of failure that may happen
  MaxFaults     \* bound: failures

FaultKinds ==
  {"abandoned",    \* an API handler or a scheduler claim dies between two awaits
   "workerCrash",  \* the worker process dies
   "redisLoss",    \* Redis loses every job
   "dbError",      \* one database call of the send processor fails
   "lostAnswer"}   \* the provider accepts, the adapter sees an error

ASSUME BoundsAssumption ==
  /\ MaxAttempts \in Nat \ {0}
  /\ {MaxStalled, MaxRetries, MaxCancels, MaxReports, MaxFaults} \subseteq Nat
  /\ Faults \subseteq FaultKinds

ASSUME NoneAssumption == None \notin Messages

VARIABLES
  status,    \* messages.status ("none": no row yet)
  hist,      \* the statuses message_status_history holds for a message
  ext,       \* messages.external_id is set
  attempts,  \* message_attempts of a message, oldest first
  events,    \* message_events by (type, message): dedupKey keeps one of each
  alerts,    \* messages with a firing "send-failed:<id>" alert
  jobs,      \* the BullMQ queue "message.send", by job id
  worker,    \* the running call of MessageSendProcessor.process
  api,       \* the running API handlers
  due,       \* messages in the list a scheduler tick has read
  claim,     \* how far a tick is with a message it has claimed
  stuck,     \* messages in the list a reconciler pass has read
  report,    \* the running applyStatus calls
  accepted,  \* how many copies of a message the provider has accepted
  used       \* what is used up of each bound

vars == <<status, hist, ext, attempts, events, alerts, jobs, worker, api, due,
          claim, stuck, report, accepted, used>>

rowVars  == <<status, hist, ext, attempts, events, alerts>>
tickVars == <<due, claim, stuck>>

\* A job is named by its message and the number of the retry that added it; 0
\* is the plain `jobId = messageId` of send, the scheduler and the reconciler.
JobIds == Messages \X (0..MaxRetries)
MsgOf(j) == j[1]

Statuses == {"none", "scheduled", "queued", "dispatching", "sent", "delivered",
             "read", "failed", "cancelled"}
Reported == {"sent", "delivered", "read", "failed"}
Results  == {"pending", "sent", "permanent_error", "retryable_error", "final_error"}
EventIds == {"message.queued", "message.sent", "message.failed"} \X Messages

JobRecords == [state : {"absent", "wait", "active", "completed", "failed"},
               made : 0..MaxAttempts, stalls : 0..(MaxStalled + 1), calls : Nat]
NoJob  == [state |-> "absent", made |-> 0, stalls |-> 0, calls |-> 0]
NewJob == [NoJob EXCEPT !.state = "wait"]

IdleRequest  == [pc |-> "idle", msg |-> None, sfx |-> 0]
IdleWorker   == [pc |-> "idle", job |-> None, no |-> 0, outcome |-> "none"]
IdleReporter == [pc |-> "idle", msg |-> None, next |-> "none"]

RequestPCs == {"idle", "enqueue", "retryTx", "cancelTx", "cancelRemove"}
BeforeCall == {"load", "dispatchHistory", "attempt", "call"}
AfterCall  == {"sentStatus", "sentHistory", "sentAttempt", "sentEvent",
               "attemptResult", "failStatus", "failHistory", "failAlert",
               "failEvent", "finish"}

RowsOK ==
  /\ status \in [Messages -> Statuses]
  /\ hist \in [Messages -> SUBSET Statuses]
  /\ ext \in [Messages -> BOOLEAN]
  /\ attempts \in [Messages -> Seq([no : 1..MaxAttempts, result : Results])]
  /\ events \in SUBSET EventIds
  /\ alerts \in SUBSET Messages

\* A job that may still run has attempts and stalls left.
JobsOK ==
  /\ jobs \in [JobIds -> JobRecords]
  /\ \A j \in JobIds : jobs[j].state \in {"wait", "active"} =>
       jobs[j].made < MaxAttempts /\ jobs[j].stalls <= MaxStalled

\* The job a busy worker runs has an attempt number.
WorkerOK ==
  /\ worker \in [pc : {"idle"} \cup BeforeCall \cup AfterCall,
                 job : JobIds \cup {None}, no : 0..MaxAttempts,
                 outcome : {"none", "accepted", "permanent", "error"}]
  /\ worker.pc # "idle" => worker.job \in JobIds /\ worker.no # 0

\* A handler that runs has a message.
HandlersOK ==
  /\ api \in [Requests -> [pc : RequestPCs, msg : Messages \cup {None},
                           sfx : 0..MaxRetries]]
  /\ \A r \in Requests : api[r].pc # "idle" => api[r].msg \in Messages
  /\ report \in [Reporters -> [pc : {"idle", "update", "history"},
                               msg : Messages \cup {None},
                               next : Reported \cup {"none"}]]
  /\ \A p \in Reporters : report[p].pc # "idle" =>
       report[p].msg \in Messages /\ report[p].next \in Reported

TicksOK ==
  /\ due \in SUBSET Messages
  /\ claim \in [Messages -> {"none", "history", "enqueue"}]
  /\ stuck \in SUBSET Messages

CountersOK ==
  /\ accepted \in [Messages -> Nat]
  /\ used \in [retry : 0..MaxRetries, cancel : 0..MaxCancels,
               report : 0..MaxReports, fault : 0..MaxFaults]

\* The type invariant.  It is inductive: the second conjuncts of its parts say
\* which fields a running handler or job needs.
TypeOK == RowsOK /\ JobsOK /\ WorkerOK /\ HandlersOK /\ TicksOK /\ CountersOK

Init ==
  /\ status = [m \in Messages |-> "none"]
  /\ hist = [m \in Messages |-> {}]
  /\ ext = [m \in Messages |-> FALSE]
  /\ attempts = [m \in Messages |-> <<>>]
  /\ events = {}
  /\ alerts = {}
  /\ jobs = [j \in JobIds |-> NoJob]
  /\ worker = IdleWorker
  /\ api = [r \in Requests |-> IdleRequest]
  /\ due = {}
  /\ claim = [m \in Messages |-> "none"]
  /\ stuck = {}
  /\ report = [p \in Reporters |-> IdleReporter]
  /\ accepted = [m \in Messages |-> 0]
  /\ used = [retry |-> 0, cancel |-> 0, report |-> 0, fault |-> 0]

SetStatus(m, s) == status' = [status EXCEPT ![m] = s]
AddHistory(m, s) == hist' = [hist EXCEPT ![m] = @ \cup {s}]

-----------------------------------------------------------------------------
(* BullMQ: add() with a known job id does nothing, whatever became of that   *)
(* job (removeOnComplete and removeOnFail are off); remove() throws on a     *)
(* job a worker has locked.                                                  *)

AddJob(j) ==
  jobs' = IF jobs[j].state = "absent" THEN [jobs EXCEPT ![j] = NewJob] ELSE jobs

Held(j) == worker.pc # "idle" /\ worker.job = j

\* A job left active by a crashed worker is removable once its lock expires.
RemoveJob(j) ==
  \/ /\ Held(j) => jobs[j].state # "active"
     /\ jobs' = [jobs EXCEPT ![j] = NoJob]
  \/ /\ jobs[j].state = "active"
     /\ UNCHANGED jobs

-----------------------------------------------------------------------------
(* API handlers.                                                             *)

\* send: one transaction writes the row, its history and the message.queued
\* event; a message that is not scheduled is enqueued after the commit.
Send(r, m, later) ==
  /\ api[r].pc = "idle"
  /\ status[m] = "none"
  /\ LET s == IF later THEN "scheduled" ELSE "queued"
     IN  SetStatus(m, s) /\ AddHistory(m, s)
  /\ events' = events \cup {<<"message.queued", m>>}
  /\ api' = IF later THEN api
            ELSE [api EXCEPT ![r] = [pc |-> "enqueue", msg |-> m, sfx |-> 0]]
  /\ UNCHANGED <<ext, attempts, alerts, jobs, worker, tickVars, report, accepted, used>>

\* The last await of send and of retry: the job id carries the retry's suffix.
EnqueueSend(r) ==
  /\ api[r].pc = "enqueue"
  /\ AddJob(<<api[r].msg, api[r].sfx>>)
  /\ api' = [api EXCEPT ![r] = IdleRequest]
  /\ UNCHANGED <<rowVars, worker, tickVars, report, accepted, used>>

\* retry reads the row and checks its status ...
RetryRead(r, m) ==
  /\ api[r].pc = "idle"
  /\ status[m] \in {"failed", "cancelled"}
  /\ used.retry < MaxRetries
  /\ used' = [used EXCEPT !.retry = @ + 1]
  /\ api' = [api EXCEPT ![r] = [pc |-> "retryTx", msg |-> m, sfx |-> used.retry + 1]]
  /\ UNCHANGED <<rowVars, jobs, worker, tickVars, report, accepted>>

\* ... and then writes without checking again.
RetryTx(r) ==
  /\ api[r].pc = "retryTx"
  /\ SetStatus(api[r].msg, "queued")
  /\ AddHistory(api[r].msg, "queued")
  /\ api' = [api EXCEPT ![r].pc = "enqueue"]
  /\ UNCHANGED <<ext, attempts, events, alerts, jobs, worker, tickVars, report,
                 accepted, used>>

CancelRead(r, m) ==
  /\ api[r].pc = "idle"
  /\ status[m] \in {"scheduled", "queued"}
  /\ used.cancel < MaxCancels
  /\ used' = [used EXCEPT !.cancel = @ + 1]
  /\ api' = [api EXCEPT ![r] = [pc |-> "cancelTx", msg |-> m, sfx |-> 0]]
  /\ UNCHANGED <<rowVars, jobs, worker, tickVars, report, accepted>>

CancelTx(r) ==
  /\ api[r].pc = "cancelTx"
  /\ SetStatus(api[r].msg, "cancelled")
  /\ AddHistory(api[r].msg, "cancelled")
  /\ api' = [api EXCEPT ![r].pc = "cancelRemove"]
  /\ UNCHANGED <<ext, attempts, events, alerts, jobs, worker, tickVars, report,
                 accepted, used>>

\* removeSend only knows the plain job id; a refusal is swallowed.
CancelRemove(r) ==
  /\ api[r].pc = "cancelRemove"
  /\ RemoveJob(<<api[r].msg, 0>>)
  /\ api' = [api EXCEPT ![r] = IdleRequest]
  /\ UNCHANGED <<rowVars, worker, tickVars, report, accepted, used>>

-----------------------------------------------------------------------------
(* MessageSendProcessor.process, one job at a time.                          *)

Msg == MsgOf(worker.job)

\* The worker is at `from` and goes on to `to`.
Step(from, to) ==
  /\ worker.pc = from
  /\ worker' = [worker EXCEPT !.pc = to]

\* Mutant: attempts are numbered from two.
PickUpSkewed(j) ==
  /\ worker.pc = "idle"
  /\ jobs[j].state = "wait"
  /\ jobs' = [jobs EXCEPT ![j].state = "active"]
  /\ worker' = [pc |-> "load", job |-> j, no |-> jobs[j].made + 2, outcome |-> "none"]
  /\ UNCHANGED <<rowVars, api, tickVars, report, accepted, used>>

PickUp(j) ==
  /\ worker.pc = "idle"
  /\ jobs[j].state = "wait"
  /\ jobs' = [jobs EXCEPT ![j].state = "active"]
  /\ worker' = [pc |-> "load", job |-> j, no |-> jobs[j].made + 1, outcome |-> "none"]
  /\ UNCHANGED <<rowVars, api, tickVars, report, accepted, used>>

\* The status the row has now is neither read nor checked.
MarkDispatching ==
  /\ Step("load", "dispatchHistory")
  /\ SetStatus(Msg, "dispatching")
  /\ UNCHANGED <<hist, ext, attempts, events, alerts, jobs, api, tickVars, report,
                 accepted, used>>

\* The history row of the status written just before.
WriteHistory ==
  /\ \/ Step("dispatchHistory", "attempt") /\ AddHistory(Msg, "dispatching")
     \/ Step("sentHistory", "sentAttempt") /\ AddHistory(Msg, "sent")
     \/ Step("failHistory", "failAlert") /\ AddHistory(Msg, "failed")
  /\ UNCHANGED <<status, ext, attempts, events, alerts, jobs, api, tickVars, report,
                 accepted, used>>

CreateAttempt ==
  /\ Step("attempt", "call")
  /\ attempts' = [attempts EXCEPT ![Msg] = Append(@, [no |-> worker.no, result |-> "pending"])]
  /\ UNCHANGED <<status, hist, ext, events, alerts, jobs, api, tickVars, report,
                 accepted, used>>

CountCall ==
  jobs' = IF jobs[worker.job].state = "active"
          THEN [jobs EXCEPT ![worker.job].calls = @ + 1] ELSE jobs

\* Mutant: `result.accepted` is not looked at.
CallAdapterIgnoringRefusal ==
  /\ worker.pc = "call"
  /\ CountCall
  /\ worker' = [worker EXCEPT !.pc = "sentStatus", !.outcome = "accepted"]
  /\ \/ accepted' = [accepted EXCEPT ![Msg] = @ + 1]
     \/ UNCHANGED accepted
  /\ UNCHANGED <<rowVars, api, tickVars, report, used>>

\* adapter.send: accepted, refused for good, or a retryable error (which, like
\* a missing account or any exception before it, throws into the catch block).
CallAdapter ==
  /\ worker.pc = "call"
  /\ CountCall
  /\ \/ /\ accepted' = [accepted EXCEPT ![Msg] = @ + 1]
        /\ worker' = [worker EXCEPT !.pc = "sentStatus", !.outcome = "accepted"]
     \/ /\ worker' = [worker EXCEPT !.pc = "attemptResult", !.outcome = "permanent"]
        /\ UNCHANGED accepted
     \/ /\ worker' = [worker EXCEPT !.pc = "attemptResult", !.outcome = "error"]
        /\ UNCHANGED accepted
  /\ UNCHANGED <<rowVars, api, tickVars, report, used>>

MarkSent ==
  /\ Step("sentStatus", "sentHistory")
  /\ SetStatus(Msg, "sent")
  /\ ext' = [ext EXCEPT ![Msg] = TRUE]
  /\ UNCHANGED <<hist, attempts, events, alerts, jobs, api, tickVars, report,
                 accepted, used>>

SetResult(res) ==
  attempts' = [attempts EXCEPT ![Msg][Len(attempts[Msg])].result = res]

AttemptSent ==
  /\ Step("sentAttempt", "sentEvent")
  /\ SetResult("sent")
  /\ UNCHANGED <<status, hist, ext, events, alerts, jobs, api, tickVars, report,
                 accepted, used>>

\* Mutant: off by one against BullMQ's count.
IsRetryableOffByOne == worker.no <= MaxAttempts

IsRetryable == worker.no < MaxAttempts

\* The attempt row of a refusal (lines 199-203) or of the catch block: only an
\* error with attempts left leaves the status alone.
AttemptResult ==
  /\ \/ /\ worker.outcome = "permanent"
        /\ Step("attemptResult", "failStatus")
        /\ SetResult("permanent_error")
     \/ /\ worker.outcome = "error" /\ ~IsRetryable
        /\ Step("attemptResult", "failStatus")
        /\ SetResult("final_error")
     \/ /\ worker.outcome = "error" /\ IsRetryable
        /\ Step("attemptResult", "finish")
        /\ SetResult("retryable_error")
  /\ UNCHANGED <<status, hist, ext, events, alerts, jobs, api, tickVars, report,
                 accepted, used>>

MarkFailed ==
  /\ Step("failStatus", "failHistory")
  /\ SetStatus(Msg, "failed")
  /\ UNCHANGED <<hist, ext, attempts, events, alerts, jobs, api, tickVars, report,
                 accepted, used>>

RaiseAlert ==
  /\ Step("failAlert", "failEvent")
  /\ alerts' = alerts \cup {Msg}
  /\ UNCHANGED <<status, hist, ext, attempts, events, jobs, api, tickVars, report,
                 accepted, used>>

EmitEvent ==
  /\ \/ Step("sentEvent", "finish") /\ events' = events \cup {<<"message.sent", Msg>>}
     \/ Step("failEvent", "finish") /\ events' = events \cup {<<"message.failed", Msg>>}
  /\ UNCHANGED <<status, hist, ext, attempts, alerts, jobs, api, tickVars, report,
                 accepted, used>>

\* Mutant: one attempt too many.
SettledLate(job) ==
  [job EXCEPT !.made = @ + 1,
              !.state = IF worker.outcome # "error" THEN "completed"
                        ELSE IF job.made < MaxAttempts THEN "wait" ELSE "failed"]

\* BullMQ settles the job: process returned, or threw with or without attempts
\* left.  A job Redis has lost meanwhile has nothing to settle.
Settled(job) ==
  [job EXCEPT !.made = @ + 1,
              !.state = IF worker.outcome # "error" THEN "completed"
                        ELSE IF job.made + 1 < MaxAttempts THEN "wait" ELSE "failed"]

FinishJob ==
  /\ worker.pc = "finish"
  /\ worker' = IdleWorker
  /\ jobs' = IF jobs[worker.job].state = "active"
             THEN [jobs EXCEPT ![worker.job] = Settled(@)] ELSE jobs
  /\ UNCHANGED <<rowVars, api, tickVars, report, accepted, used>>

\* BullMQ's stalled check on a job whose worker died.
StalledCheck(j) ==
  /\ jobs[j].state = "active"
  /\ ~Held(j)
  /\ jobs' = [jobs EXCEPT ![j].stalls = @ + 1,
                          ![j].state = IF jobs[j].stalls + 1 > MaxStalled THEN "failed" ELSE "wait"]
  /\ UNCHANGED <<rowVars, worker, api, tickVars, report, accepted, used>>

-----------------------------------------------------------------------------
(* ScheduledSendScheduler: ticks may overlap; the claim is a compare-and-set *)
(* on status, then come the history row and the job.  A tick takes 50 rows,  *)
(* oldest due first; the model has no batch limit.                           *)

ReadDue(m) ==
  /\ status[m] = "scheduled"
  /\ m \notin due
  /\ due' = due \cup {m}
  /\ UNCHANGED <<rowVars, jobs, worker, api, claim, stuck, report, accepted, used>>

\* Mutant: a plain update instead of the compare-and-set.
ClaimDueUnguarded(m) ==
  /\ m \in due
  /\ due' = due \ {m}
  /\ SetStatus(m, "queued")
  /\ claim' = [claim EXCEPT ![m] = "history"]
  /\ UNCHANGED <<hist, ext, attempts, events, alerts, jobs, worker, api, stuck,
                 report, accepted, used>>

\* Mutant: the claim is not recorded in the history.
ClaimDueUnrecorded(m) ==
  /\ m \in due
  /\ due' = due \ {m}
  /\ IF status[m] = "scheduled"
     THEN SetStatus(m, "queued") /\ claim' = [claim EXCEPT ![m] = "enqueue"]
     ELSE UNCHANGED <<status, claim>>
  /\ UNCHANGED <<hist, ext, attempts, events, alerts, jobs, worker, api, stuck,
                 report, accepted, used>>

ClaimDue(m) ==
  /\ m \in due
  /\ due' = due \ {m}
  /\ IF status[m] = "scheduled"
     THEN SetStatus(m, "queued") /\ claim' = [claim EXCEPT ![m] = "history"]
     ELSE UNCHANGED <<status, claim>>
  /\ UNCHANGED <<hist, ext, attempts, events, alerts, jobs, worker, api, stuck,
                 report, accepted, used>>

ClaimHistory(m) ==
  /\ claim[m] = "history"
  /\ AddHistory(m, "queued")
  /\ claim' = [claim EXCEPT ![m] = "enqueue"]
  /\ UNCHANGED <<status, ext, attempts, events, alerts, jobs, worker, api, due, stuck,
                 report, accepted, used>>

ClaimEnqueue(m) ==
  /\ claim[m] = "enqueue"
  /\ AddJob(<<m, 0>>)
  /\ claim' = [claim EXCEPT ![m] = "none"]
  /\ UNCHANGED <<rowVars, worker, api, due, stuck, report, accepted, used>>

(* ReconciliationScheduler: whether the plain job id is known to BullMQ, in  *)
(* any state, decides.  A pass takes the 100 oldest rows; the model has no   *)
(* batch limit, so a hundred forgotten messages do not hide the others.      *)

\* Mutant: only queued messages are looked for.
ReadStuckQueuedOnly(m) ==
  /\ status[m] = "queued"
  /\ m \notin stuck
  /\ stuck' = stuck \cup {m}
  /\ UNCHANGED <<rowVars, jobs, worker, api, due, claim, report, accepted, used>>

ReadStuck(m) ==
  /\ status[m] \in {"queued", "dispatching"}
  /\ m \notin stuck
  /\ stuck' = stuck \cup {m}
  /\ UNCHANGED <<rowVars, jobs, worker, api, due, claim, report, accepted, used>>

\* Mutant: the job is added whether or not BullMQ knows the id.
ReconcileRegardless(m) ==
  /\ m \in stuck
  /\ stuck' = stuck \ {m}
  /\ jobs' = [jobs EXCEPT ![<<m, 0>>] = IF @.state = "active" THEN @ ELSE NewJob]
  /\ UNCHANGED <<rowVars, worker, api, due, claim, report, accepted, used>>

Reconcile(m) ==
  /\ m \in stuck
  /\ stuck' = stuck \ {m}
  /\ AddJob(<<m, 0>>)
  /\ UNCHANGED <<rowVars, worker, api, due, claim, report, accepted, used>>

-----------------------------------------------------------------------------
(* applyStatus: a report names the external id, so it only finds messages    *)
(* whose external id is stored; it is read, compared, and written blindly.   *)

Rank(s) == CASE s = "queued" -> 1 [] s = "dispatching" -> 2 [] s = "sent" -> 4
             [] s = "delivered" -> 5 [] s = "read" -> 6 [] OTHER -> 0

\* Mutant: reports are applied in the order they arrive.
ReportReadUnranked(p, m, next) ==
  /\ report[p].pc = "idle"
  /\ ext[m]
  /\ used.report < MaxReports
  /\ used' = [used EXCEPT !.report = @ + 1]
  /\ report' = [report EXCEPT ![p] = [pc |-> "update", msg |-> m, next |-> next]]
  /\ UNCHANGED <<rowVars, jobs, worker, api, tickVars, accepted>>

ReportRead(p, m, next) ==
  /\ report[p].pc = "idle"
  /\ ext[m]
  /\ next = "failed" \/ Rank(next) > Rank(status[m])
  /\ used.report < MaxReports
  /\ used' = [used EXCEPT !.report = @ + 1]
  /\ report' = [report EXCEPT ![p] = [pc |-> "update", msg |-> m, next |-> next]]
  /\ UNCHANGED <<rowVars, jobs, worker, api, tickVars, accepted>>

ReportUpdate(p) ==
  /\ report[p].pc = "update"
  /\ SetStatus(report[p].msg, report[p].next)
  /\ report' = [report EXCEPT ![p].pc = "history"]
  /\ UNCHANGED <<hist, ext, attempts, events, alerts, jobs, worker, api, tickVars,
                 accepted, used>>

ReportHistory(p) ==
  /\ report[p].pc = "history"
  /\ AddHistory(report[p].msg, report[p].next)
  /\ report' = [report EXCEPT ![p] = IdleReporter]
  /\ UNCHANGED <<status, ext, attempts, events, alerts, jobs, worker, api, tickVars,
                 accepted, used>>

-----------------------------------------------------------------------------
(* Failures.                                                                 *)

Fault(kind) ==
  /\ kind \in Faults
  /\ used.fault < MaxFaults
  /\ used' = [used EXCEPT !.fault = @ + 1]

\* The API process dies, or a call of the handler throws, between two awaits.
RequestAbandoned(r) ==
  /\ Fault("abandoned")
  /\ api[r].pc # "idle"
  /\ api' = [api EXCEPT ![r] = IdleRequest]
  /\ UNCHANGED <<rowVars, jobs, worker, tickVars, report, accepted>>

\* The history write fails, or add() fails and the error is swallowed.
ClaimAbandoned(m) ==
  /\ Fault("abandoned")
  /\ claim[m] # "none"
  /\ claim' = [claim EXCEPT ![m] = "none"]
  /\ UNCHANGED <<rowVars, jobs, worker, api, due, stuck, report, accepted>>

WorkerCrash ==
  /\ Fault("workerCrash")
  /\ worker' = IdleWorker
  /\ due' = {}
  /\ claim' = [m \in Messages |-> "none"]
  /\ stuck' = {}
  /\ report' = [p \in Reporters |-> IdleReporter]
  /\ UNCHANGED <<rowVars, jobs, api, accepted>>

RedisLoss ==
  /\ Fault("redisLoss")
  /\ \E j \in JobIds : jobs[j].state # "absent"
  /\ jobs' = [j \in JobIds |-> NoJob]
  /\ UNCHANGED <<rowVars, worker, api, tickVars, report, accepted>>

\* Where process goes when the database call at `pc` fails: before the try block
\* it throws; inside, it enters the catch block, also after the provider has
\* accepted; inside the catch block it throws; alerts and events swallow errors.
AfterDbError(pc) ==
  CASE pc \in {"load", "dispatchHistory", "attempt"} -> "finish"
    [] pc \in {"sentStatus", "sentHistory", "sentAttempt"} -> "attemptResult"
    [] pc \in {"attemptResult", "failStatus", "failHistory"} ->
         IF worker.outcome = "permanent" THEN "attemptResult" ELSE "finish"
    [] pc = "failAlert" -> "failEvent"
    [] pc \in {"sentEvent", "failEvent"} -> "finish"

DbError ==
  /\ Fault("dbError")
  /\ worker.pc \notin {"idle", "call", "finish"}
  /\ worker' = [worker EXCEPT !.pc = AfterDbError(@),
                              !.outcome = IF worker.pc \in {"failAlert", "sentEvent", "failEvent"}
                                          THEN @ ELSE "error"]
  /\ UNCHANGED <<rowVars, jobs, api, tickVars, report, accepted>>

AnswerLost ==
  /\ Fault("lostAnswer")
  /\ worker.pc = "call"
  /\ CountCall
  /\ accepted' = [accepted EXCEPT ![Msg] = @ + 1]
  /\ worker' = [worker EXCEPT !.pc = "attemptResult", !.outcome = "error"]
  /\ UNCHANGED <<rowVars, api, tickVars, report>>

-----------------------------------------------------------------------------
ApiNext(r) ==
  \/ \E m \in Messages : \/ \E later \in BOOLEAN : Send(r, m, later)
                         \/ RetryRead(r, m)
                         \/ CancelRead(r, m)
  \/ EnqueueSend(r)
  \/ RetryTx(r)
  \/ CancelTx(r)
  \/ CancelRemove(r)

ProcessorNext ==
  \/ MarkDispatching
  \/ WriteHistory
  \/ CreateAttempt
  \/ CallAdapter
  \/ MarkSent
  \/ AttemptSent
  \/ AttemptResult
  \/ MarkFailed
  \/ RaiseAlert
  \/ EmitEvent
  \/ FinishJob

SchedulerNext(m) ==
  \/ ReadDue(m)
  \/ ClaimDue(m)
  \/ ClaimHistory(m)
  \/ ClaimEnqueue(m)

ReportNext(p) ==
  \/ \E m \in Messages, next \in Reported : ReportRead(p, m, next)
  \/ ReportUpdate(p)
  \/ ReportHistory(p)

FaultNext ==
  \/ \E r \in Requests : RequestAbandoned(r)
  \/ \E m \in Messages : ClaimAbandoned(m)
  \/ WorkerCrash
  \/ RedisLoss
  \/ DbError
  \/ AnswerLost

Next ==
  \/ \E r \in Requests : ApiNext(r)
  \/ \E j \in JobIds : PickUp(j) \/ StalledCheck(j)
  \/ ProcessorNext
  \/ \E m \in Messages : SchedulerNext(m) \/ ReadStuck(m) \/ Reconcile(m)
  \/ \E p \in Reporters : ReportNext(p)
  \/ FaultNext

Spec == Init /\ [][Next]_vars

\* An accepted request runs on, the worker takes the jobs it has, and cron runs
\* the ticks forever; nobody has to send, cancel, retry, report or fail.
Fairness ==
  /\ \A r \in Requests : WF_vars(EnqueueSend(r) \/ RetryTx(r) \/ CancelTx(r) \/ CancelRemove(r))
  /\ \A j \in JobIds : WF_vars(PickUp(j)) /\ WF_vars(StalledCheck(j))
  /\ WF_vars(ProcessorNext)
  /\ \A m \in Messages : /\ WF_vars(ReadDue(m)) /\ WF_vars(ClaimDue(m))
                         /\ WF_vars(ClaimHistory(m)) /\ WF_vars(ClaimEnqueue(m))
                         /\ WF_vars(ReadStuck(m)) /\ WF_vars(Reconcile(m))
  /\ \A p \in Reporters : WF_vars(ReportUpdate(p) \/ ReportHistory(p))

FairSpec == Spec /\ Fairness
-----------------------------------------------------------------------------
(* Safety.                                                                   *)

\* A message is only ever shown as sent, delivered or read, given an external id
\* or announced as sent when the provider has accepted a copy of it, whatever
\* reports, crashes, retries and cancels interleave (process, lines 195-231;
\* applyStatus).
SentOnlyIfAccepted ==
  \A m \in Messages :
    (\/ status[m] \in {"sent", "delivered", "read"}
     \/ ext[m]
     \/ <<"message.sent", m>> \in events) => accepted[m] > 0

\* One job calls the provider at most MAX_SEND_ATTEMPTS times, plus once for each
\* time BullMQ restarts it after a stall: crashes cannot make a job call on.
CallsBounded ==
  \A j \in JobIds : jobs[j].calls <= MaxAttempts + MaxStalled

\* The processor counts attempts by itself (attemptsMade + 1 against
\* MAX_SEND_ATTEMPTS) and BullMQ counts them too.  Without failures the two agree:
\* when BullMQ gives a job up, the processor has recorded the failure in the
\* history, raised the alert and emitted message.failed.
GivenUpIsAnnounced ==
  used.fault = 0 =>
    \A j \in JobIds : jobs[j].state = "failed" =>
      /\ "failed" \in hist[MsgOf(j)]
      /\ MsgOf(j) \in alerts
      /\ <<"message.failed", MsgOf(j)>> \in events

\* The statuses whose history row some handler is about to write for m.
HistoryDue(m) ==
  (IF worker.pc # "idle" /\ Msg = m
   THEN CASE worker.pc = "dispatchHistory" -> {"dispatching"}
          [] worker.pc = "sentHistory" -> {"sent"}
          [] worker.pc = "failHistory" -> {"failed"}
          [] OTHER -> {}
   ELSE {})
  \cup (IF claim[m] = "history" THEN {"queued"} ELSE {})
  \cup {report[p].next : p \in {q \in Reporters : report[q].pc = "history" /\ report[q].msg = m}}

HistoryKept ==
  \A m \in Messages : status[m] # "none" => status[m] \in hist[m] \cup HistoryDue(m)

\* As long as nothing fails, the current status of every message has its row in
\* message_status_history, except while the handler that wrote it is between the
\* two writes: no interleaving of API, worker, scheduler and reports loses one.
HistoryComplete == used.fault = 0 => HistoryKept

\* Without failures every copy of a message beyond the first is paid for by an
\* operator's retry or cancel (removing the job lets the reconciler re-add it);
\* the scheduler, the reconciler and the queue alone never send a message twice.
ExtraCopiesAreAskedFor ==
  used.fault = 0 =>
    \A m \in Messages : accepted[m] <= 1 + used.retry + used.cancel

\* A cancelled message goes back to queued only by an operator's retry: a
\* scheduler tick that read its list before the cancellation does not revive it
\* (the compare-and-set of dispatchDueMessages).
CancelledRequeuedByRetryOnly ==
  [][\A m \in Messages :
       status[m] = "cancelled" /\ status'[m] = "queued" =>
         \E r \in Requests : api[r].pc = "retryTx" /\ api[r].msg = m]_vars

\* A report other than "failed" never takes a message back in its lifecycle, even
\* though the status it was compared with may have changed before it is written
\* (applyStatus, reports handled one at a time).
ReportsAdvance ==
  [][\A p \in Reporters :
       report[p].pc = "update" /\ report'[p].pc = "history" /\ report[p].next # "failed" =>
         Rank(status'[report[p].msg]) >= Rank(status[report[p].msg])]_vars

-----------------------------------------------------------------------------
(* What comments and documents say of the pipeline.                          *)

\* messages.service.ts:274, "cancellation in DB still stands": no job takes a
\* cancelled message to the transport.
CancellationStands ==
  [][\A m \in Messages : ~(status[m] = "cancelled" /\ status'[m] = "dispatching")]_vars

Stuck(m) == status[m] \in {"queued", "dispatching"}

RunnableJob(m) ==
  \E j \in JobIds : MsgOf(j) = m /\ jobs[j].state \in {"wait", "active"}

\* A job can still run, or a handler is on its way to add one.
JobComing(m) ==
  \/ RunnableJob(m)
  \/ \E r \in Requests : api[r].msg = m /\ api[r].pc \in {"retryTx", "enqueue"}
  \/ claim[m] # "none"

\* A failure has left the message without a job to come while BullMQ still keeps
\* a finished job under its plain id, so that getJob finds it and the reconciler
\* goes on to the next one (reconciliation.scheduler.ts:46-47).
Forgotten(m) ==
  /\ used.fault > 0
  /\ ~JobComing(m)
  /\ jobs[<<m, 0>>].state \in {"completed", "failed"}

\* A queued or dispatching message leaves that state in the end, whatever the API,
\* the worker, the ticks and the reports interleave: without failures always, and
\* with failures unless one has left it Forgotten.
StuckRecovered == \A m \in Messages : Stuck(m) ~> ~Stuck(m) \/ Forgotten(m)

\* reconciliation.scheduler.ts:14, "Re-enqueues messages stuck in queued/dispatching
\* without an active BullMQ job (e.g. after Redis loss/restart)": such a message has
\* a job again, or has left those states, in the end.  Held under the loss of Redis
\* or of an answer; not held once any other failure leaves it Forgotten.
StuckReenqueued ==
  \A m \in Messages : Stuck(m) /\ ~RunnableJob(m) ~> ~Stuck(m) \/ RunnableJob(m)
=============================================================================
