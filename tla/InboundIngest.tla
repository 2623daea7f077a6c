---------------------------- MODULE InboundIngest ----------------------------
(***************************************************************************)
(* How a received message becomes a row, a conversation and an event: the  *)
(* vendor webhooks of the API, which only queue the payload, the queue     *)
(* "inbound.ingest" with its processor, the frames of the Signal socket,   *)
(* which are ingested at once and concurrently, InboundIngestService.      *)
(* ingest and persist, and the API's send, which opens conversations too.  *)
(*                                                                         *)
(* Every awaited database call is one step.  A notice is one arrival of a  *)
(* vendor payload; vendors repeat notices of the same external id.         *)
(* Delivery reports are in module MessageSend and SMS segments in module   *)
(* SmsConcat; fetching media fails silently and changes no row modelled    *)
(* here.                                                                   *)
(***************************************************************************)
EXTENDS Integers, FiniteSets

CONSTANTS
  Notices,      \* arrivals of vendor payloads
  Frames,       \* the notices that arrive on the Signal socket
  Externals,    \* external ids of messages
  ExtOf,        \* the external id a notice carries
  Peers,        \* counterparties
  Numbered,     \* peers with a phone number
  PeerOf,       \* the counterparty of a message
  AtOf,         \* receivedAt of a message
  Senders,      \* concurrent API handlers that send to a peer
  Threads,      \* ids of conversations rows
  None,         \* no thread / no peer
  MaxTime,      \* bound: the clock
  MaxAttempts,  \* attempts option of inbound.ingest jobs
  MaxStalled,   \* BullMQ's maxStalledCount
  Faults,       \* kinds of failure that may happen
  MaxFaults     \* bound: failures

FaultKinds == {"callFails",    \* a database call of persist throws
               "workerCrash"}  \* the worker process dies

ASSUME BoundsAssumption ==
  /\ MaxAttempts \in Nat \ {0}
  /\ {MaxTime, MaxStalled, MaxFaults} \subseteq Nat
  /\ Faults \subseteq FaultKinds
  /\ None \notin Threads \cup Peers

ASSUME DataAssumption ==
  /\ Frames \subseteq Notices
  /\ Numbered \subseteq Peers
  /\ ExtOf \in [Notices -> Externals]
  /\ PeerOf \in [Externals -> Peers]
  /\ AtOf \in [Externals -> 0..MaxTime]

VARIABLES
  clock,      \* the current time
  job,        \* inbound.ingest job of a notice
  run,        \* the running call of ingest for a notice
  rows,       \* how many messages rows an external id has
  filed,      \* the conversations those rows belong to
  peer,       \* conversations: whose it is (None: no such row)
  lastAt,     \* conversations.last_message_at
  announced,  \* external ids with a message.received event
  send,       \* the running calls of MessagesService.send
  faults      \* failures so far

vars == <<clock, job, run, rows, filed, peer, lastAt, announced, send, faults>>

NoJob == [state |-> "absent", made |-> 0, stalls |-> 0]
IdleRun == [pc |-> "idle", thread |-> None]
IdleSend == [pc |-> "idle", peer |-> None, thread |-> None]

\* The type invariant.
TypeOK ==
  /\ clock \in 0..MaxTime
  /\ job \in [Notices -> [state : {"absent", "wait", "active", "completed", "failed", "taken"},
                          made : 0..MaxAttempts, stalls : 0..(MaxStalled + 1)]]
  /\ run \in [Notices -> [pc : {"idle", "check", "find", "open", "create", "bump", "emit"},
                          thread : Threads \cup {None}]]
  /\ rows \in [Externals -> Nat]
  /\ filed \in [Externals -> SUBSET Threads]
  /\ peer \in [Threads -> Peers \cup {None}]
  /\ lastAt \in [Threads -> 0..MaxTime]
  /\ announced \in SUBSET Externals
  /\ send \in [Senders -> [pc : {"idle", "find", "open", "write"}, peer : Peers \cup {None},
                           thread : Threads \cup {None}]]
  /\ faults \in 0..MaxFaults
  /\ \A n \in Notices : run[n].pc \in {"create", "bump"} =>
       run[n].thread \in Threads /\ peer[run[n].thread] = PeerOf[ExtOf[n]]

Init ==
  /\ clock = 0
  /\ job = [n \in Notices |-> NoJob]
  /\ run = [n \in Notices |-> IdleRun]
  /\ rows = [x \in Externals |-> 0]
  /\ filed = [x \in Externals |-> {}]
  /\ peer = [c \in Threads |-> None]
  /\ lastAt = [c \in Threads |-> 0]
  /\ announced = {}
  /\ send = [s \in Senders |-> IdleSend]
  /\ faults = 0

storeVars == <<rows, filed, peer, lastAt, announced>>

Later ==
  /\ clock < MaxTime
  /\ clock' = clock + 1
  /\ UNCHANGED <<job, run, storeVars, send, faults>>

-----------------------------------------------------------------------------
(* Arrival.                                                                  *)

Ext(n) == ExtOf[n]
From(n) == PeerOf[ExtOf[n]]

\* A webhook is answered as soon as its payload is queued.
AcceptWebhook(n) ==
  /\ n \notin Frames
  /\ job[n].state = "absent"
  /\ AtOf[Ext(n)] <= clock
  /\ job' = [job EXCEPT ![n].state = "wait"]
  /\ UNCHANGED <<clock, run, storeVars, send, faults>>

\* A socket frame is handled at once; nobody waits for the handler.
HandleFrame(n) ==
  /\ n \in Frames
  /\ job[n].state = "absent"
  /\ AtOf[Ext(n)] <= clock
  /\ job' = [job EXCEPT ![n].state = "taken"]
  /\ run' = [run EXCEPT ![n].pc = "check"]
  /\ UNCHANGED <<clock, storeVars, send, faults>>

\* The processor runs one job at a time.
PickUp(n) ==
  /\ job[n].state = "wait"
  /\ \A o \in Notices \ Frames : run[o].pc = "idle"
  /\ job' = [job EXCEPT ![n].state = "active"]
  /\ run' = [run EXCEPT ![n].pc = "check"]
  /\ UNCHANGED <<clock, storeVars, send, faults>>

-----------------------------------------------------------------------------
(* persist.                                                                  *)

Goto(n, from, to) ==
  /\ run[n].pc = from
  /\ run' = [run EXCEPT ![n].pc = to]

\* ingest returns: BullMQ completes the job, if there is one.
Return(n) ==
  /\ run' = [run EXCEPT ![n] = IdleRun]
  /\ job' = IF job[n].state = "active" THEN [job EXCEPT ![n].state = "completed"] ELSE job

\* Mutant: repeated notices are not recognised.
CheckExistingNever(n) ==
  /\ Goto(n, "check", "find")
  /\ UNCHANGED <<clock, job, storeVars, send, faults>>

CheckExisting(n) ==
  /\ run[n].pc = "check"
  /\ IF rows[Ext(n)] > 0 THEN Return(n)
     ELSE run' = [run EXCEPT ![n].pc = "find"] /\ UNCHANGED job
  /\ UNCHANGED <<clock, storeVars, send, faults>>

ThreadsOf(p) == {c \in Threads : peer[c] = p}

\* findFirst: any conversation of the peer.
FindThread(n) ==
  /\ run[n].pc = "find"
  /\ \/ \E c \in ThreadsOf(From(n)) : run' = [run EXCEPT ![n] = [pc |-> "create", thread |-> c]]
     \/ ThreadsOf(From(n)) = {} /\ run' = [run EXCEPT ![n].pc = "open"]
  /\ UNCHANGED <<clock, job, storeVars, send, faults>>

\* Mutant: no unique index on (endpoint_id, peer_phone_e164).
InsertThreadFreely(p, c) ==
  /\ peer[c] = None
  /\ peer' = [peer EXCEPT ![c] = p]
  /\ lastAt' = [lastAt EXCEPT ![c] = clock]

\* The insert of a conversation, or of a peer with a number the row of whoever
\* was faster: the unique index refuses the second (NULL numbers never clash).
InsertThread(p, c) ==
  \/ /\ p \notin Numbered \/ ThreadsOf(p) = {}
     /\ peer[c] = None
     /\ peer' = [peer EXCEPT ![c] = p]
     /\ lastAt' = [lastAt EXCEPT ![c] = clock]
  \/ /\ p \in Numbered
     /\ c \in ThreadsOf(p)
     /\ UNCHANGED <<peer, lastAt>>

OpenThread(n) ==
  /\ run[n].pc = "open"
  /\ \E c \in Threads : /\ InsertThread(From(n), c)
                        /\ run' = [run EXCEPT ![n] = [pc |-> "create", thread |-> c]]
  /\ UNCHANGED <<clock, job, rows, filed, announced, send, faults>>

CreateMessage(n) ==
  /\ Goto(n, "create", "bump")
  /\ rows' = [rows EXCEPT ![Ext(n)] = @ + 1]
  /\ filed' = [filed EXCEPT ![Ext(n)] = @ \cup {run[n].thread}]
  /\ UNCHANGED <<clock, job, peer, lastAt, announced, send, faults>>

\* Mutant: last_message_at is simply overwritten.
BumpBlindly(n) ==
  /\ Goto(n, "bump", "emit")
  /\ lastAt' = [lastAt EXCEPT ![run[n].thread] = AtOf[Ext(n)]]
  /\ UNCHANGED <<clock, job, rows, filed, peer, announced, send, faults>>

\* updateMany ... where last_message_at < at: only ever forward.
Bump(n) ==
  /\ Goto(n, "bump", "emit")
  /\ lastAt' = [lastAt EXCEPT ![run[n].thread] = IF @ < AtOf[Ext(n)] THEN AtOf[Ext(n)] ELSE @]
  /\ UNCHANGED <<clock, job, rows, filed, peer, announced, send, faults>>

\* Mutant: nothing is emitted.
EmitNothing(n) ==
  /\ run[n].pc = "emit"
  /\ Return(n)
  /\ UNCHANGED <<clock, storeVars, send, faults>>

EmitReceived(n) ==
  /\ run[n].pc = "emit"
  /\ announced' = announced \cup {Ext(n)}
  /\ Return(n)
  /\ UNCHANGED <<clock, rows, filed, peer, lastAt, send, faults>>

-----------------------------------------------------------------------------
(* MessagesService.send, as far as conversations go.                         *)

SendStart(s, p) ==
  /\ send[s].pc = "idle"
  /\ send' = [send EXCEPT ![s] = [pc |-> "find", peer |-> p, thread |-> None]]
  /\ UNCHANGED <<clock, job, run, storeVars, faults>>

SendFind(s) ==
  /\ send[s].pc = "find"
  /\ \/ \E c \in ThreadsOf(send[s].peer) :
          send' = [send EXCEPT ![s].pc = "write", ![s].thread = c]
     \/ ThreadsOf(send[s].peer) = {} /\ send' = [send EXCEPT ![s].pc = "open"]
  /\ UNCHANGED <<clock, job, run, storeVars, faults>>

SendOpen(s) ==
  /\ send[s].pc = "open"
  /\ \E c \in Threads : /\ InsertThread(send[s].peer, c)
                        /\ send' = [send EXCEPT ![s].pc = "write", ![s].thread = c]
  /\ UNCHANGED <<clock, job, run, rows, filed, announced, faults>>

\* The transaction stamps the conversation with the current time.
SendWrite(s) ==
  /\ send[s].pc = "write"
  /\ lastAt' = [lastAt EXCEPT ![send[s].thread] = clock]
  /\ send' = [send EXCEPT ![s] = IdleSend]
  /\ UNCHANGED <<clock, job, run, rows, filed, peer, announced, faults>>

-----------------------------------------------------------------------------
(* Failures.                                                                 *)

Fault(kind) ==
  /\ kind \in Faults
  /\ faults < MaxFaults
  /\ faults' = faults + 1

\* Mutant: the queue keeps BullMQ's default of one attempt.
CallFailsOnce(n) ==
  /\ Fault("callFails")
  /\ run[n].pc # "idle"
  /\ run' = [run EXCEPT ![n] = IdleRun]
  /\ job' = IF job[n].state = "active"
            THEN [job EXCEPT ![n].made = @ + 1, ![n].state = "failed"] ELSE job
  /\ UNCHANGED <<clock, storeVars, send>>

\* A job that throws is tried again; a frame that throws is logged and lost.
CallFails(n) ==
  /\ Fault("callFails")
  /\ run[n].pc # "idle"
  /\ run' = [run EXCEPT ![n] = IdleRun]
  /\ job' = IF job[n].state = "active"
            THEN [job EXCEPT ![n].made = @ + 1,
                             ![n].state = IF job[n].made + 1 < MaxAttempts THEN "wait" ELSE "failed"]
            ELSE job
  /\ UNCHANGED <<clock, storeVars, send>>

WorkerCrash ==
  /\ Fault("workerCrash")
  /\ run' = [n \in Notices |-> IdleRun]
  /\ UNCHANGED <<clock, job, storeVars, send>>

\* BullMQ's stalled check on a job whose worker died.
StalledCheck(n) ==
  /\ job[n].state = "active"
  /\ run[n].pc = "idle"
  /\ job' = [job EXCEPT ![n].stalls = @ + 1,
                        ![n].state = IF job[n].stalls + 1 > MaxStalled THEN "failed" ELSE "wait"]
  /\ UNCHANGED <<clock, run, storeVars, send, faults>>

-----------------------------------------------------------------------------
PersistNext(n) ==
  \/ CheckExisting(n)
  \/ FindThread(n)
  \/ OpenThread(n)
  \/ CreateMessage(n)
  \/ Bump(n)
  \/ EmitReceived(n)

Next ==
  \/ Later
  \/ \E n \in Notices : \/ AcceptWebhook(n)
                        \/ HandleFrame(n)
                        \/ PickUp(n)
                        \/ PersistNext(n)
                        \/ CallFails(n)
                        \/ StalledCheck(n)
  \/ \E s \in Senders : \/ \E p \in Peers : SendStart(s, p)
                        \/ SendFind(s)
                        \/ SendOpen(s)
                        \/ SendWrite(s)
  \/ WorkerCrash

Spec == Init /\ [][Next]_vars

\* The worker takes the jobs it has and carries on with what it runs; BullMQ
\* looks for stalled jobs.  Nothing has to arrive or fail.
Fairness ==
  \A n \in Notices : /\ WF_vars(PickUp(n)) /\ WF_vars(StalledCheck(n))
                     /\ WF_vars(PersistNext(n))

FairSpec == Spec /\ Fairness

-----------------------------------------------------------------------------
(* Safety.                                                                   *)

\* A peer with a phone number has one conversation, however many notices and API
\* sends look it up and open it at the same time (findOrCreateConversation on
\* both sides, and the unique index).
OneThreadPerNumber ==
  \A p \in Numbered : Cardinality(ThreadsOf(p)) <= 1

\* What only ever arrives through the queue is stored once: the processor is
\* sequential, so a repeated or retried notice sees the row of the first.
QueueStoresOnce ==
  \A x \in Externals :
    (\A n \in Frames : ExtOf[n] # x) => rows[x] <= 1

\* A message.received event speaks of a stored message, in a conversation of its
\* sender, whose last_message_at is not older than the message: late and
\* replayed messages never push a thread back.
AnnouncedIsFiled ==
  \A x \in announced :
    /\ rows[x] > 0
    /\ \E c \in filed[x] : peer[c] = PeerOf[x] /\ lastAt[c] >= AtOf[x]

\* Some call of persist is between storing x and announcing it.
Announcing(x) == \E n \in Notices : ExtOf[n] = x /\ run[n].pc \in {"bump", "emit"}

\* Without failures every stored message has its message.received event.
StoredIsAnnounced ==
  faults = 0 =>
    \A x \in Externals : rows[x] > 0 => x \in announced \/ Announcing(x)

\* A stored message and its event go together: what is announced is filed, and
\* what is stored is announced.
FiledAndAnnounced == AnnouncedIsFiled /\ StoredIsAnnounced

-----------------------------------------------------------------------------
(* Liveness.                                                                 *)

\* A webhook that was answered with 200 is stored in the end, although the worker
\* dies or a call fails, up to what BullMQ's attempts and stalled restarts allow.
AcceptedIsStored ==
  \A n \in Notices :
    job[n].state = "wait" ~> rows[Ext(n)] > 0 \/ faults > MaxStalled

-----------------------------------------------------------------------------
(* What documents say of incoming messages.                                  *)

\* overview.md:192, "No accepted inbound event is lost on API/worker restart
\* (outbox pattern)": a stored message is announced once nothing is left running
\* or queued for it.
NoEventLost ==
  \A x \in Externals :
    rows[x] > 0 /\ (\A n \in Notices : ExtOf[n] = x =>
                      run[n].pc = "idle" /\ job[n].state \notin {"wait", "active"}) =>
      x \in announced
=============================================================================
