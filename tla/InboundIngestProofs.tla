------------------------- MODULE InboundIngestProofs -------------------------
(***************************************************************************)
(* What TLAPS proves of InboundIngest for every set of notices, messages,  *)
(* peers, senders and conversations, every bound and every kind of         *)
(* failure: the safety invariants that its run checks on three notices.    *)
(***************************************************************************)
EXTENDS InboundIngest, FiniteSetTheorems, TLAPS

USE BoundsAssumption, DataAssumption

-----------------------------------------------------------------------------
(* The inductive invariant.                                                  *)

Started(n) == run[n].pc # "idle"

\* A job that may still run has attempts and stalls left; a frame never has a
\* job, and a message that was taken on is not from the future.
JobsInOrder ==
  \A n \in Notices :
    /\ job[n].state \in {"absent", "wait", "active"} =>
         job[n].made < MaxAttempts /\ job[n].stalls <= MaxStalled
    /\ n \in Frames => job[n].state \in {"absent", "taken"}
    /\ n \notin Frames => job[n].state # "taken"
    /\ job[n].state # "absent" => AtOf[Ext(n)] <= clock

\* Calls of the processor run for an active job, one at a time; calls for frames
\* run as they come.
OneAtATime ==
  /\ \A n \in Notices : Started(n) => job[n].state \in {"active", "taken"}
  /\ \A n, o \in Notices \ Frames : Started(n) /\ Started(o) => n = o

\* A conversation, once found or opened, is and stays that of the peer.
ThreadsHeld ==
  /\ \A n \in Notices : run[n].pc \in {"create", "bump", "emit"} =>
       run[n].thread \in Threads /\ peer[run[n].thread] = From(n)
  /\ \A s \in Senders :
       /\ send[s].pc # "idle" => send[s].peer \in Peers
       /\ send[s].pc = "write" => send[s].thread \in Threads /\ peer[send[s].thread] = send[s].peer

\* The unique index on (endpoint_id, peer_phone_e164).
UniqueIndex ==
  \A p \in Numbered : \A c, d \in ThreadsOf(p) : c = d

\* No conversation is stamped with a time to come.
NotAhead == \A c \in Threads : lastAt[c] <= clock

QueueOnly(x) == \A n \in Frames : ExtOf[n] # x

\* Between the check for an existing row and the insert, nobody else stores a
\* message that only arrives through the queue.
ChecksHold ==
  /\ \A n \in Notices : run[n].pc \in {"find", "open", "create"} /\ QueueOnly(Ext(n)) => rows[Ext(n)] = 0
  /\ QueueStoresOnce

\* What a call that has stored its message relies on.
Stored ==
  \A n \in Notices :
    /\ run[n].pc \in {"bump", "emit"} => rows[Ext(n)] > 0 /\ run[n].thread \in filed[Ext(n)]
    /\ run[n].pc = "emit" => lastAt[run[n].thread] >= AtOf[Ext(n)]

IInv ==
  /\ TypeOK /\ JobsInOrder /\ OneAtATime /\ ThreadsHeld
  /\ UniqueIndex /\ NotAhead
  /\ ChecksHold
  /\ Stored /\ AnnouncedIsFiled /\ StoredIsAnnounced

RunRecords == [pc : {"idle", "check", "find", "open", "create", "bump", "emit"},
               thread : Threads \cup {None}]
JobRecords == [state : {"absent", "wait", "active", "completed", "failed", "taken"},
               made : 0..MaxAttempts, stalls : 0..(MaxStalled + 1)]
SendRecords == [pc : {"idle", "find", "open", "write"}, peer : Peers \cup {None},
                thread : Threads \cup {None}]

-----------------------------------------------------------------------------
(* Effects of single operations.                                             *)

\* The check for an existing row ends the call or lets it go on, with no row.
LEMMA CheckEffect ==
  ASSUME TypeOK, NEW n \in Notices, CheckExisting(n)
  PROVE  /\ run' \in [Notices -> RunRecords] /\ \A o \in Notices \ {n} : run'[o] = run[o]
         /\ run'[n].pc \in {"idle", "find"}
         /\ job' \in [Notices -> JobRecords] /\ \A o \in Notices \ {n} : job'[o] = job[o]
         /\ run'[n].pc = "find" => rows[Ext(n)] = 0 /\ job' = job
<1>1. run \in [Notices -> RunRecords] /\ job \in [Notices -> JobRecords] /\ rows[Ext(n)] \in Nat
  BY DEF TypeOK, RunRecords, JobRecords, Ext
<1>2. CASE rows[Ext(n)] > 0
  <2>1. run' = [run EXCEPT ![n] = IdleRun]
    BY <1>2 DEF CheckExisting, Return
  <2>2. IdleRun \in RunRecords /\ IdleRun.pc = "idle"
    BY DEF IdleRun, RunRecords
  <2>3. job' = job \/ job' = [job EXCEPT ![n].state = "completed"]
    BY <1>2 DEF CheckExisting, Return
  <2>4. job' \in [Notices -> JobRecords] /\ \A o \in Notices \ {n} : job'[o] = job[o]
    BY SMTT(30), <1>1, <2>3 DEF JobRecords
  <2>5. QED
    BY <1>1, <2>1, <2>2, <2>4
<1>3. CASE ~(rows[Ext(n)] > 0)
  <2>1. run' = [run EXCEPT ![n].pc = "find"] /\ job' = job
    BY <1>3 DEF CheckExisting
  <2>2. run' \in [Notices -> RunRecords] /\ run'[n].pc = "find"
        /\ \A o \in Notices \ {n} : run'[o] = run[o]
    BY <1>1, <2>1 DEF RunRecords
  <2>3. QED
    BY <1>1, <1>3, <2>1, <2>2
<1>4. QED
  BY <1>2, <1>3

\* findFirst yields a conversation of the peer, or there is none.
LEMMA FindEffect ==
  ASSUME TypeOK, NEW n \in Notices, FindThread(n)
  PROVE  /\ run[n].pc = "find"
         /\ run' \in [Notices -> RunRecords] /\ \A o \in Notices \ {n} : run'[o] = run[o]
         /\ \/ run'[n].pc = "open"
            \/ run'[n].pc = "create" /\ run'[n].thread \in Threads /\ peer[run'[n].thread] = From(n)
<1>1. run \in [Notices -> RunRecords]
  BY DEF TypeOK, RunRecords
<1>2. ASSUME NEW c \in ThreadsOf(From(n)), run' = [run EXCEPT ![n] = [pc |-> "create", thread |-> c]]
      PROVE  /\ run' \in [Notices -> RunRecords] /\ \A o \in Notices \ {n} : run'[o] = run[o]
             /\ run'[n].pc = "create" /\ run'[n].thread \in Threads /\ peer[run'[n].thread] = From(n)
  BY <1>1, <1>2 DEF ThreadsOf, RunRecords
<1>3. ASSUME run' = [run EXCEPT ![n].pc = "open"]
      PROVE  /\ run' \in [Notices -> RunRecords] /\ \A o \in Notices \ {n} : run'[o] = run[o]
             /\ run'[n].pc = "open"
  BY <1>1, <1>3 DEF RunRecords
<1>4. QED
  BY <1>2, <1>3 DEF FindThread

\* An insert leaves the conversations that exist alone, and what it returns is a
\* conversation of the peer.
LEMMA InsertEffect ==
  ASSUME TypeOK, NEW p \in Peers, NEW c \in Threads, InsertThread(p, c)
  PROVE  /\ peer' \in [Threads -> Peers \cup {None}] /\ lastAt' \in [Threads -> 0..MaxTime]
         /\ peer'[c] = p
         /\ \A d \in Threads : peer[d] # None => peer'[d] = peer[d] /\ lastAt'[d] = lastAt[d]
         /\ \A d \in Threads : lastAt'[d] \in {lastAt[d], clock}
<1>1. peer \in [Threads -> Peers \cup {None}] /\ lastAt \in [Threads -> 0..MaxTime] /\ clock \in 0..MaxTime
  BY DEF TypeOK
<1>2. CASE peer[c] = None /\ peer' = [peer EXCEPT ![c] = p] /\ lastAt' = [lastAt EXCEPT ![c] = clock]
  BY <1>1, <1>2
<1>3. CASE peer[c] = p /\ peer' = peer /\ lastAt' = lastAt
  BY <1>1, <1>3
<1>4. QED
  BY <1>2, <1>3 DEF InsertThread, ThreadsOf

LEMMA OpenEffect ==
  ASSUME TypeOK, NEW n \in Notices, OpenThread(n)
  PROVE  /\ run[n].pc = "open"
         /\ run' \in [Notices -> RunRecords] /\ \A o \in Notices \ {n} : run'[o] = run[o]
         /\ run'[n].pc = "create" /\ run'[n].thread \in Threads /\ peer'[run'[n].thread] = From(n)
         /\ InsertThread(From(n), run'[n].thread)
<1>1. run \in [Notices -> RunRecords] /\ From(n) \in Peers
  BY DEF TypeOK, RunRecords, From
<1>2. PICK c \in Threads : InsertThread(From(n), c) /\ run' = [run EXCEPT ![n] = [pc |-> "create", thread |-> c]]
  BY DEF OpenThread
<1>3. run' \in [Notices -> RunRecords] /\ run'[n].pc = "create" /\ run'[n].thread = c
      /\ \A o \in Notices \ {n} : run'[o] = run[o]
  BY <1>1, <1>2 DEF RunRecords
<1>4. QED
  BY <1>1, <1>2, <1>3, InsertEffect DEF OpenThread

LEMMA SendOpenEffect ==
  ASSUME TypeOK, ThreadsHeld, NEW s \in Senders, SendOpen(s)
  PROVE  /\ send' \in [Senders -> SendRecords]
         /\ send'[s].peer = send[s].peer /\ send[s].peer \in Peers
         /\ send'[s].pc = "write" /\ send'[s].thread \in Threads
         /\ InsertThread(send[s].peer, send'[s].thread)
         /\ \A t \in Senders \ {s} : send'[t] = send[t]
<1>1. send \in [Senders -> SendRecords] /\ send[s].peer \in Peers
  BY DEF TypeOK, SendRecords, ThreadsHeld, SendOpen
<1>2. PICK c \in Threads : /\ InsertThread(send[s].peer, c)
                           /\ send' = [send EXCEPT ![s].pc = "write", ![s].thread = c]
  BY DEF SendOpen
<1>3. /\ send' \in [Senders -> SendRecords] /\ send'[s].pc = "write" /\ send'[s].thread = c
      /\ send'[s].peer = send[s].peer
      /\ \A t \in Senders \ {s} : send'[t] = send[t]
  <2> DEFINE r == [send[s] EXCEPT !.pc = "write"]
             q == [r EXCEPT !.thread = c]
  <2>1. send' = [send EXCEPT ![s] = q]
    BY <1>1, <1>2
  <2>2. r \in SendRecords /\ r.pc = "write" /\ r.peer = send[s].peer
    BY <1>1 DEF SendRecords
  <2> HIDE DEF r
  <2>3. q \in SendRecords /\ q.pc = "write" /\ q.peer = send[s].peer /\ q.thread = c
    BY <1>2, <2>2 DEF SendRecords
  <2> HIDE DEF q
  <2>4. QED
    BY <1>1, <2>1, <2>3
<1>4. QED
  BY <1>1, <1>2, <1>3

-----------------------------------------------------------------------------
(* The steps.                                                               *)

\* Every step keeps the types, and with them the conversation a call holds.
LEMMA TypeStep ==
  TypeOK /\ JobsInOrder /\ ThreadsHeld /\ Next => TypeOK'
<1> SUFFICES ASSUME TypeOK /\ JobsInOrder /\ ThreadsHeld, Next PROVE TypeOK'
  OBVIOUS
<1>Later. ASSUME Later PROVE TypeOK'
  BY <1>Later DEF Later, TypeOK, storeVars, JobsInOrder, ThreadsHeld, Ext, From, IdleRun,
     IdleSend
<1>AcceptWebhook. ASSUME NEW n \in Notices, AcceptWebhook(n) PROVE TypeOK'
  BY <1>AcceptWebhook DEF AcceptWebhook, TypeOK, storeVars, JobsInOrder, ThreadsHeld, Ext,
     From, IdleRun, IdleSend
<1>HandleFrame. ASSUME NEW n \in Notices, HandleFrame(n) PROVE TypeOK'
  BY <1>HandleFrame DEF HandleFrame, TypeOK, storeVars, JobsInOrder, ThreadsHeld, Ext, From,
     IdleRun, IdleSend
<1>PickUp. ASSUME NEW n \in Notices, PickUp(n) PROVE TypeOK'
  <2>1. /\ job' = [job EXCEPT ![n].state = "active"] /\ run' = [run EXCEPT ![n].pc = "check"]
        /\ UNCHANGED <<clock, storeVars, send, faults>>
    BY <1>PickUp DEF PickUp
  <2>2. job' \in [Notices -> JobRecords]
    BY <2>1 DEF TypeOK, JobRecords
  <2>3. run' \in [Notices -> RunRecords] /\ run'[n].pc = "check" /\ \A o \in Notices \ {n} : run'[o] = run[o]
    BY SMTT(30), <2>1 DEF TypeOK, RunRecords
  <2>4. QED
    BY <2>1, <2>2, <2>3 DEF TypeOK, storeVars, JobRecords, RunRecords
<1>CheckExisting. ASSUME NEW n \in Notices, CheckExisting(n) PROVE TypeOK'
  <2>1. UNCHANGED <<clock, storeVars, send, faults>>
    BY <1>CheckExisting DEF CheckExisting
  <2>2. QED
    BY <1>CheckExisting, <2>1, CheckEffect DEF TypeOK, storeVars, RunRecords, JobRecords
<1>FindThread. ASSUME NEW n \in Notices, FindThread(n) PROVE TypeOK'
  <2>1. UNCHANGED <<clock, job, storeVars, send, faults>>
    BY <1>FindThread DEF FindThread
  <2>2. QED
    BY <1>FindThread, <2>1, FindEffect DEF TypeOK, storeVars, RunRecords, From
<1>OpenThread. ASSUME NEW n \in Notices, OpenThread(n) PROVE TypeOK'
  <2>1. UNCHANGED <<clock, job, rows, filed, announced, send, faults>>
    BY <1>OpenThread DEF OpenThread
  <2>2. /\ peer' \in [Threads -> Peers \cup {None}] /\ lastAt' \in [Threads -> 0..MaxTime]
        /\ \A d \in Threads : peer[d] # None => peer'[d] = peer[d]
    BY <1>OpenThread, OpenEffect, InsertEffect DEF From
  <2>3. \A o \in Notices : run'[o].pc \in {"create", "bump"} =>
          run'[o].thread \in Threads /\ peer'[run'[o].thread] = PeerOf[ExtOf[o]]
    BY <1>OpenThread, <2>2, OpenEffect DEF TypeOK, From
  <2>4. QED
    BY <1>OpenThread, <2>1, <2>2, <2>3, OpenEffect DEF TypeOK, RunRecords
<1>CreateMessage. ASSUME NEW n \in Notices, CreateMessage(n) PROVE TypeOK'
  BY <1>CreateMessage DEF CreateMessage, Goto, TypeOK, storeVars, JobsInOrder, ThreadsHeld,
     Ext, From, IdleRun, IdleSend
<1>Bump. ASSUME NEW n \in Notices, Bump(n) PROVE TypeOK'
  BY <1>Bump DEF Bump, Goto, TypeOK, storeVars, JobsInOrder, ThreadsHeld, Ext, From, IdleRun,
     IdleSend
<1>EmitReceived. ASSUME NEW n \in Notices, EmitReceived(n) PROVE TypeOK'
  BY <1>EmitReceived DEF EmitReceived, Return, TypeOK, storeVars, JobsInOrder, ThreadsHeld,
     Ext, From, IdleRun, IdleSend
<1>CallFails. ASSUME NEW n \in Notices, CallFails(n) PROVE TypeOK'
  <2>1. UNCHANGED <<clock, storeVars, send>> /\ faults' \in 0..MaxFaults
    BY <1>CallFails DEF CallFails, Fault, TypeOK
  <2>2. run' = [run EXCEPT ![n] = IdleRun]
    BY <1>CallFails DEF CallFails
  <2>3. job' \in [Notices -> JobRecords]
    <3> DEFINE st == IF job[n].made + 1 < MaxAttempts THEN "wait" ELSE "failed"
    <3>1. job' = job \/ job' = [job EXCEPT ![n] = [state |-> st, made |-> job[n].made + 1, stalls |-> job[n].stalls]]
      BY <1>CallFails DEF CallFails, TypeOK
    <3>2. st \in {"wait", "failed"}
      OBVIOUS
    <3>3. job \in [Notices -> JobRecords]
      BY DEF TypeOK, JobRecords
    <3> HIDE DEF st
    <3>4. job' # job => job[n].made + 1 \in 0..MaxAttempts
      BY <1>CallFails, <3>3 DEF CallFails, JobsInOrder, JobRecords
    <3>5. QED
      BY <3>1, <3>2, <3>3, <3>4 DEF JobRecords
  <2>4. QED
    BY <2>1, <2>2, <2>3 DEF TypeOK, storeVars, JobRecords, IdleRun
<1>StalledCheck. ASSUME NEW n \in Notices, StalledCheck(n) PROVE TypeOK'
  BY <1>StalledCheck DEF StalledCheck, TypeOK, storeVars, JobsInOrder, ThreadsHeld, Ext, From,
     IdleRun, IdleSend
<1>SendStart. ASSUME NEW s \in Senders, NEW p \in Peers, SendStart(s, p) PROVE TypeOK'
  BY <1>SendStart DEF SendStart, TypeOK, storeVars, JobsInOrder, ThreadsHeld, Ext, From,
     IdleRun, IdleSend
<1>SendFind. ASSUME NEW s \in Senders, SendFind(s) PROVE TypeOK'
  <2>1. UNCHANGED <<clock, job, run, storeVars, faults>>
    BY <1>SendFind DEF SendFind
  <2>2. send \in [Senders -> SendRecords]
    BY DEF TypeOK, SendRecords
  <2>3. ASSUME NEW c \in ThreadsOf(send[s].peer), send' = [send EXCEPT ![s].pc = "write", ![s].thread = c]
        PROVE  send' \in [Senders -> SendRecords]
    <3>1. c \in Threads
      BY DEF ThreadsOf
    <3>2. QED
      BY ZenonT(60), <2>2, <2>3, <3>1 DEF SendRecords
  <2>4. ASSUME send' = [send EXCEPT ![s].pc = "open"] PROVE send' \in [Senders -> SendRecords]
    BY <2>2, <2>4 DEF SendRecords
  <2>5. QED
    BY SMTT(30), <1>SendFind, <2>1, <2>3, <2>4 DEF SendFind, TypeOK, storeVars, SendRecords
<1>SendOpen. ASSUME NEW s \in Senders, SendOpen(s) PROVE TypeOK'
  <2>1. UNCHANGED <<clock, job, run, rows, filed, announced, faults>>
    BY <1>SendOpen DEF SendOpen
  <2>2. /\ peer' \in [Threads -> Peers \cup {None}] /\ lastAt' \in [Threads -> 0..MaxTime]
        /\ \A d \in Threads : peer[d] # None => peer'[d] = peer[d]
    BY <1>SendOpen, SendOpenEffect, InsertEffect
  <2>3. \A o \in Notices : run[o].pc \in {"create", "bump"} =>
          run[o].thread \in Threads /\ peer'[run[o].thread] = PeerOf[ExtOf[o]]
    BY <2>2 DEF TypeOK
  <2>4. QED
    BY <1>SendOpen, <2>1, <2>2, <2>3, SendOpenEffect DEF TypeOK, SendRecords
<1>SendWrite. ASSUME NEW s \in Senders, SendWrite(s) PROVE TypeOK'
  BY <1>SendWrite DEF SendWrite, TypeOK, storeVars, JobsInOrder, ThreadsHeld, Ext, From,
     IdleRun, IdleSend
<1>WorkerCrash. ASSUME WorkerCrash PROVE TypeOK'
  BY <1>WorkerCrash DEF WorkerCrash, Fault, TypeOK, storeVars, JobsInOrder, ThreadsHeld, Ext,
     From, IdleRun, IdleSend
<1>QED. QED
  BY <1>Later, <1>AcceptWebhook, <1>HandleFrame, <1>PickUp, <1>CheckExisting, <1>FindThread,
     <1>OpenThread, <1>CreateMessage, <1>Bump, <1>EmitReceived, <1>CallFails, <1>StalledCheck,
     <1>SendStart, <1>SendFind, <1>SendOpen, <1>SendWrite, <1>WorkerCrash DEF Next,
     PersistNext

\* Every step keeps the jobs within their attempts and stalls.
LEMMA JobsStep ==
  TypeOK /\ JobsInOrder /\ Next => JobsInOrder'
<1> SUFFICES ASSUME TypeOK /\ JobsInOrder, Next PROVE JobsInOrder'
  OBVIOUS
<1>1. ASSUME UNCHANGED <<job, clock>> PROVE JobsInOrder'
  BY <1>1 DEF JobsInOrder
<1>Later. ASSUME Later PROVE JobsInOrder'
  BY <1>Later DEF Later, TypeOK, JobsInOrder, Ext
<1>AcceptWebhook. ASSUME NEW n \in Notices, AcceptWebhook(n) PROVE JobsInOrder'
  BY <1>AcceptWebhook DEF AcceptWebhook, TypeOK, JobsInOrder, Ext
<1>HandleFrame. ASSUME NEW n \in Notices, HandleFrame(n) PROVE JobsInOrder'
  BY <1>HandleFrame DEF HandleFrame, TypeOK, JobsInOrder, Ext
<1>PickUp. ASSUME NEW n \in Notices, PickUp(n) PROVE JobsInOrder'
  BY <1>PickUp DEF PickUp, TypeOK, JobsInOrder, Ext
<1>CheckExisting. ASSUME NEW n \in Notices, CheckExisting(n) PROVE JobsInOrder'
  BY <1>CheckExisting DEF CheckExisting, Return, TypeOK, JobsInOrder, Ext
<1>EmitReceived. ASSUME NEW n \in Notices, EmitReceived(n) PROVE JobsInOrder'
  BY <1>EmitReceived DEF EmitReceived, Return, TypeOK, JobsInOrder, Ext
<1>CallFails. ASSUME NEW n \in Notices, CallFails(n) PROVE JobsInOrder'
  BY <1>CallFails DEF CallFails, Fault, TypeOK, JobsInOrder, Ext
<1>StalledCheck. ASSUME NEW n \in Notices, StalledCheck(n) PROVE JobsInOrder'
  BY <1>StalledCheck DEF StalledCheck, TypeOK, JobsInOrder, Ext
<1>QED. QED
  BY <1>1, <1>Later, <1>AcceptWebhook, <1>HandleFrame, <1>PickUp, <1>CheckExisting,
     <1>EmitReceived, <1>CallFails, <1>StalledCheck DEF Next, PersistNext, FindThread,
     ThreadsOf, OpenThread, InsertThread, CreateMessage, Goto, Bump, SendStart, SendFind,
     SendOpen, SendWrite, WorkerCrash, Fault

\* The processor never starts a second job; frames have calls of their own.
LEMMA OneAtATimeStep ==
  TypeOK /\ JobsInOrder /\ OneAtATime /\ Next => OneAtATime'
<1> SUFFICES ASSUME TypeOK /\ JobsInOrder /\ OneAtATime, Next PROVE OneAtATime'
  OBVIOUS
<1>1. ASSUME UNCHANGED <<run, job>> PROVE OneAtATime'
  BY <1>1 DEF OneAtATime, Started
<1>AcceptWebhook. ASSUME NEW n \in Notices, AcceptWebhook(n) PROVE OneAtATime'
  BY <1>AcceptWebhook DEF AcceptWebhook, TypeOK, JobsInOrder, OneAtATime, Started, IdleRun
<1>HandleFrame. ASSUME NEW n \in Notices, HandleFrame(n) PROVE OneAtATime'
  BY <1>HandleFrame DEF HandleFrame, TypeOK, JobsInOrder, OneAtATime, Started, IdleRun
<1>PickUp. ASSUME NEW n \in Notices, PickUp(n) PROVE OneAtATime'
  BY <1>PickUp DEF PickUp, TypeOK, JobsInOrder, OneAtATime, Started, IdleRun
<1>CheckExisting. ASSUME NEW n \in Notices, CheckExisting(n) PROVE OneAtATime'
  BY <1>CheckExisting, CheckEffect DEF CheckExisting, OneAtATime, Started
<1>FindThread. ASSUME NEW n \in Notices, FindThread(n) PROVE OneAtATime'
  BY <1>FindThread, FindEffect DEF FindThread, OneAtATime, Started
<1>OpenThread. ASSUME NEW n \in Notices, OpenThread(n) PROVE OneAtATime'
  BY <1>OpenThread DEF OpenThread, InsertThread, ThreadsOf, TypeOK, JobsInOrder, OneAtATime,
     Started, IdleRun
<1>CreateMessage. ASSUME NEW n \in Notices, CreateMessage(n) PROVE OneAtATime'
  BY <1>CreateMessage DEF CreateMessage, Goto, TypeOK, JobsInOrder, OneAtATime, Started, IdleRun
<1>Bump. ASSUME NEW n \in Notices, Bump(n) PROVE OneAtATime'
  BY <1>Bump DEF Bump, Goto, TypeOK, JobsInOrder, OneAtATime, Started, IdleRun
<1>EmitReceived. ASSUME NEW n \in Notices, EmitReceived(n) PROVE OneAtATime'
  BY <1>EmitReceived DEF EmitReceived, Return, TypeOK, JobsInOrder, OneAtATime, Started, IdleRun
<1>CallFails. ASSUME NEW n \in Notices, CallFails(n) PROVE OneAtATime'
  BY <1>CallFails DEF CallFails, Fault, TypeOK, JobsInOrder, OneAtATime, Started, IdleRun
<1>StalledCheck. ASSUME NEW n \in Notices, StalledCheck(n) PROVE OneAtATime'
  BY <1>StalledCheck DEF StalledCheck, TypeOK, JobsInOrder, OneAtATime, Started, IdleRun
<1>WorkerCrash. ASSUME WorkerCrash PROVE OneAtATime'
  BY <1>WorkerCrash DEF WorkerCrash, Fault, TypeOK, JobsInOrder, OneAtATime, Started, IdleRun
<1>QED. QED
  BY <1>1, <1>AcceptWebhook, <1>HandleFrame, <1>PickUp, <1>CheckExisting, <1>FindThread,
     <1>OpenThread, <1>CreateMessage, <1>Bump, <1>EmitReceived, <1>CallFails, <1>StalledCheck,
     <1>WorkerCrash DEF Next, PersistNext, Later, SendStart, SendFind, ThreadsOf, SendOpen,
     InsertThread, SendWrite

\* Nobody takes a conversation from its peer.
LEMMA ThreadsStep ==
  TypeOK /\ ThreadsHeld /\ Next => ThreadsHeld'
<1> SUFFICES ASSUME TypeOK /\ ThreadsHeld, Next PROVE ThreadsHeld'
  OBVIOUS
<1>1. ASSUME UNCHANGED <<run, peer, send>> PROVE ThreadsHeld'
  BY <1>1 DEF ThreadsHeld
<1>HandleFrame. ASSUME NEW n \in Notices, HandleFrame(n) PROVE ThreadsHeld'
  BY <1>HandleFrame DEF HandleFrame, TypeOK, storeVars, ThreadsHeld, From, IdleRun, IdleSend
<1>PickUp. ASSUME NEW n \in Notices, PickUp(n) PROVE ThreadsHeld'
  BY <1>PickUp DEF PickUp, TypeOK, storeVars, ThreadsHeld, From, IdleRun, IdleSend
<1>CheckExisting. ASSUME NEW n \in Notices, CheckExisting(n) PROVE ThreadsHeld'
  BY <1>CheckExisting, CheckEffect DEF CheckExisting, storeVars, ThreadsHeld
<1>FindThread. ASSUME NEW n \in Notices, FindThread(n) PROVE ThreadsHeld'
  BY <1>FindThread DEF FindThread, ThreadsOf, TypeOK, storeVars, ThreadsHeld, From, IdleRun,
     IdleSend
<1>OpenThread. ASSUME NEW n \in Notices, OpenThread(n) PROVE ThreadsHeld'
  BY <1>OpenThread DEF OpenThread, InsertThread, ThreadsOf, TypeOK, storeVars, ThreadsHeld,
     From, IdleRun, IdleSend
<1>CreateMessage. ASSUME NEW n \in Notices, CreateMessage(n) PROVE ThreadsHeld'
  BY <1>CreateMessage DEF CreateMessage, Goto, TypeOK, storeVars, ThreadsHeld, From, IdleRun,
     IdleSend
<1>Bump. ASSUME NEW n \in Notices, Bump(n) PROVE ThreadsHeld'
  BY <1>Bump DEF Bump, Goto, TypeOK, storeVars, ThreadsHeld, From, IdleRun, IdleSend
<1>EmitReceived. ASSUME NEW n \in Notices, EmitReceived(n) PROVE ThreadsHeld'
  BY <1>EmitReceived DEF EmitReceived, Return, TypeOK, storeVars, ThreadsHeld, From, IdleRun,
     IdleSend
<1>CallFails. ASSUME NEW n \in Notices, CallFails(n) PROVE ThreadsHeld'
  BY <1>CallFails DEF CallFails, Fault, TypeOK, storeVars, ThreadsHeld, From, IdleRun, IdleSend
<1>SendStart. ASSUME NEW s \in Senders, NEW p \in Peers, SendStart(s, p) PROVE ThreadsHeld'
  BY <1>SendStart DEF SendStart, TypeOK, storeVars, ThreadsHeld, From, IdleRun, IdleSend
<1>SendFind. ASSUME NEW s \in Senders, SendFind(s) PROVE ThreadsHeld'
  BY <1>SendFind DEF SendFind, ThreadsOf, TypeOK, storeVars, ThreadsHeld, From, IdleRun,
     IdleSend
<1>SendOpen. ASSUME NEW s \in Senders, SendOpen(s) PROVE ThreadsHeld'
  BY <1>SendOpen DEF SendOpen, InsertThread, ThreadsOf, TypeOK, storeVars, ThreadsHeld, From,
     IdleRun, IdleSend
<1>SendWrite. ASSUME NEW s \in Senders, SendWrite(s) PROVE ThreadsHeld'
  BY <1>SendWrite DEF SendWrite, TypeOK, storeVars, ThreadsHeld, From, IdleRun, IdleSend
<1>WorkerCrash. ASSUME WorkerCrash PROVE ThreadsHeld'
  BY <1>WorkerCrash DEF WorkerCrash, Fault, TypeOK, storeVars, ThreadsHeld, From, IdleRun,
     IdleSend
<1>QED. QED
  BY <1>1, <1>HandleFrame, <1>PickUp, <1>CheckExisting, <1>FindThread, <1>OpenThread,
     <1>CreateMessage, <1>Bump, <1>EmitReceived, <1>CallFails, <1>SendStart, <1>SendFind,
     <1>SendOpen, <1>SendWrite, <1>WorkerCrash DEF Next, PersistNext, Later, storeVars,
     AcceptWebhook, StalledCheck

\* Whoever inserts second gets the row of the first.
LEMMA UniqueStep ==
  TypeOK /\ UniqueIndex /\ Next => UniqueIndex'
<1> SUFFICES ASSUME TypeOK /\ UniqueIndex, Next PROVE UniqueIndex'
  OBVIOUS
<1>1. ASSUME UNCHANGED peer PROVE UniqueIndex'
  BY <1>1 DEF UniqueIndex, ThreadsOf
<1>OpenThread. ASSUME NEW n \in Notices, OpenThread(n) PROVE UniqueIndex'
  BY <1>OpenThread DEF OpenThread, InsertThread, ThreadsOf, TypeOK, UniqueIndex, ThreadsOf
<1>SendOpen. ASSUME NEW s \in Senders, SendOpen(s) PROVE UniqueIndex'
  BY <1>SendOpen DEF SendOpen, InsertThread, ThreadsOf, TypeOK, UniqueIndex, ThreadsOf
<1>QED. QED
  BY <1>1, <1>OpenThread, <1>SendOpen DEF Next, PersistNext, Later, storeVars, AcceptWebhook,
     HandleFrame, PickUp, CheckExisting, Return, FindThread, ThreadsOf, CreateMessage, Goto,
     Bump, EmitReceived, CallFails, Fault, StalledCheck, SendStart, SendFind, SendWrite,
     WorkerCrash

\* A conversation is stamped with the clock or with the time of a message taken on.
LEMMA NotAheadStep ==
  TypeOK /\ JobsInOrder /\ OneAtATime /\ NotAhead /\ Next => NotAhead'
<1> SUFFICES ASSUME TypeOK /\ JobsInOrder /\ OneAtATime /\ NotAhead, Next PROVE NotAhead'
  OBVIOUS
<1>1. ASSUME UNCHANGED <<lastAt, clock>> PROVE NotAhead'
  BY <1>1 DEF NotAhead
<1>Later. ASSUME Later PROVE NotAhead'
  BY <1>Later DEF Later, TypeOK, JobsInOrder, OneAtATime, Started, NotAhead, storeVars
<1>OpenThread. ASSUME NEW n \in Notices, OpenThread(n) PROVE NotAhead'
  BY <1>OpenThread DEF OpenThread, InsertThread, ThreadsOf, TypeOK, JobsInOrder, OneAtATime,
     Started, NotAhead, storeVars
<1>Bump. ASSUME NEW n \in Notices, Bump(n) PROVE NotAhead'
  BY <1>Bump DEF Bump, Goto, TypeOK, JobsInOrder, OneAtATime, Started, NotAhead, storeVars
<1>SendOpen. ASSUME NEW s \in Senders, SendOpen(s) PROVE NotAhead'
  BY <1>SendOpen DEF SendOpen, InsertThread, ThreadsOf, TypeOK, JobsInOrder, OneAtATime,
     Started, NotAhead, storeVars
<1>SendWrite. ASSUME NEW s \in Senders, SendWrite(s) PROVE NotAhead'
  BY <1>SendWrite DEF SendWrite, TypeOK, JobsInOrder, OneAtATime, Started, NotAhead, storeVars
<1>QED. QED
  BY <1>1, <1>Later, <1>OpenThread, <1>Bump, <1>SendOpen, <1>SendWrite DEF Next, PersistNext,
     AcceptWebhook, storeVars, HandleFrame, PickUp, CheckExisting, Return, FindThread,
     ThreadsOf, CreateMessage, Goto, EmitReceived, CallFails, Fault, StalledCheck, SendStart,
     SendFind, WorkerCrash

\* The result of the check for an existing row is not overtaken.
LEMMA ChecksStep ==
  TypeOK /\ OneAtATime /\ ChecksHold /\ Next => ChecksHold'
<1> SUFFICES ASSUME TypeOK /\ OneAtATime /\ ChecksHold, Next PROVE ChecksHold'
  OBVIOUS
<1>1. ASSUME UNCHANGED <<run, rows>> PROVE ChecksHold'
  BY <1>1 DEF ChecksHold, QueueStoresOnce
<1>HandleFrame. ASSUME NEW n \in Notices, HandleFrame(n) PROVE ChecksHold'
  BY <1>HandleFrame DEF HandleFrame, TypeOK, OneAtATime, Started, ChecksHold, QueueOnly,
     QueueStoresOnce, storeVars, Ext, IdleRun
<1>PickUp. ASSUME NEW n \in Notices, PickUp(n) PROVE ChecksHold'
  BY <1>PickUp DEF PickUp, TypeOK, OneAtATime, Started, ChecksHold, QueueOnly,
     QueueStoresOnce, storeVars, Ext, IdleRun
<1>CheckExisting. ASSUME NEW n \in Notices, CheckExisting(n) PROVE ChecksHold'
  BY <1>CheckExisting DEF CheckExisting, Return, TypeOK, OneAtATime, Started, ChecksHold,
     QueueOnly, QueueStoresOnce, storeVars, Ext, IdleRun
<1>FindThread. ASSUME NEW n \in Notices, FindThread(n) PROVE ChecksHold'
  BY SMTT(30), <1>FindThread DEF FindThread, ThreadsOf, TypeOK, OneAtATime, Started, ChecksHold,
     QueueOnly, QueueStoresOnce, storeVars, Ext, IdleRun
<1>OpenThread. ASSUME NEW n \in Notices, OpenThread(n) PROVE ChecksHold'
  BY <1>OpenThread DEF OpenThread, InsertThread, ThreadsOf, TypeOK, OneAtATime, Started,
     ChecksHold, QueueOnly, QueueStoresOnce, storeVars, Ext, IdleRun
<1>CreateMessage. ASSUME NEW n \in Notices, CreateMessage(n) PROVE ChecksHold'
  BY <1>CreateMessage DEF CreateMessage, Goto, TypeOK, OneAtATime, Started, ChecksHold,
     QueueOnly, QueueStoresOnce, storeVars, Ext, IdleRun
<1>Bump. ASSUME NEW n \in Notices, Bump(n) PROVE ChecksHold'
  BY <1>Bump DEF Bump, Goto, TypeOK, OneAtATime, Started, ChecksHold, QueueOnly,
     QueueStoresOnce, storeVars, Ext, IdleRun
<1>EmitReceived. ASSUME NEW n \in Notices, EmitReceived(n) PROVE ChecksHold'
  BY <1>EmitReceived DEF EmitReceived, Return, TypeOK, OneAtATime, Started, ChecksHold,
     QueueOnly, QueueStoresOnce, storeVars, Ext, IdleRun
<1>CallFails. ASSUME NEW n \in Notices, CallFails(n) PROVE ChecksHold'
  BY <1>CallFails DEF CallFails, Fault, TypeOK, OneAtATime, Started, ChecksHold, QueueOnly,
     QueueStoresOnce, storeVars, Ext, IdleRun
<1>WorkerCrash. ASSUME WorkerCrash PROVE ChecksHold'
  BY <1>WorkerCrash DEF WorkerCrash, Fault, TypeOK, OneAtATime, Started, ChecksHold,
     QueueOnly, QueueStoresOnce, storeVars, Ext, IdleRun
<1>QED. QED
  BY <1>1, <1>HandleFrame, <1>PickUp, <1>CheckExisting, <1>FindThread, <1>OpenThread,
     <1>CreateMessage, <1>Bump, <1>EmitReceived, <1>CallFails, <1>WorkerCrash DEF Next,
     PersistNext, Later, storeVars, AcceptWebhook, StalledCheck, SendStart, SendFind,
     ThreadsOf, SendOpen, InsertThread, SendWrite

\* A stored message keeps its row and its conversation, and last_message_at never falls
\* below its time again.
LEMMA StoredStep ==
  TypeOK /\ ThreadsHeld /\ NotAhead /\ JobsInOrder /\ OneAtATime /\ Stored /\ Next => Stored'
<1> SUFFICES ASSUME TypeOK /\ ThreadsHeld /\ NotAhead /\ JobsInOrder /\ OneAtATime /\ Stored, Next
             PROVE  Stored'
  OBVIOUS
<1>1. ASSUME UNCHANGED <<run, rows, filed, lastAt>> PROVE Stored'
  BY <1>1 DEF Stored
<1>HandleFrame. ASSUME NEW n \in Notices, HandleFrame(n) PROVE Stored'
  BY <1>HandleFrame DEF HandleFrame, TypeOK, ThreadsHeld, NotAhead, JobsInOrder, OneAtATime,
     Started, Stored, storeVars, Ext, From, IdleRun
<1>PickUp. ASSUME NEW n \in Notices, PickUp(n) PROVE Stored'
  BY <1>PickUp DEF PickUp, TypeOK, ThreadsHeld, NotAhead, JobsInOrder, OneAtATime, Started,
     Stored, storeVars, Ext, From, IdleRun
<1>CheckExisting. ASSUME NEW n \in Notices, CheckExisting(n) PROVE Stored'
  BY <1>CheckExisting, CheckEffect DEF CheckExisting, storeVars, Stored
<1>FindThread. ASSUME NEW n \in Notices, FindThread(n) PROVE Stored'
  BY <1>FindThread, FindEffect DEF FindThread, storeVars, Stored
<1>OpenThread. ASSUME NEW n \in Notices, OpenThread(n) PROVE Stored'
  BY <1>OpenThread DEF OpenThread, InsertThread, ThreadsOf, TypeOK, ThreadsHeld, NotAhead,
     JobsInOrder, OneAtATime, Started, Stored, storeVars, Ext, From, IdleRun
<1>CreateMessage. ASSUME NEW n \in Notices, CreateMessage(n) PROVE Stored'
  BY <1>CreateMessage DEF CreateMessage, Goto, TypeOK, ThreadsHeld, NotAhead, JobsInOrder,
     OneAtATime, Started, Stored, storeVars, Ext, From, IdleRun
<1>Bump. ASSUME NEW n \in Notices, Bump(n) PROVE Stored'
  BY <1>Bump DEF Bump, Goto, TypeOK, ThreadsHeld, NotAhead, JobsInOrder, OneAtATime, Started,
     Stored, storeVars, Ext, From, IdleRun
<1>EmitReceived. ASSUME NEW n \in Notices, EmitReceived(n) PROVE Stored'
  BY <1>EmitReceived DEF EmitReceived, Return, TypeOK, ThreadsHeld, NotAhead, JobsInOrder,
     OneAtATime, Started, Stored, storeVars, Ext, From, IdleRun
<1>CallFails. ASSUME NEW n \in Notices, CallFails(n) PROVE Stored'
  BY <1>CallFails DEF CallFails, Fault, TypeOK, ThreadsHeld, NotAhead, JobsInOrder,
     OneAtATime, Started, Stored, storeVars, Ext, From, IdleRun
<1>SendOpen. ASSUME NEW s \in Senders, SendOpen(s) PROVE Stored'
  BY <1>SendOpen DEF SendOpen, InsertThread, ThreadsOf, TypeOK, ThreadsHeld, NotAhead,
     JobsInOrder, OneAtATime, Started, Stored, storeVars, Ext, From, IdleRun
<1>SendWrite. ASSUME NEW s \in Senders, SendWrite(s) PROVE Stored'
  BY <1>SendWrite DEF SendWrite, TypeOK, ThreadsHeld, NotAhead, JobsInOrder, OneAtATime,
     Started, Stored, storeVars, Ext, From, IdleRun
<1>WorkerCrash. ASSUME WorkerCrash PROVE Stored'
  BY <1>WorkerCrash DEF WorkerCrash, Fault, TypeOK, ThreadsHeld, NotAhead, JobsInOrder,
     OneAtATime, Started, Stored, storeVars, Ext, From, IdleRun
<1>QED. QED
  BY <1>1, <1>HandleFrame, <1>PickUp, <1>CheckExisting, <1>FindThread, <1>OpenThread,
     <1>CreateMessage, <1>Bump, <1>EmitReceived, <1>CallFails, <1>SendOpen, <1>SendWrite,
     <1>WorkerCrash DEF Next, PersistNext, Later, storeVars, AcceptWebhook, StalledCheck,
     SendStart, SendFind, ThreadsOf

\* What was announced stays filed.
LEMMA AnnouncedStep ==
  TypeOK /\ ThreadsHeld /\ NotAhead /\ Stored /\ AnnouncedIsFiled /\ Next => AnnouncedIsFiled'
<1> SUFFICES ASSUME TypeOK /\ ThreadsHeld /\ NotAhead /\ Stored /\ AnnouncedIsFiled, Next
             PROVE  AnnouncedIsFiled'
  OBVIOUS
<1>1. ASSUME UNCHANGED <<announced, rows, filed, peer, lastAt>> PROVE AnnouncedIsFiled'
  BY <1>1 DEF AnnouncedIsFiled
<1>OpenThread. ASSUME NEW n \in Notices, OpenThread(n) PROVE AnnouncedIsFiled'
  <2>1. UNCHANGED <<announced, rows, filed>>
    BY <1>OpenThread DEF OpenThread
  <2>2. \A c \in Threads : peer[c] # None => peer'[c] = peer[c] /\ lastAt'[c] = lastAt[c]
    BY <1>OpenThread, OpenEffect, InsertEffect DEF From
  <2>3. \A x \in Externals : filed[x] \subseteq Threads /\ PeerOf[x] # None
    BY DEF TypeOK
  <2>4. QED
    BY <2>1, <2>2, <2>3 DEF AnnouncedIsFiled, TypeOK
<1>CreateMessage. ASSUME NEW n \in Notices, CreateMessage(n) PROVE AnnouncedIsFiled'
  BY <1>CreateMessage DEF CreateMessage, Goto, TypeOK, ThreadsHeld, NotAhead, Stored,
     AnnouncedIsFiled, storeVars, Ext, From
<1>Bump. ASSUME NEW n \in Notices, Bump(n) PROVE AnnouncedIsFiled'
  BY <1>Bump DEF Bump, Goto, TypeOK, ThreadsHeld, NotAhead, Stored, AnnouncedIsFiled,
     storeVars, Ext, From
<1>EmitReceived. ASSUME NEW n \in Notices, EmitReceived(n) PROVE AnnouncedIsFiled'
  BY <1>EmitReceived DEF EmitReceived, Return, TypeOK, ThreadsHeld, NotAhead, Stored,
     AnnouncedIsFiled, storeVars, Ext, From
<1>SendOpen. ASSUME NEW s \in Senders, SendOpen(s) PROVE AnnouncedIsFiled'
  <2>1. UNCHANGED <<announced, rows, filed>>
    BY <1>SendOpen DEF SendOpen
  <2>2. \A c \in Threads : peer[c] # None => peer'[c] = peer[c] /\ lastAt'[c] = lastAt[c]
    BY <1>SendOpen, SendOpenEffect, InsertEffect
  <2>3. \A x \in Externals : filed[x] \subseteq Threads /\ PeerOf[x] # None
    BY DEF TypeOK
  <2>4. QED
    BY <2>1, <2>2, <2>3 DEF AnnouncedIsFiled, TypeOK
<1>SendWrite. ASSUME NEW s \in Senders, SendWrite(s) PROVE AnnouncedIsFiled'
  BY <1>SendWrite DEF SendWrite, TypeOK, ThreadsHeld, NotAhead, Stored, AnnouncedIsFiled,
     storeVars, Ext, From
<1>QED. QED
  BY <1>1, <1>OpenThread, <1>CreateMessage, <1>Bump, <1>EmitReceived, <1>SendOpen,
     <1>SendWrite DEF Next, PersistNext, Later, storeVars, AcceptWebhook, HandleFrame, PickUp,
     CheckExisting, Return, FindThread, ThreadsOf, CallFails, Fault, StalledCheck, SendStart,
     SendFind, WorkerCrash

\* Without failures a call that stored goes on to announce.
LEMMA StoredAnnouncedStep ==
  TypeOK /\ OneAtATime /\ StoredIsAnnounced /\ Next => StoredIsAnnounced'
<1> SUFFICES ASSUME TypeOK /\ OneAtATime /\ StoredIsAnnounced, Next PROVE StoredIsAnnounced'
  OBVIOUS
<1>1. ASSUME UNCHANGED <<faults, rows, announced, run>> PROVE StoredIsAnnounced'
  BY <1>1 DEF StoredIsAnnounced, Announcing
<1>HandleFrame. ASSUME NEW n \in Notices, HandleFrame(n) PROVE StoredIsAnnounced'
  <2>1. \A o \in Notices : run[o].pc \in {"bump", "emit"} => run'[o] = run[o]
    BY <1>HandleFrame DEF HandleFrame, TypeOK, OneAtATime, Started
  <2>2. QED
    BY <1>HandleFrame, <2>1 DEF HandleFrame, storeVars, StoredIsAnnounced, Announcing
<1>PickUp. ASSUME NEW n \in Notices, PickUp(n) PROVE StoredIsAnnounced'
  <2>1. \A o \in Notices : run[o].pc \in {"bump", "emit"} => run'[o] = run[o]
    BY <1>PickUp DEF PickUp, TypeOK, OneAtATime, Started
  <2>2. QED
    BY <1>PickUp, <2>1 DEF PickUp, storeVars, StoredIsAnnounced, Announcing
<1>CheckExisting. ASSUME NEW n \in Notices, CheckExisting(n) PROVE StoredIsAnnounced'
  <2>1. \A o \in Notices : run[o].pc \in {"bump", "emit"} => run'[o] = run[o]
    BY <1>CheckExisting, CheckEffect DEF CheckExisting
  <2>2. UNCHANGED <<rows, announced, faults>>
    BY <1>CheckExisting DEF CheckExisting, storeVars
  <2>3. QED
    BY <2>1, <2>2 DEF StoredIsAnnounced, Announcing
<1>FindThread. ASSUME NEW n \in Notices, FindThread(n) PROVE StoredIsAnnounced'
  <2>1. \A o \in Notices : run[o].pc \in {"bump", "emit"} => run'[o] = run[o]
    BY <1>FindThread, FindEffect
  <2>2. QED
    BY <1>FindThread, <2>1 DEF FindThread, storeVars, StoredIsAnnounced, Announcing
<1>OpenThread. ASSUME NEW n \in Notices, OpenThread(n) PROVE StoredIsAnnounced'
  BY <1>OpenThread DEF OpenThread, InsertThread, ThreadsOf, TypeOK, OneAtATime, Started,
     StoredIsAnnounced, Announcing, storeVars, Ext, IdleRun
<1>CreateMessage. ASSUME NEW n \in Notices, CreateMessage(n) PROVE StoredIsAnnounced'
  BY <1>CreateMessage DEF CreateMessage, Goto, TypeOK, OneAtATime, Started, StoredIsAnnounced,
     Announcing, storeVars, Ext, IdleRun
<1>Bump. ASSUME NEW n \in Notices, Bump(n) PROVE StoredIsAnnounced'
  BY <1>Bump DEF Bump, Goto, TypeOK, OneAtATime, Started, StoredIsAnnounced, Announcing,
     storeVars, Ext, IdleRun
<1>EmitReceived. ASSUME NEW n \in Notices, EmitReceived(n) PROVE StoredIsAnnounced'
  BY <1>EmitReceived DEF EmitReceived, Return, TypeOK, OneAtATime, Started, StoredIsAnnounced,
     Announcing, storeVars, Ext, IdleRun
<1>CallFails. ASSUME NEW n \in Notices, CallFails(n) PROVE StoredIsAnnounced'
  BY <1>CallFails DEF CallFails, Fault, TypeOK, OneAtATime, Started, StoredIsAnnounced,
     Announcing, storeVars, Ext, IdleRun
<1>WorkerCrash. ASSUME WorkerCrash PROVE StoredIsAnnounced'
  BY <1>WorkerCrash DEF WorkerCrash, Fault, TypeOK, OneAtATime, Started, StoredIsAnnounced,
     Announcing, storeVars, Ext, IdleRun
<1>QED. QED
  BY <1>1, <1>HandleFrame, <1>PickUp, <1>CheckExisting, <1>FindThread, <1>OpenThread,
     <1>CreateMessage, <1>Bump, <1>EmitReceived, <1>CallFails, <1>WorkerCrash DEF Next,
     PersistNext, Later, storeVars, AcceptWebhook, StalledCheck, SendStart, SendFind,
     ThreadsOf, SendOpen, InsertThread, SendWrite

-----------------------------------------------------------------------------
(* The theorems.                                                             *)

\* The invariant holds before anything arrives.
LEMMA InitIInv == Init => IInv
<1> SUFFICES ASSUME Init PROVE IInv
  OBVIOUS
<1>1. TypeOK /\ JobsInOrder /\ ThreadsHeld
  BY DEF Init, TypeOK, JobsInOrder, ThreadsHeld, NoJob, IdleRun, IdleSend
<1>2. OneAtATime /\ UniqueIndex /\ NotAhead /\ ChecksHold /\ Stored
  BY DEF Init, OneAtATime, Started, UniqueIndex, ThreadsOf, NotAhead, ChecksHold,
     QueueStoresOnce, Stored, IdleRun
<1>3. AnnouncedIsFiled /\ StoredIsAnnounced
  BY DEF Init, AnnouncedIsFiled, StoredIsAnnounced
<1>4. QED
  BY <1>1, <1>2, <1>3 DEF IInv

\* Every step keeps the invariant.
LEMMA StepIInv == IInv /\ [Next]_vars => IInv'
<1> SUFFICES ASSUME IInv, [Next]_vars PROVE IInv'
  OBVIOUS
<1>1. CASE Next
  BY <1>1, TypeStep, JobsStep, OneAtATimeStep, ThreadsStep, UniqueStep, NotAheadStep,
     ChecksStep, StoredStep,
     AnnouncedStep, StoredAnnouncedStep DEF IInv
<1>2. CASE UNCHANGED vars
  <2>1. TypeOK' /\ JobsInOrder' /\ OneAtATime' /\ ThreadsHeld'
    BY <1>2 DEF vars, IInv, TypeOK, JobsInOrder, OneAtATime, Started, ThreadsHeld
  <2>2. UniqueIndex' /\ NotAhead' /\ ChecksHold'
    BY <1>2 DEF vars, IInv, UniqueIndex, ThreadsOf, NotAhead, ChecksHold, QueueStoresOnce
  <2>3. Stored' /\ AnnouncedIsFiled' /\ StoredIsAnnounced'
    BY <1>2 DEF vars, IInv, Stored, AnnouncedIsFiled, StoredIsAnnounced, Announcing
  <2>4. QED
    BY <2>1, <2>2, <2>3 DEF IInv
<1>3. QED
  BY <1>1, <1>2

\* Every reachable state of ingestion satisfies the inductive invariant.
THEOREM Invariance == Spec => []IInv
BY InitIInv, StepIInv, PTL DEF Spec

\* Jobs, running calls, rows and conversations keep their types, and a call that
\* is about to store a message holds a conversation of its sender.
THEOREM TypeCorrect == Spec => []TypeOK
BY Invariance, PTL DEF IInv

\* However many notices and API sends look up and open the conversation of a
\* phone number at the same time, it has at most one.
THEOREM NumbersHaveOneThread == Spec => []OneThreadPerNumber
<1>1. IInv => OneThreadPerNumber
  <2> SUFFICES ASSUME IInv, NEW p \in Numbered PROVE Cardinality(ThreadsOf(p)) <= 1
    BY DEF OneThreadPerNumber
  <2>1. CASE ThreadsOf(p) = {}
    BY <2>1, FS_EmptySet
  <2>2. ASSUME NEW c \in ThreadsOf(p) PROVE Cardinality(ThreadsOf(p)) <= 1
    <3>1. ThreadsOf(p) = {c}
      BY DEF IInv, UniqueIndex
    <3>2. Cardinality({c}) = 1
      BY FS_Singleton
    <3>3. QED
      BY <3>1, <3>2
  <2>3. QED
    BY <2>1, <2>2
<1>2. QED
  BY <1>1, Invariance, PTL

\* What only arrives through the queue has at most one row, whatever is repeated,
\* retried or stalled: persist checks and inserts while no other call of the
\* processor runs.
THEOREM QueuedIsStoredOnce == Spec => []QueueStoresOnce
BY Invariance, PTL DEF IInv, ChecksHold

\* An announced message is stored in a conversation of its sender that is stamped
\* no earlier, and without failures a stored one is announced.
THEOREM StoredAndToldOf == Spec => []FiledAndAnnounced
BY Invariance, PTL DEF IInv, FiledAndAnnounced
=============================================================================
