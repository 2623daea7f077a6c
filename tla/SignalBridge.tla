---------------------------- MODULE SignalBridge ----------------------------
(***************************************************************************)
(* SignalReceiveBridge of the worker: one receive socket for every linked  *)
(* and enabled Signal number, kept up by reconcile, a timer whose ticks    *)
(* overlap when the database is slow.  Composed with Provisioning, whose   *)
(* rows decide which numbers are wanted.                                   *)
(*                                                                         *)
(* A tick reads the rows in one step and applies what it read in another:  *)
(* that part of reconcile has no await in it.                              *)
(***************************************************************************)
EXTENDS Provisioning

CONSTANTS
  Socks,       \* WebSocket objects
  Ticks,       \* reconcile calls that can run at once
  MaxBreaks    \* bound: sockets the sidecar closes, worker restarts

ASSUME BreaksAssumption ==
  /\ MaxBreaks \in Nat
  /\ None \notin Socks
  /\ IsFiniteSet(Socks) /\ IsFiniteSet(Numbers)

VARIABLES
  sockets,     \* the Map from phone to live socket
  endpointIds, \* the Map from phone to endpoint
  ws,          \* what each WebSocket object is connected to
  tick,        \* what the running reconcile calls read
  stopping,    \* onModuleDestroy ran
  breaks       \* breaks so far

bridge == <<sockets, endpointIds, ws, tick, stopping, breaks>>
allVars == <<vars, bridge>>

NoRead == [pc |-> "idle", read |-> {}]
FreeSocket == [state |-> "free", phone |-> None]

\* The type invariant.
BridgeTypeOK ==
  /\ sockets \in [Numbers -> Socks \cup {None}]
  /\ endpointIds \in [Numbers -> Endpoints \cup {None}]
  /\ ws \in [Socks -> [state : {"free", "open", "closing"}, phone : MaybeNumber]]
  /\ tick \in [Ticks -> [pc : {"idle", "apply"}, read : SUBSET (Numbers \X Endpoints)]]
  /\ stopping \in BOOLEAN
  /\ breaks \in 0..MaxBreaks
  /\ \A n \in Numbers : sockets[n] # None => ws[sockets[n]].phone = n

BridgeInit ==
  /\ Init
  /\ sockets = [n \in Numbers |-> None]
  /\ endpointIds = [n \in Numbers |-> None]
  /\ ws = [k \in Socks |-> FreeSocket]
  /\ tick = [t \in Ticks |-> NoRead]
  /\ stopping = FALSE
  /\ breaks = 0

\* The linked, enabled rows, under the number they receive for.
Wanted == {p \in Numbers \X Endpoints :
             /\ row[p[2]].state = "linked" /\ row[p[2]].enabled
             /\ p[1] = IF row[p[2]].phone # None THEN row[p[2]].phone ELSE row[p[2]].ext}

ReconcileRead(t) ==
  /\ tick[t].pc = "idle" /\ ~stopping
  /\ tick' = [tick EXCEPT ![t] = [pc |-> "apply", read |-> Wanted]]
  /\ UNCHANGED <<vars, sockets, endpointIds, ws, stopping, breaks>>

Phones(read) == {p[1] : p \in read}

\* The numbers open is called for.
ToOpen(read) == {n \in Phones(read) : sockets[n] = None}

\* Mutant: the sockets of numbers that are no longer wanted stay.
NothingToClose(read) == {}

ToClose(read) == {n \in Numbers : sockets[n] # None} \ Phones(read)

\* Objects for the numbers to open; which ones makes no difference.
NewSockets(phones) ==
  CHOOSE f \in [phones -> {k \in Socks : ws[k].state = "free"}] :
    \A m, n \in phones : f[m] = f[n] => m = n

\* The last row of a number wins its entry of endpointIds.
ReconcileApply(t) ==
  /\ tick[t].pc = "apply"
  /\ LET read == tick[t].read
         opens == ToOpen(read)
         closing == {sockets[n] : n \in ToClose(read)}
         fresh == NewSockets(opens)
     IN  /\ Cardinality(opens) <= Cardinality({k \in Socks : ws[k].state = "free"})
         /\ sockets' = [n \in Numbers |-> IF n \in opens THEN fresh[n]
                                          ELSE IF n \in ToClose(read) THEN None ELSE sockets[n]]
         /\ ws' = [k \in Socks |->
                     IF k \in closing THEN [ws[k] EXCEPT !.state = "closing"]
                     ELSE IF \E n \in opens : fresh[n] = k
                     THEN [state |-> "open", phone |-> CHOOSE n \in opens : fresh[n] = k]
                     ELSE ws[k]]
         /\ \E ids \in [Phones(read) -> Endpoints] :
              /\ \A n \in Phones(read) : <<n, ids[n]>> \in read
              /\ endpointIds' = [n \in Numbers |-> IF n \in Phones(read) THEN ids[n]
                                                   ELSE endpointIds[n]]
  /\ tick' = [tick EXCEPT ![t] = NoRead]
  /\ UNCHANGED <<vars, stopping, breaks>>

\* Mutant: the close handler removes the entry whatever socket it holds.
AfterAnyClose(k) == [n \in Numbers |-> IF n = ws[k].phone THEN None ELSE sockets[n]]

\* What the close handler leaves in the Map.
AfterClose(k) ==
  [n \in Numbers |-> IF n = ws[k].phone /\ sockets[n] = k THEN None ELSE sockets[n]]

\* The close event of a socket this side closed, or that the sidecar dropped.
SocketClosed(k) ==
  /\ \/ ws[k].state = "closing" /\ UNCHANGED breaks
     \/ /\ ws[k].state = "open"
        /\ breaks < MaxBreaks
        /\ breaks' = breaks + 1
  /\ sockets' = AfterClose(k)
  /\ ws' = [ws EXCEPT ![k] = FreeSocket]
  /\ UNCHANGED <<vars, endpointIds, tick, stopping>>

\* onModuleDestroy.
Stop ==
  /\ ~stopping /\ breaks < MaxBreaks
  /\ stopping' = TRUE
  /\ ws' = [k \in Socks |-> IF \E n \in Numbers : sockets[n] = k
                            THEN [ws[k] EXCEPT !.state = "closing"] ELSE ws[k]]
  /\ sockets' = [n \in Numbers |-> None]
  /\ breaks' = breaks + 1
  /\ UNCHANGED <<vars, endpointIds, tick>>

\* The process ends, and a new one starts with nothing.
Restart ==
  /\ stopping
  /\ sockets' = [n \in Numbers |-> None]
  /\ endpointIds' = [n \in Numbers |-> None]
  /\ ws' = [k \in Socks |-> FreeSocket]
  /\ tick' = [t \in Ticks |-> NoRead]
  /\ stopping' = FALSE
  /\ UNCHANGED <<vars, breaks>>

BridgeNext ==
  \/ Next /\ UNCHANGED bridge
  \/ \E t \in Ticks : ReconcileRead(t) \/ ReconcileApply(t)
  \/ \E k \in Socks : SocketClosed(k)
  \/ Stop \/ Restart

BridgeSpec == BridgeInit /\ [][BridgeNext]_allVars

\* The timer fires for ever, ticks end, close events arrive, a worker that stops
\* is started again; and the fairness of Provisioning.
BridgeFairness ==
  /\ \A t \in Ticks : WF_allVars(ReconcileRead(t)) /\ WF_allVars(ReconcileApply(t))
  /\ \A k \in Socks : WF_allVars(ws[k].state = "closing" /\ SocketClosed(k))
  /\ WF_allVars(Restart)
  /\ \A h \in Calls : WF_allVars(HandlerNext(h) /\ UNCHANGED bridge)
  /\ \A n \in Numbers : WF_allVars(Surface(n) /\ UNCHANGED bridge)
  /\ \A e \in Endpoints : WF_allVars(Expire(e) /\ UNCHANGED bridge)
  /\ \A s \in Sessions : SF_allVars((\E h \in Calls : Tick(s, h)) /\ UNCHANGED bridge)

FairBridgeSpec == BridgeSpec /\ BridgeFairness

-----------------------------------------------------------------------------
\* An open socket is the one the Map holds for its number, so that a later tick
\* or a shutdown still reaches it, whatever ticks overlap with closing sockets,
\* restarts and rows that change under them (reconcile, open and its close
\* handler).
NoSocketLeaks == \A k \in Socks : ws[k].state = "open" => sockets[ws[k].phone] = k

\* Every number the rows want has an open socket and frames go to a row that
\* holds it; no other number has one.
InStep ==
  \A n \in Numbers :
    IF n \in Phones(Wanted)
    THEN /\ sockets[n] # None /\ ws[sockets[n]].state = "open"
         /\ <<n, endpointIds[n]>> \in Wanted
    ELSE sockets[n] = None

\* Once wizards, operators and sockets come to rest, the sockets follow the rows
\* for good: a tick that read the rows before a change may undo a newer one, but
\* not for ever.
BridgeConverges == <>[]InStep
=============================================================================
