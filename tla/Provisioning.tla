---------------------------- MODULE Provisioning ----------------------------
(***************************************************************************)
(* How a phone number gets linked to an endpoint of a QR channel: the      *)
(* wizard of the admin UI, ProvisioningService (startQr, poll, unlink,     *)
(* reattach), the endpoint routes of TransportAccountsService, and the     *)
(* sidecar they talk to through an adapter.  One transport account.        *)
(*                                                                         *)
(* Every await is one step, so the handlers of overlapping polls, of two   *)
(* wizards and of other operators interleave.  A number stands for the     *)
(* sidecar account of a phone.  Signal learns it from the sidecar; a       *)
(* WhatsApp wizard is told it beforehand (Asks), which is what the         *)
(* identity match of poll goes by, and people scan with the phone they     *)
(* named.  Only Signal's development stub lists uuids: that match is left  *)
(* out.  Endpoint ids are never used again.                                *)
(***************************************************************************)
EXTENDS ChannelAdapters

CONSTANTS
  Endpoints,   \* ids of endpoint rows
  Numbers,     \* phone numbers
  Sessions,    \* browser tabs with the wizard
  Calls,       \* API handlers that can run at once
  None,        \* no number, endpoint or session
  Channels,    \* adapters the account may have
  Asks,        \* numbers a WhatsApp wizard may be told
  Paired,      \* the number an endpoint is linked to at first, or None
  Ops,         \* what operators do besides running wizards
  MaxOps,      \* bound: how often
  Faults,      \* kinds of failure that may happen
  MaxFaults    \* bound: failures

OpKinds == {"unlink", "reattach", "delete", "edit", "cancel", "close"}
FaultKinds == {"snapshotFails",  \* the list before the QR is minted
               "listFails",      \* any later list
               "mintFails",      \* provisionQr
               "unlinkFails",    \* the sidecar's unlink
               "dbFails"}        \* the update of the row after it

ASSUME BoundsAssumption ==
  /\ {MaxOps, MaxFaults} \subseteq Nat
  /\ Ops \subseteq OpKinds /\ Faults \subseteq FaultKinds
  /\ None \notin Numbers \cup Endpoints \cup Sessions
  /\ Asks \subseteq Numbers
  /\ \A a \in Channels : a \in AdapterNames /\ Capabilities(a).provisioning = "qr"
  /\ Paired \in [Endpoints -> Numbers \cup {None}]

VARIABLES
  channel,  \* the account's adapter
  row,      \* endpoints
  sidecar,  \* numbers paired with the sidecar
  listed,   \* the ones of them its account list shows
  pending,  \* devices created at the sidecar that nobody has logged in on
  ui,       \* the wizards
  call,     \* the running API handlers
  scanned,  \* history: numbers a phone was ever paired for
  early,    \* history: who held which number of the snapshot when a row was created
  told,     \* history: the number the wizard that created a row was told
  used      \* what is used up of each bound

others == <<channel, pending, scanned, told>>
vars == <<row, sidecar, listed, ui, call, early, used, others>>

MaybeNumber == Numbers \cup {None}

Absent == [state |-> "absent", ext |-> None, phone |-> None, device |-> None,
           known |-> {}, qr |-> "none", enabled |-> FALSE]
Gone == [Absent EXCEPT !.state = "gone"]
Holding(n) == [Absent EXCEPT !.state = "linked", !.ext = n, !.phone = n, !.enabled = TRUE]
IdleCall == [op |-> "idle", pc |-> "done", e |-> None, by |-> None, list |-> {}, n |-> None,
             seen |-> Absent]
IdleUi == [kind |-> "idle", e |-> None]

Rows == [state : {"absent", "qr_pending", "qr_displayed", "linked", "failed", "unpaired", "gone"},
         ext : MaybeNumber, phone : MaybeNumber, device : MaybeNumber, known : SUBSET Numbers,
         qr : {"none", "live", "expired"}, enabled : BOOLEAN]

\* The type invariant.
TypeOK ==
  /\ row \in [Endpoints -> Rows]
  /\ channel \in Channels
  /\ listed \subseteq sidecar /\ sidecar \subseteq scanned
  /\ pending \subseteq Numbers \ sidecar /\ scanned \subseteq Numbers
  /\ ui \in [Sessions -> [kind : {"idle", "entering", "qr", "linked", "failed"},
                          e : Endpoints \cup {None}]]
  /\ call \in [Calls -> [op : {"idle", "start", "poll", "unlink", "reattach", "delete"},
                         pc : {"done", "snapshot", "create", "mint", "store", "storeFailed",
                               "read", "list", "taken", "write", "expire", "forget", "clear", "tx"},
                         e : Endpoints \cup {None}, by : Sessions \cup {None},
                         list : SUBSET Numbers, n : MaybeNumber, seen : Rows]]
  /\ early \in [Endpoints -> SUBSET (Endpoints \X Numbers)]
  /\ told \in [Endpoints -> MaybeNumber]
  /\ used \in [op : 0..MaxOps, fault : 0..MaxFaults]
  /\ \A e \in Endpoints : row[e].state = "linked" => row[e].ext # None
  /\ \A s \in Sessions : ui[s].kind \in {"qr", "linked"} => ui[s].e # None

Init ==
  /\ channel \in Channels
  /\ row = [e \in Endpoints |-> IF Paired[e] = None THEN Absent ELSE Holding(Paired[e])]
  /\ sidecar = {Paired[e] : e \in Endpoints} \ {None}
  /\ listed = sidecar /\ scanned = sidecar
  /\ pending = {}
  /\ ui = [s \in Sessions |-> IdleUi]
  /\ call = [h \in Calls |-> IdleCall]
  /\ early = [e \in Endpoints |-> {}]
  /\ told = [e \in Endpoints |-> None]
  /\ used = [op |-> 0, fault |-> 0]

-----------------------------------------------------------------------------
(* Bookkeeping.                                                              *)

Exists(e) == row[e].state \notin {"absent", "gone"}
Holders(n) == {e \in Endpoints : Exists(e) /\ row[e].ext = n}

\* The row becomes r; who lost a number with it no longer held it from before.
SetRow(e, r) ==
  /\ row' = [row EXCEPT ![e] = r]
  /\ early' = [x \in Endpoints |-> {p \in early[x] : p[1] = e => p[2] = r.ext}]

Start(h, op, pc, e, by) ==
  /\ call[h].op = "idle"
  /\ call' = [call EXCEPT ![h] = [IdleCall EXCEPT !.op = op, !.pc = pc, !.e = e, !.by = by]]

At(h, op, pc) == call[h].op = op /\ call[h].pc = pc
Goto(h, pc) == call' = [call EXCEPT ![h].pc = pc]
End(h) == call' = [call EXCEPT ![h] = IdleCall]

\* The handler answers its wizard; nobody listens once that was closed.
Reply(h, u) == ui' = [s \in Sessions |-> IF s = call[h].by THEN u ELSE ui[s]]

Failed == [kind |-> "failed", e |-> None]

\* The answer of a poll counts while its wizard still shows that QR.
ReplyToPoll(h, u) ==
  IF \E s \in Sessions : s = call[h].by /\ ui[s] = [kind |-> "qr", e |-> call[h].e]
  THEN Reply(h, u) ELSE UNCHANGED ui

Fault(kind) ==
  /\ kind \in Faults
  /\ used.fault < MaxFaults
  /\ used' = [used EXCEPT !.fault = @ + 1]

Op(kind) ==
  /\ kind \in Ops
  /\ used.op < MaxOps
  /\ used' = [used EXCEPT !.op = @ + 1]

-----------------------------------------------------------------------------
(* The sidecar and its users.                                                *)

\* Somebody scans the QR on the screen.
Scan(e, n) ==
  /\ row[e].state = "qr_displayed" /\ row[e].qr = "live"
  /\ told[e] \in {None, n}
  /\ n \notin sidecar
  /\ sidecar' = sidecar \cup {n} /\ scanned' = scanned \cup {n}
  /\ pending' = pending \ {n}
  /\ UNCHANGED <<channel, told, row, listed, ui, call, early, used>>

\* A new account does not show up in the list straight away.
Surface(n) ==
  /\ n \in sidecar \ listed
  /\ listed' = listed \cup {n}
  /\ UNCHANGED <<others, row, sidecar, ui, call, early, used>>

Expire(e) ==
  /\ row[e].qr = "live"
  /\ row' = [row EXCEPT ![e].qr = "expired"]
  /\ UNCHANGED <<others, sidecar, listed, ui, call, early, used>>

\* What the sidecar's list holds: a created device is there from the start.
Devices == [number : listed, loggedIn : {TRUE}] \cup [number : pending, loggedIn : {FALSE}]

List(r) == ListProvisionedAccounts(channel, r, Devices)
Good == [http |-> 200, body |-> "list"]
Bad == {[http |-> 500, body |-> "none"], [http |-> 200, body |-> "none"]}

-----------------------------------------------------------------------------
(* startQr, from the wizard's form.                                          *)

Begin(s, h) ==
  /\ ui[s].kind = "idle"
  /\ \E e \in Endpoints : row[e].state = "absent"
  /\ Start(h, "start", "snapshot", None, s)
  /\ ui' = [ui EXCEPT ![s] = [kind |-> "entering", e |-> None]]
  /\ UNCHANGED <<others, row, sidecar, listed, early, used>>

\* A failed list leaves an empty snapshot.
Snapshot(h) ==
  /\ At(h, "start", "snapshot")
  /\ \/ /\ call' = [call EXCEPT ![h].pc = "create", ![h].list = List(Good).accounts]
        /\ UNCHANGED used
     \/ /\ Fault("snapshotFails")
        /\ call' = [call EXCEPT ![h].pc = "create", ![h].list = {}]
  /\ UNCHANGED <<others, row, sidecar, listed, ui, early>>

\* The row keeps the number as it was typed: with a plus sign it equals the phone
\* an account has, and no id of a sidecar; without it equals the id that a
\* WhatsApp sidecar's list also gives as device name, and claims that id already.
Typed(asked, plus) ==
  IF plus THEN [Absent EXCEPT !.state = "qr_pending", !.phone = asked]
          ELSE [Absent EXCEPT !.state = "qr_pending", !.ext = asked, !.device = asked]

\* Nothing keeps a wizard from naming a number that another endpoint holds.
CreateRow(h) ==
  /\ At(h, "start", "create")
  /\ \E e \in Endpoints, asked \in IF channel = "signal-cli-rest-api" THEN {None} ELSE Asks :
       /\ row[e].state = "absent"
       /\ \E plus \in BOOLEAN : row' = [row EXCEPT ![e] = Typed(asked, plus)]
       /\ told' = [told EXCEPT ![e] = asked]
       /\ early' = [early EXCEPT ![e] = {p \in (Endpoints \ {e}) \X call[h].list :
                                           row[p[1]].state = "linked" /\ row[p[1]].ext = p[2]}]
       /\ call' = [call EXCEPT ![h].pc = "mint", ![h].e = e, ![h].n = asked]
  /\ UNCHANGED <<channel, pending, scanned, sidecar, listed, ui, used>>

\* What the sidecar may answer when it is asked for a QR.
QrAnswers == {[http |-> 200, body |-> "qr"], [http |-> 200, body |-> "none"],
              [http |-> 500, body |-> "none"]}

Mint(h) ==
  /\ At(h, "start", "mint")
  /\ \E o \in ProvisionQr(channel, QrAnswers) :
       /\ \/ o.ok /\ Goto(h, "store") /\ UNCHANGED used
          \/ ~o.ok /\ Fault("mintFails") /\ Goto(h, "storeFailed")
       /\ pending' = IF o.created THEN pending \cup ({call[h].n} \ sidecar) ELSE pending
  /\ UNCHANGED <<channel, told, row, sidecar, listed, ui, scanned, early>>

\* The update after provisionQr; it throws when the row is gone.
StoreQr(h) ==
  /\ At(h, "start", "store")
  /\ LET e == call[h].e
     IN  \/ /\ Exists(e)
            /\ row' = [row EXCEPT ![e].state = "qr_displayed", ![e].qr = "live",
                                  ![e].known = call[h].list]
            /\ Reply(h, [kind |-> "qr", e |-> e])
         \/ /\ ~Exists(e)
            /\ Reply(h, Failed)
            /\ UNCHANGED row
  /\ End(h)
  /\ UNCHANGED <<others, sidecar, listed, early, used>>

StoreFailed(h) ==
  /\ At(h, "start", "storeFailed")
  /\ LET e == call[h].e
     IN  /\ row' = IF Exists(e) THEN [row EXCEPT ![e].state = "failed"] ELSE row
         /\ Reply(h, Failed)
  /\ End(h)
  /\ UNCHANGED <<others, sidecar, listed, early, used>>

-----------------------------------------------------------------------------
(* poll, every two seconds while the QR is on the screen.  Ticks overlap.    *)

Tick(s, h) ==
  /\ ui[s].kind = "qr"
  /\ Start(h, "poll", "read", ui[s].e, s)
  /\ UNCHANGED <<others, row, sidecar, listed, ui, early, used>>

PollRead(h) ==
  /\ At(h, "poll", "read")
  /\ IF Exists(call[h].e)
     THEN call' = [call EXCEPT ![h].pc = "list", ![h].seen = row[call[h].e]]
     ELSE End(h)
  /\ UNCHANGED <<others, row, sidecar, listed, ui, early, used>>

\* The accounts that appeared since the snapshot; no diff once configJson lost it.
Fresh(seen, list) == IF seen.qr = "none" THEN {} ELSE list \ seen.known

\* The accounts of list this endpoint may be about: by its phone or its device name,
\* or by the diff.  Of several the code takes the first the sidecar lists.
Identified(seen, list) == {seen.phone, seen.device} \cap list

Match(seen, list) ==
  IF Identified(seen, list) # {} THEN Identified(seen, list)
  ELSE IF Cardinality(Fresh(seen, list)) = 1 THEN Fresh(seen, list) ELSE {}

NoMatch(h) == IF call[h].seen.qr = "expired" THEN "expire" ELSE "done"

\* The wizard ignores a failed poll and shows what a poll without a match read.
PollList(h) ==
  /\ At(h, "poll", "list")
  /\ \E r \in {Good} \cup Bad :
       /\ IF r = Good THEN UNCHANGED used ELSE Fault("listFails")
       /\ LET claimed == List(r).accounts
              m == Match(call[h].seen, claimed)
          IN  \/ /\ List(r).ok
                 /\ \E n \in IF m = {} THEN {None} ELSE m :
                      call' = [call EXCEPT
                                 ![h].list = claimed,
                                 ![h].n = n,
                                 ![h].pc = IF m # {} THEN "write"
                                           ELSE IF claimed # {} THEN "taken" ELSE NoMatch(h)]
              \/ ~List(r).ok /\ End(h)
  /\ UNCHANGED <<others, row, sidecar, listed, ui, early>>

\* Mutant: adopts an account whoever holds it.
PollTakenBlindly(h) ==
  /\ At(h, "poll", "taken")
  /\ call' = [call EXCEPT ![h].n = IF Cardinality(call[h].list) = 1
                                   THEN CHOOSE n \in call[h].list : TRUE ELSE None,
                          ![h].pc = IF Cardinality(call[h].list) = 1 THEN "write" ELSE NoMatch(h)]
  /\ UNCHANGED <<others, row, sidecar, listed, ui, early, used>>

\* Last resort: the one account no other endpoint holds.
PollTaken(h) ==
  /\ At(h, "poll", "taken")
  /\ LET orphans == {n \in call[h].list : Holders(n) \subseteq {call[h].e}}
     IN  call' = [call EXCEPT ![h].n = IF Cardinality(orphans) = 1
                                       THEN CHOOSE n \in orphans : TRUE ELSE None,
                              ![h].pc = IF Cardinality(orphans) = 1 THEN "write" ELSE NoMatch(h)]
  /\ UNCHANGED <<others, row, sidecar, listed, ui, early, used>>

\* The device name stays, and no other row is looked at.
PollLink(h) ==
  /\ At(h, "poll", "write")
  /\ LET e == call[h].e
     IN  \/ /\ Exists(e)
            /\ SetRow(e, [Holding(call[h].n) EXCEPT !.device = row[e].device])
            /\ ReplyToPoll(h, [kind |-> "linked", e |-> e])
         \/ ~Exists(e) /\ UNCHANGED <<row, early, ui>>
  /\ End(h)
  /\ UNCHANGED <<others, sidecar, listed, used>>

\* Mutant: an expired QR is not recorded.
PollExpiredQuietly(h) ==
  /\ At(h, "poll", "expire")
  /\ End(h)
  /\ UNCHANGED <<others, row, sidecar, listed, ui, early, used>>

PollExpired(h) ==
  /\ At(h, "poll", "expire")
  /\ LET e == call[h].e
     IN  \/ /\ Exists(e)
            /\ row' = [row EXCEPT ![e].state = "failed"]
            /\ ReplyToPoll(h, Failed)
         \/ ~Exists(e) /\ UNCHANGED <<row, ui>>
  /\ End(h)
  /\ UNCHANGED <<others, sidecar, listed, early, used>>

\* No match and not expired: the answer is the state read at first.
PollAnswer(h) ==
  /\ At(h, "poll", "done")
  /\ CASE call[h].seen.state = "linked" -> ReplyToPoll(h, [kind |-> "linked", e |-> call[h].e])
       [] call[h].seen.state = "failed" -> ReplyToPoll(h, Failed)
       [] OTHER -> UNCHANGED ui
  /\ End(h)
  /\ UNCHANGED <<others, row, sidecar, listed, early, used>>

-----------------------------------------------------------------------------
(* Operators: the wizard's buttons and the other routes.                     *)

\* The Cancel button asks for unlink and goes back to the form, whatever comes of it.
CancelProvision(s, h) ==
  /\ Op("cancel")
  /\ ui[s].kind = "qr"
  /\ Start(h, "unlink", "read", ui[s].e, s)
  /\ UNCHANGED <<others, row, sidecar, listed, ui, early>>

\* Closing the wizard stops its polling and nothing else.
CloseWizard(s) ==
  /\ \/ ui[s].kind \in {"linked", "failed"} /\ UNCHANGED used
     \/ ui[s].kind \in {"entering", "qr"} /\ Op("close")
  /\ ui' = [ui EXCEPT ![s] = IdleUi]
  /\ call' = [h \in Calls |-> IF call[h].by = s THEN [call[h] EXCEPT !.by = None] ELSE call[h]]
  /\ UNCHANGED <<others, row, sidecar, listed, early>>

AskUnlink(e, h) ==
  /\ Op("unlink")
  /\ Exists(e)
  /\ Start(h, "unlink", "read", e, None)
  /\ UNCHANGED <<others, row, sidecar, listed, ui, early>>

\* 409 unless the row is linked.
UnlinkRead(h) ==
  /\ At(h, "unlink", "read")
  /\ IF row[call[h].e].state = "linked"
     THEN /\ call' = [call EXCEPT ![h].pc = "forget", ![h].n = row[call[h].e].ext]
          /\ UNCHANGED ui
     ELSE End(h) /\ Reply(h, IdleUi)
  /\ UNCHANGED <<others, row, sidecar, listed, early, used>>

\* 404 when the sidecar no longer knows the number; its answer may be lost.
UnlinkForget(h) ==
  /\ At(h, "unlink", "forget")
  /\ \E r \in [http : {IF call[h].n \in sidecar THEN 200 ELSE 404, 500, NoAnswer}] :
       /\ \/ Unlink(channel, r) /\ Goto(h, "clear") /\ UNCHANGED <<ui, used>>
          \/ ~Unlink(channel, r) /\ Fault("unlinkFails") /\ End(h) /\ Reply(h, IdleUi)
       /\ sidecar' = IF r.http = 500 THEN sidecar ELSE sidecar \ {call[h].n}
  /\ listed' = listed \cap sidecar'
  /\ UNCHANGED <<channel, told, row, pending, scanned, early>>

\* configJson is left as it is; the poll that linked the number emptied it.
Cleared(r) == [r EXCEPT !.state = "unpaired", !.ext = None, !.phone = None, !.device = None,
                        !.enabled = FALSE]

UnlinkClear(h) ==
  /\ At(h, "unlink", "clear")
  /\ LET e == call[h].e
     IN  \/ /\ Exists(e)
            /\ SetRow(e, Cleared(row[e]))
            /\ UNCHANGED used
         \/ ~Exists(e) /\ UNCHANGED <<row, early, used>>
         \/ Fault("dbFails") /\ UNCHANGED <<row, early>>
  /\ End(h) /\ Reply(h, IdleUi)
  /\ UNCHANGED <<others, sidecar, listed>>

\* The operator picks the number from the sidecar's list.
AskReattach(e, n, h) ==
  /\ Op("reattach")
  /\ Exists(e) /\ n \in List(Good).accounts
  /\ call[h].op = "idle"
  /\ call' = [call EXCEPT ![h] = [IdleCall EXCEPT !.op = "reattach", !.pc = "list", !.e = e, !.n = n]]
  /\ UNCHANGED <<others, row, sidecar, listed, ui, early>>

ReattachList(h) ==
  /\ At(h, "reattach", "list")
  /\ \/ /\ IF call[h].n \in List(Good).accounts /\ Exists(call[h].e)
           THEN Goto(h, "write") ELSE End(h)
        /\ UNCHANGED used
     \/ Fault("listFails") /\ End(h)
  /\ UNCHANGED <<others, row, sidecar, listed, ui, early>>

\* The operator's word goes: e no longer counts as started after other holders.
ReattachWrite(h) ==
  /\ At(h, "reattach", "write")
  /\ LET e == call[h].e
         linked == [row[e] EXCEPT !.state = "linked", !.ext = call[h].n, !.phone = call[h].n,
                                  !.enabled = TRUE]
     IN  \/ /\ Exists(e)
            /\ row' = [row EXCEPT ![e] = linked]
            /\ early' = [x \in Endpoints |->
                           IF x = e THEN {}
                           ELSE {p \in early[x] : p[1] = e => p[2] = linked.ext}]
         \/ ~Exists(e) /\ UNCHANGED <<row, early>>
  /\ End(h)
  /\ UNCHANGED <<others, sidecar, listed, ui, used>>

\* deleteEndpoint refuses a linked row, then deletes in a transaction.
AskDelete(e, h) ==
  /\ Op("delete")
  /\ Exists(e) /\ row[e].state # "linked"
  /\ Start(h, "delete", "tx", e, None)
  /\ UNCHANGED <<others, row, sidecar, listed, ui, early>>

DeleteTx(h) ==
  /\ At(h, "delete", "tx")
  /\ IF Exists(call[h].e) THEN SetRow(call[h].e, Gone) ELSE UNCHANGED <<row, early>>
  /\ End(h)
  /\ UNCHANGED <<others, sidecar, listed, ui, used>>

\* PATCH of the enabled flag, or of configJson, which is replaced as a whole.  The
\* route also takes an external id and a phone, which the admin UI never sends: an
\* operator who overwrites those by hand is left out.
UpdateEndpoint(e) ==
  /\ Op("edit")
  /\ Exists(e)
  /\ \/ row' = [row EXCEPT ![e].enabled = ~@]
     \/ row' = [row EXCEPT ![e].qr = "none", ![e].known = {}]
  /\ UNCHANGED <<others, sidecar, listed, ui, call, early>>

-----------------------------------------------------------------------------
StartNext(h) == Snapshot(h) \/ CreateRow(h) \/ Mint(h) \/ StoreQr(h) \/ StoreFailed(h)

PollNext(h) ==
  \/ PollRead(h) \/ PollList(h) \/ PollTaken(h)
  \/ PollLink(h) \/ PollExpired(h) \/ PollAnswer(h)

OperatorNext(h) ==
  \/ UnlinkRead(h) \/ UnlinkForget(h) \/ UnlinkClear(h)
  \/ ReattachList(h) \/ ReattachWrite(h)
  \/ DeleteTx(h)

HandlerNext(h) == StartNext(h) \/ PollNext(h) \/ OperatorNext(h)

Next ==
  \/ \E e \in Endpoints, n \in Numbers : Scan(e, n)
  \/ \E n \in Numbers : Surface(n)
  \/ \E e \in Endpoints : Expire(e) \/ UpdateEndpoint(e)
  \/ \E s \in Sessions : CloseWizard(s)
  \/ \E h \in Calls :
       \/ HandlerNext(h)
       \/ \E s \in Sessions : Begin(s, h) \/ Tick(s, h) \/ CancelProvision(s, h)
       \/ \E e \in Endpoints : \/ AskUnlink(e, h) \/ AskDelete(e, h)
                               \/ \E n \in Numbers : AskReattach(e, n, h)

Spec == Init /\ [][Next]_vars

\* Handlers run on, the list catches up, QR codes expire, and the timer of an
\* open wizard fires again and again, whatever other handlers run.
Fairness ==
  /\ \A h \in Calls : WF_vars(HandlerNext(h))
  /\ \A n \in Numbers : WF_vars(Surface(n))
  /\ \A e \in Endpoints : WF_vars(Expire(e))
  /\ \A s \in Sessions : SF_vars(\E h \in Calls : Tick(s, h))

FairSpec == Spec /\ Fairness

-----------------------------------------------------------------------------
(* Safety.                                                                   *)

\* A wizard takes over a number that its snapshot of the sidecar's list shows, that
\* another endpoint was linked to when the row was created and that this endpoint has
\* held ever since, only if it was told that very number: neither the diff nor the
\* adoption of unclaimed accounts ever leads to one, nor the identity match after
\* unlink and relink, whatever polls overlap, numbers surface late and operators
\* unlink, reattach, delete and edit meanwhile (poll, lines 235-281).  A WhatsApp
\* wizard that is told a number another endpoint holds does take it over, at its first
\* poll and without a scan: the identity match looks at no other row.
KeepsEarlierNumbers ==
  \A e \in Endpoints : row[e].state = "linked" =>
    \A p \in early[e] : row[e].ext = p[2] => told[e] = p[2]

\* An endpoint is only linked to a number that a phone was paired for.  gwmd lists
\* the device that startQr has just created, and keeps it when the QR is never
\* scanned or its minting failed; later wizards for the same number find it there
\* (listProvisionedAccounts, poll, reattach).
LinkedWasScanned ==
  \A e \in Endpoints : row[e].state = "linked" => row[e].ext \in scanned

-----------------------------------------------------------------------------
(* Liveness.                                                                 *)

\* A wizard that shows a QR ends: the number is linked, the QR has failed, or
\* somebody closed it, deleted the row under it or replaced its configJson.
WizardEnds ==
  \A s \in Sessions, e \in Endpoints :
    ui[s].kind = "qr" /\ ui[s].e = e ~>
      ui[s].kind # "qr" \/ row[e].state = "gone" \/ row[e].qr = "none"

-----------------------------------------------------------------------------
(* What comments say of wizards.                                             *)

\* provisioning.service.ts:261, "we can never steal a number that belongs to
\* another endpoint", and :245, "Two concurrent wizards against the same sidecar
\* would otherwise link each other's numbers": a poll never links a number that
\* another endpoint is linked to.
NeverSteals ==
  [][\A e \in Endpoints : \A n \in Numbers :
       row[e].state \in {"qr_pending", "qr_displayed"} /\ row'[e].state = "linked"
         /\ row'[e].ext = n =>
       \A f \in Endpoints \ {e} : ~(row[f].state = "linked" /\ row[f].ext = n)]_vars
=============================================================================
