------------------------- MODULE SignalBridgeProofs -------------------------
(***************************************************************************)
(* Provisioning links only numbers a phone was paired for, and no wizard   *)
(* takes a number that another endpoint has held since before it started   *)
(* unless it was told that number; the receive bridge never loses sight of *)
(* an open socket.  For every set of endpoints, numbers, wizards,          *)
(* handlers, sockets and ticks.                                            *)
(***************************************************************************)
EXTENDS SignalBridge, FiniteSetTheorems, TLAPS

-----------------------------------------------------------------------------
(* The inductive invariant of Provisioning.                                  *)

\* A device that nobody has logged in on is only ever made by gwmd.
DevicesOK == channel # "gwmd" => pending = {}

\* What the running handlers carry: the row they are about has been created, the numbers
\* they are about to write were paired.
CallsOK ==
  \A h \in Calls :
    /\ call[h].op \in {"poll", "unlink", "reattach", "delete"} => call[h].e \in Endpoints
    /\ call[h].op = "start" =>
         call[h].e \in IF call[h].pc \in {"snapshot", "create"} THEN {None} ELSE Endpoints
    /\ call[h].e \in Endpoints => row[call[h].e].state # "absent"
    /\ call[h].op \in {"poll", "reattach"} /\ call[h].pc = "write" => call[h].n \in scanned
    /\ call[h].op = "poll" => call[h].list \subseteq scanned
    /\ call[h].op = "start" /\ call[h].pc = "mint" /\ channel # "signal-cli-rest-api" =>
         call[h].n \in Numbers

\* The QR a wizard shows is of a row that has been created.
WizardsOK == \A s \in Sessions : ui[s].e \in Endpoints => row[ui[s].e].state # "absent"

\* p[1] has held p[2] since before the row of e was created.
HeldSince(e, p) ==
  /\ p \in Endpoints \X Numbers
  /\ p[1] # e /\ Exists(p[1]) /\ row[p[1]].ext = p[2]
  /\ row[e].state # "absent"

\* Neither the row nor a running handler of e can lead it to n: not the identity match, not
\* the diff, not the adoption of orphans.
OutOfReach(e, n) ==
  /\ row[e].ext # n /\ row[e].phone # n /\ row[e].device # n
  /\ row[e].qr # "none" => n \in row[e].known
  /\ \A h \in Calls : call[h].e = e =>
       /\ call[h].op = "start" => n \in call[h].list
       /\ call[h].op = "poll" /\ call[h].pc = "list" =>
            /\ call[h].seen.phone # n /\ call[h].seen.device # n
            /\ call[h].seen.qr # "none" => n \in call[h].seen.known
       /\ call[h].op = "poll" /\ call[h].pc = "write" => call[h].n # n

\* The wizard of e was told n, or e cannot come by it.
Barred(e, n) == told[e] = n \/ OutOfReach(e, n)

EarlyOK == \A e \in Endpoints : \A p \in early[e] : HeldSince(e, p) /\ Barred(e, p[2])

IInv == TypeOK /\ DevicesOK /\ CallsOK /\ WizardsOK /\ LinkedWasScanned /\ EarlyOK

-----------------------------------------------------------------------------
(* The parts of the type invariant.                                          *)

CallRecords == [op : {"idle", "start", "poll", "unlink", "reattach", "delete"},
                pc : {"done", "snapshot", "create", "mint", "store", "storeFailed",
                      "read", "list", "taken", "write", "expire", "forget", "clear", "tx"},
                e : Endpoints \cup {None}, by : Sessions \cup {None},
                list : SUBSET Numbers, n : MaybeNumber, seen : Rows]

RowsType == row \in [Endpoints -> Rows] /\ \A e \in Endpoints : row[e].state = "linked" => row[e].ext # None
SidecarType == /\ channel \in Channels
               /\ listed \subseteq sidecar /\ sidecar \subseteq scanned
               /\ pending \subseteq Numbers \ sidecar /\ scanned \subseteq Numbers
UiType == /\ ui \in [Sessions -> [kind : {"idle", "entering", "qr", "linked", "failed"},
                                  e : Endpoints \cup {None}]]
          /\ \A s \in Sessions : ui[s].kind \in {"qr", "linked"} => ui[s].e # None
CallType == call \in [Calls -> CallRecords]
EarlyType == early \in [Endpoints -> SUBSET (Endpoints \X Numbers)]
ToldType == told \in [Endpoints -> MaybeNumber]
UsedType == used \in [op : 0..MaxOps, fault : 0..MaxFaults]

\* They are the whole of it.
LEMMA TypeParts ==
  TypeOK <=> RowsType /\ SidecarType /\ UiType /\ CallType /\ EarlyType /\ ToldType /\ UsedType
BY DEF TypeOK, RowsType, SidecarType, UiType, CallType, EarlyType, ToldType, UsedType, CallRecords

Types == RowsType /\ SidecarType /\ UiType /\ CallType /\ EarlyType /\ ToldType /\ UsedType

\* The records rows and handlers start from, and None is nothing else.
LEMMA Constants ==
  /\ Absent \in Rows /\ Absent.state = "absent" /\ Absent.ext = None /\ Absent.phone = None /\ Absent.device = None
     /\ Absent.qr = "none"
  /\ Gone \in Rows /\ Gone.state = "gone" /\ Gone.ext = None /\ Gone.phone = None /\ Gone.device = None
     /\ Gone.qr = "none"
  /\ IdleCall \in CallRecords /\ IdleCall.op = "idle" /\ IdleCall.pc = "done" /\ IdleCall.e = None
  /\ None \notin Numbers /\ None \notin Endpoints /\ None \notin Sessions
<1>1. Absent \in Rows /\ Absent.state = "absent" /\ Absent.ext = None /\ Absent.phone = None /\ Absent.device = None
     /\ Absent.qr = "none"
  BY DEF Absent, Rows, MaybeNumber
<1>2. Gone \in Rows /\ Gone.state = "gone" /\ Gone.ext = None /\ Gone.phone = None /\ Gone.device = None
     /\ Gone.qr = "none"
  BY DEF Gone, Absent, Rows, MaybeNumber
<1>3. IdleCall \in CallRecords /\ IdleCall.op = "idle" /\ IdleCall.pc = "done" /\ IdleCall.e = None
  BY <1>1 DEF IdleCall, CallRecords, MaybeNumber
<1>4. QED
  BY <1>1, <1>2, <1>3, BoundsAssumption

\* A row linked to n.
LEMMA HoldingType ==
  ASSUME NEW n \in Numbers
  PROVE  Holding(n) \in Rows /\ Holding(n).state = "linked" /\ Holding(n).ext = n
BY DEF Holding, Absent, Rows, MaybeNumber

\* A row that a poll links to n keeps its device name d.
LEMMA RelinkedType ==
  ASSUME NEW n \in Numbers, NEW d \in MaybeNumber
  PROVE  LET r == [Holding(n) EXCEPT !.device = d]
         IN  /\ r \in Rows /\ r.state = "linked" /\ r.ext = n /\ r.phone = n /\ r.device = d
             /\ r.qr = "none"
BY DEF Holding, Absent, Rows, MaybeNumber

\* The adapters of QR channels.
LEMMA QrChannels ==
  ASSUME SidecarType PROVE channel \in {"gwmd", "unoapi", "signal-cli-rest-api"}
<1>1. channel \in AdapterNames /\ Capabilities(channel).provisioning = "qr"
  BY BoundsAssumption DEF SidecarType
<1>2. channel # "goip-vendor" /\ channel # "mock"
  <2>1. Capabilities("goip-vendor") = GoipCapabilities /\ Capabilities("mock") = MockCapabilities
    BY DEF Capabilities
  <2>2. GoipCapabilities.provisioning = "none" /\ MockCapabilities.provisioning = "none"
    BY DEF GoipCapabilities, MockCapabilities
  <2>3. QED
    BY <1>1, <2>1, <2>2
<1>3. QED
  BY <1>1, <1>2 DEF AdapterNames

\* Whatever the sidecar answers, the accounts an adapter makes of its list are listed ones:
\* gwmd's created devices do not count, and the others have none.
LEMMA ListIsListed ==
  ASSUME SidecarType, DevicesOK, NEW r \in {Good} \cup Bad
  PROVE  List(r).accounts \subseteq listed
<1>1. \A d \in Devices : d.number \in listed \/ (d.number \in pending /\ d.loggedIn = FALSE)
  BY DEF Devices
<1>2. \A accounts : Listed(r, accounts).accounts \subseteq accounts
  BY DEF Listed
<1>3. CASE channel = "gwmd"
  <2>1. List(r) = GwmdList(r, Devices)
    BY <1>3 DEF List, ListProvisionedAccounts
  <2>2. {d.number : d \in {x \in Devices : x.loggedIn}} \subseteq listed
    BY <1>1
  <2>3. QED
    BY <2>1, <2>2, <1>2 DEF GwmdList
<1>4. CASE channel # "gwmd"
  <2>1. {d.number : d \in Devices} \subseteq listed
    BY <1>1, <1>4 DEF DevicesOK
  <2>2. List(r) = SignalList(r, Devices) \/ List(r) = UnoList(r, Devices)
    BY <1>4, QrChannels DEF List, ListProvisionedAccounts
  <2>3. QED
    BY <2>1, <2>2, <1>2 DEF SignalList, UnoList
<1>5. QED
  BY <1>3, <1>4

\* Only gwmd creates a device before the QR is there.
LEMMA MintEffect ==
  ASSUME SidecarType, NEW o \in ProvisionQr(channel, QrAnswers), o.created
  PROVE  channel = "gwmd"
<1>1. CASE channel = "unoapi"
  <2>1. ProvisionQr(channel, QrAnswers) = {UnoProvisionQr(r) : r \in QrAnswers}
    BY <1>1 DEF ProvisionQr
  <2>2. QED
    BY <2>1 DEF UnoProvisionQr
<1>2. CASE channel = "signal-cli-rest-api"
  <2>1. ProvisionQr(channel, QrAnswers) = {SignalProvisionQr(r) : r \in QrAnswers}
    BY <1>2 DEF ProvisionQr
  <2>2. QED
    BY <2>1 DEF SignalProvisionQr
<1>3. QED
  BY <1>1, <1>2, QrChannels

-----------------------------------------------------------------------------
(* What the steps do.                                                        *)

\* Only the call of h changes, and it stays a call.
OnlyCall(h) == CallType' /\ \A k \in Calls \ {h} : call'[k] = call[k]

\* The call of h goes on: what it is about stays.
SameCall(h) ==
  /\ OnlyCall(h) /\ call'[h].op = call[h].op /\ call'[h].e = call[h].e
Ended(h) == OnlyCall(h) /\ call'[h] = IdleCall

\* Only the row of e changes, and it stays a row.
OnlyRow(e) == e \in Endpoints /\ row' \in [Endpoints -> Rows] /\ \A x \in Endpoints \ {e} : row'[x] = row[x]

\* A handler ends.
LEMMA EndEffect ==
  ASSUME CallType, NEW h \in Calls, End(h) PROVE Ended(h)
BY Constants DEF CallType, End, Ended, OnlyCall

\* A handler goes on to another await.
LEMMA GotoEffect ==
  ASSUME CallType, NEW h \in Calls, NEW pc \in {"store", "storeFailed", "write", "clear"}, Goto(h, pc)
  PROVE  SameCall(h) /\ call'[h].pc = pc /\ call'[h].list = call[h].list /\ call'[h].n = call[h].n
BY DEF CallType, CallRecords, Goto, SameCall, OnlyCall

\* A handler starts.
LEMMA StartEffect ==
  ASSUME CallType, NEW h \in Calls, NEW op \in {"start", "poll", "unlink", "delete"},
         NEW pc \in {"snapshot", "read", "tx"}, NEW e \in Endpoints \cup {None}, NEW by \in Sessions \cup {None},
         Start(h, op, pc, e, by)
  PROVE  OnlyCall(h) /\ call'[h].op = op /\ call'[h].pc = pc /\ call'[h].e = e /\ call'[h].list = {}
<1> DEFINE c == [IdleCall EXCEPT !.op = op, !.pc = pc, !.e = e, !.by = by]
<1>1. c \in CallRecords /\ c.op = op /\ c.pc = pc /\ c.e = e /\ c.list = {}
  BY Constants DEF IdleCall, CallRecords, MaybeNumber
<1>2. call' = [call EXCEPT ![h] = c]
  BY DEF Start
<1> HIDE DEF c
<1>3. QED
  BY <1>1, <1>2 DEF CallType, OnlyCall

\* A row changes its state, and nothing that could link it.
LEMMA WithState ==
  ASSUME NEW r \in Rows, NEW st \in {"failed", "qr_displayed"}
  PROVE  LET q == [r EXCEPT !.state = st]
         IN  q \in Rows /\ q.state = st /\ q.ext = r.ext /\ q.phone = r.phone /\ q.device = r.device
             /\ q.qr = r.qr /\ q.known = r.known
BY DEF Rows

\* The row of a handler's endpoint.
LEMMA RowOfCall ==
  ASSUME Types, CallsOK, NEW h \in Calls, call[h].op \in {"poll", "unlink", "reattach", "delete"}
                                          \/ (call[h].op = "start" /\ call[h].pc \notin {"snapshot", "create"})
  PROVE  call[h].e \in Endpoints /\ row[call[h].e] \in Rows
BY DEF Types, CallsOK, RowsType

\* A QR code expires.
LEMMA ExpireEffect ==
  ASSUME Types, DevicesOK, CallsOK, NEW e \in Endpoints, Expire(e)
  PROVE  OnlyRow(e) /\ row[e].qr = "live" /\ row'[e].state = row[e].state /\ row'[e].ext = row[e].ext
         /\ row'[e].phone = row[e].phone /\ row'[e].device = row[e].device /\ row'[e].known = row[e].known
<1>1. row[e] \in Rows
  BY DEF Types, RowsType
<1>2. [row[e] EXCEPT !.qr = "expired"] \in Rows
  BY <1>1 DEF Rows
<1>3. QED
  BY <1>1, <1>2 DEF Expire, OnlyRow, Types, RowsType, Rows

\* An edit touches the flag or the configuration.
LEMMA UpdateEndpointEffect ==
  ASSUME Types, DevicesOK, CallsOK, NEW e \in Endpoints, UpdateEndpoint(e)
  PROVE  /\ OnlyRow(e) /\ Exists(e) /\ row'[e].state = row[e].state /\ row'[e].ext = row[e].ext
         /\ row'[e].phone = row[e].phone /\ row'[e].device = row[e].device
         /\ row'[e].qr = "none" \/ (row'[e].qr = row[e].qr /\ row'[e].known = row[e].known)
<1>1. row[e] \in Rows
  BY DEF Types, RowsType
<1>2. ASSUME NEW b \in BOOLEAN PROVE [row[e] EXCEPT !.enabled = b] \in Rows
  BY <1>1 DEF Rows
<1>3. [row[e] EXCEPT !.qr = "none", !.known = {}] \in Rows
  BY <1>1 DEF Rows
<1>4. CASE row' = [row EXCEPT ![e].enabled = ~@]
  <2>1. row' = [row EXCEPT ![e] = [row[e] EXCEPT !.enabled = ~row[e].enabled]]
    BY <1>4
  <2>2. (~row[e].enabled) \in BOOLEAN
    OBVIOUS
  <2>3. [row[e] EXCEPT !.enabled = ~row[e].enabled] \in Rows
    BY <1>2, <2>2
  <2> DEFINE q == [row[e] EXCEPT !.enabled = ~row[e].enabled]
  <2>4. q.state = row[e].state /\ q.ext = row[e].ext /\ q.phone = row[e].phone
        /\ q.device = row[e].device /\ q.qr = row[e].qr /\ q.known = row[e].known
    BY <1>1 DEF Rows
  <2>5. Exists(e)
    BY DEF UpdateEndpoint
  <2> HIDE DEF q
  <2>6. row' = [row EXCEPT ![e] = q] /\ q \in Rows
    BY <2>1, <2>3 DEF q
  <2>7. QED
    BY <2>4, <2>5, <2>6 DEF OnlyRow, Types, RowsType
<1>5. CASE row' = [row EXCEPT ![e].qr = "none", ![e].known = {}]
  BY <1>1, <1>3, <1>5 DEF UpdateEndpoint, OnlyRow, Types, RowsType, Rows
<1>6. QED
  BY <1>4, <1>5 DEF UpdateEndpoint

\* The snapshot is what the sidecar lists, or nothing.
LEMMA SnapshotEffect ==
  ASSUME Types, DevicesOK, CallsOK, NEW h \in Calls, Snapshot(h)
  PROVE  SameCall(h) /\ call[h].op = "start" /\ call[h].e = None /\ call'[h].pc = "create" /\ call'[h].list \subseteq Numbers
<1>1. List(Good).accounts \subseteq Numbers
  BY ListIsListed DEF Types, SidecarType
<1>2. PICK l \in SUBSET Numbers : call' = [call EXCEPT ![h].pc = "create", ![h].list = l]
  BY <1>1 DEF Snapshot
<1>3. call[h].op = "start" /\ call[h].e = None
  BY DEF Snapshot, At, CallsOK
<1> DEFINE c == [call[h] EXCEPT !.pc = "create", !.list = l]
<1>4. call[h] \in CallRecords /\ call' = [call EXCEPT ![h] = c]
  BY <1>2 DEF Types, CallType
<1>5. c \in CallRecords /\ c.op = call[h].op /\ c.e = call[h].e /\ c.pc = "create" /\ c.list = l
  BY <1>4 DEF CallRecords
<1> HIDE DEF c
<1>6. QED
  BY <1>3, <1>4, <1>5 DEF SameCall, OnlyCall, Types, CallType

\* A row is created for a wizard.
LEMMA CreateRowEffect ==
  ASSUME Types, DevicesOK, CallsOK, NEW h \in Calls, CreateRow(h)
  PROVE  \E e \in Endpoints, asked \in MaybeNumber :
           /\ OnlyRow(e) /\ row[e].state = "absent" /\ row'[e].state = "qr_pending"
           /\ {row'[e].ext, row'[e].phone, row'[e].device} \subseteq {None, asked} /\ row'[e].qr = "none"
           /\ told' = [told EXCEPT ![e] = asked]
           /\ early' = [early EXCEPT ![e] = {p \in (Endpoints \ {e}) \X call[h].list :
                                               row[p[1]].state = "linked" /\ row[p[1]].ext = p[2]}]
           /\ OnlyCall(h) /\ call[h].op = "start" /\ call'[h].op = "start" /\ call'[h].pc = "mint" /\ call'[h].e = e
           /\ call'[h].list = call[h].list /\ call'[h].n = asked
           /\ channel # "signal-cli-rest-api" => asked \in Numbers
<1>1. PICK e \in Endpoints, asked \in IF channel = "signal-cli-rest-api" THEN {None} ELSE Asks :
        /\ row[e].state = "absent"
        /\ \E plus \in BOOLEAN : row' = [row EXCEPT ![e] = Typed(asked, plus)]
        /\ told' = [told EXCEPT ![e] = asked]
        /\ early' = [early EXCEPT ![e] = {p \in (Endpoints \ {e}) \X call[h].list :
                                            row[p[1]].state = "linked" /\ row[p[1]].ext = p[2]}]
        /\ call' = [call EXCEPT ![h].pc = "mint", ![h].e = e, ![h].n = asked]
  BY DEF CreateRow
<1>2. asked \in MaybeNumber /\ (channel # "signal-cli-rest-api" => asked \in Numbers)
  BY BoundsAssumption DEF MaybeNumber
<1>0. PICK plus \in BOOLEAN : row' = [row EXCEPT ![e] = Typed(asked, plus)]
  BY <1>1
<1> DEFINE r == Typed(asked, plus)
<1>3. r \in Rows /\ r.state = "qr_pending" /\ {r.ext, r.phone, r.device} \subseteq {None, asked} /\ r.qr = "none"
  BY <1>2 DEF Typed, Absent, Rows, MaybeNumber
<1>4. row' = [row EXCEPT ![e] = r]
  BY <1>0
<1> HIDE DEF r
<1>5. OnlyRow(e) /\ row'[e] = r
  BY <1>3, <1>4 DEF OnlyRow, Types, RowsType
<1>6. /\ OnlyCall(h) /\ call[h].op = "start" /\ call'[h].op = "start" /\ call'[h].pc = "mint" /\ call'[h].e = e
      /\ call'[h].list = call[h].list /\ call'[h].n = asked
  <2> DEFINE c == [call[h] EXCEPT !.pc = "mint", !.e = e, !.n = asked]
  <2>1. call[h] \in CallRecords /\ call[h].op = "start"
    BY DEF CreateRow, At, Types, CallType
  <2>2. c \in CallRecords /\ c.op = "start" /\ c.pc = "mint" /\ c.e = e /\ c.list = call[h].list /\ c.n = asked
    BY <1>2, <2>1 DEF CallRecords
  <2>3. call' = [call EXCEPT ![h] = c]
    BY <1>1
  <2> HIDE DEF c
  <2>4. QED
    BY <2>1, <2>2, <2>3 DEF OnlyCall, Types, CallType
<1>7. QED
  BY <1>1, <1>2, <1>3, <1>5, <1>6

\* Only gwmd leaves a device behind.
LEMMA MintStepEffect ==
  ASSUME Types, DevicesOK, CallsOK, NEW h \in Calls, Mint(h)
  PROVE  /\ SameCall(h) /\ call[h].op = "start" /\ call[h].pc = "mint" /\ call'[h].pc \in {"store", "storeFailed"} /\ call'[h].list = call[h].list
         /\ \/ UNCHANGED pending
            \/ channel = "gwmd" /\ call[h].n \in Numbers /\ pending' = pending \cup ({call[h].n} \ sidecar)
<1>0. call[h].op = "start" /\ call[h].pc = "mint"
  BY DEF Mint, At
<1>1. PICK o \in ProvisionQr(channel, QrAnswers) :
        /\ (o.ok /\ Goto(h, "store")) \/ (~o.ok /\ Goto(h, "storeFailed"))
        /\ pending' = IF o.created THEN pending \cup ({call[h].n} \ sidecar) ELSE pending
  BY DEF Mint
<1>2. CASE o.created
  <2>1. channel = "gwmd"
    BY <1>2, MintEffect DEF Types
  <2>2. call[h].n \in Numbers
    BY <1>0, <2>1 DEF CallsOK
  <2>3. QED
    BY <1>0, <1>1, <1>2, <2>1, <2>2, GotoEffect DEF Types
<1>3. CASE ~o.created
  BY <1>0, <1>1, <1>3, GotoEffect DEF Types
<1>4. QED
  BY <1>2, <1>3

\* The QR is stored in the row it was minted for, with the snapshot.
LEMMA StoreQrEffect ==
  ASSUME Types, DevicesOK, CallsOK, NEW h \in Calls, StoreQr(h)
  PROVE  /\ Ended(h) /\ call[h].op = "start" /\ call[h].e \in Endpoints
         /\ \/ UNCHANGED row
            \/ /\ Exists(call[h].e) /\ OnlyRow(call[h].e) /\ row'[call[h].e].state = "qr_displayed"
               /\ row'[call[h].e].ext = row[call[h].e].ext /\ row'[call[h].e].phone = row[call[h].e].phone
               /\ row'[call[h].e].device = row[call[h].e].device
               /\ row'[call[h].e].known = call[h].list
<1> DEFINE e == call[h].e
<1>1. e \in Endpoints /\ row[e] \in Rows /\ call[h].op = "start" /\ call[h].list \subseteq Numbers
  BY RowOfCall DEF StoreQr, At, Types, CallType, CallRecords
<1>2. Ended(h)
  BY EndEffect DEF StoreQr, Types
<1> HIDE DEF e
<1>3. CASE ~UNCHANGED row
  <2> DEFINE r == [row[e] EXCEPT !.state = "qr_displayed", !.qr = "live", !.known = call[h].list]
  <2>1. r \in Rows /\ r.state = "qr_displayed" /\ r.ext = row[e].ext /\ r.phone = row[e].phone
        /\ r.device = row[e].device /\ r.known = call[h].list
    BY <1>1 DEF Rows
  <2>2. row' = [row EXCEPT ![e] = r] /\ Exists(e)
    BY <1>1, <1>3 DEF StoreQr, e
  <2> HIDE DEF r
  <2>3. OnlyRow(e) /\ row'[e] = r
    BY <1>1, <2>1, <2>2 DEF OnlyRow, Types, RowsType
  <2>4. QED
    BY <1>1, <1>2, <2>1, <2>2, <2>3 DEF e
<1>4. QED
  BY <1>1, <1>2, <1>3 DEF e

\* A row whose QR could not be minted has failed.
LEMMA StoreFailedEffect ==
  ASSUME Types, DevicesOK, CallsOK, NEW h \in Calls, StoreFailed(h)
  PROVE  /\ Ended(h) /\ call[h].op = "start" /\ call[h].e \in Endpoints
         /\ \/ UNCHANGED row
            \/ /\ Exists(call[h].e) /\ OnlyRow(call[h].e) /\ row'[call[h].e].state = "failed"
               /\ row'[call[h].e].ext = row[call[h].e].ext /\ row'[call[h].e].phone = row[call[h].e].phone
               /\ row'[call[h].e].device = row[call[h].e].device
               /\ row'[call[h].e].qr = row[call[h].e].qr /\ row'[call[h].e].known = row[call[h].e].known
<1> DEFINE e == call[h].e
<1>1. e \in Endpoints /\ row[e] \in Rows /\ call[h].op = "start"
  BY RowOfCall DEF StoreFailed, At
<1>2. Ended(h)
  BY EndEffect DEF StoreFailed, Types
<1> HIDE DEF e
<1>3. CASE ~UNCHANGED row
  <2> DEFINE r == [row[e] EXCEPT !.state = "failed"]
  <2>1. /\ r \in Rows /\ r.state = "failed" /\ r.ext = row[e].ext /\ r.phone = row[e].phone
        /\ r.device = row[e].device /\ r.qr = row[e].qr /\ r.known = row[e].known
    BY <1>1, WithState
  <2>2. row' = [row EXCEPT ![e] = r] /\ Exists(e)
    BY <1>1, <1>3 DEF StoreFailed, e
  <2> HIDE DEF r
  <2>3. OnlyRow(e) /\ row'[e] = r
    BY <1>1, <2>1, <2>2 DEF OnlyRow, Types, RowsType
  <2>4. QED
    BY <1>1, <1>2, <2>1, <2>2, <2>3 DEF e
<1>4. QED
  BY <1>1, <1>2, <1>3 DEF e

\* A row whose QR expired has failed.
LEMMA PollExpiredEffect ==
  ASSUME Types, DevicesOK, CallsOK, NEW h \in Calls, PollExpired(h)
  PROVE  /\ Ended(h) /\ call[h].op = "poll" /\ call[h].e \in Endpoints
         /\ \/ UNCHANGED row
            \/ /\ Exists(call[h].e) /\ OnlyRow(call[h].e) /\ row'[call[h].e].state = "failed"
               /\ row'[call[h].e].ext = row[call[h].e].ext /\ row'[call[h].e].phone = row[call[h].e].phone
               /\ row'[call[h].e].device = row[call[h].e].device
               /\ row'[call[h].e].qr = row[call[h].e].qr /\ row'[call[h].e].known = row[call[h].e].known
<1> DEFINE e == call[h].e
<1>1. e \in Endpoints /\ row[e] \in Rows /\ call[h].op = "poll"
  BY RowOfCall DEF PollExpired, At
<1>2. Ended(h)
  BY EndEffect DEF PollExpired, Types
<1> HIDE DEF e
<1>3. CASE ~UNCHANGED row
  <2> DEFINE r == [row[e] EXCEPT !.state = "failed"]
  <2>1. /\ r \in Rows /\ r.state = "failed" /\ r.ext = row[e].ext /\ r.phone = row[e].phone
        /\ r.device = row[e].device /\ r.qr = row[e].qr /\ r.known = row[e].known
    BY <1>1, WithState
  <2>2. row' = [row EXCEPT ![e] = r] /\ Exists(e)
    BY <1>1, <1>3 DEF PollExpired, e
  <2> HIDE DEF r
  <2>3. OnlyRow(e) /\ row'[e] = r
    BY <1>1, <2>1, <2>2 DEF OnlyRow, Types, RowsType
  <2>4. QED
    BY <1>1, <1>2, <2>1, <2>2, <2>3 DEF e
<1>4. QED
  BY <1>1, <1>2, <1>3 DEF e

\* A poll reads its row.
LEMMA PollReadEffect ==
  ASSUME Types, DevicesOK, CallsOK, NEW h \in Calls, PollRead(h)
  PROVE  /\ call[h].op = "poll" /\ call[h].e \in Endpoints
         /\ Ended(h) \/ (SameCall(h) /\ call'[h].pc = "list" /\ call'[h].list = call[h].list /\ call'[h].seen = row[call[h].e])
<1>1. call[h].op = "poll" /\ call[h].e \in Endpoints /\ row[call[h].e] \in Rows
  BY RowOfCall DEF PollRead, At
<1>2. CASE End(h)
  BY <1>1, <1>2, EndEffect DEF Types
<1>3. CASE call' = [call EXCEPT ![h].pc = "list", ![h].seen = row[call[h].e]]
  <2> DEFINE r == row[call[h].e]
  <2>1. r \in Rows /\ call' = [call EXCEPT ![h].pc = "list", ![h].seen = r]
    BY <1>1, <1>3
  <2> HIDE DEF r
  <2>2. SameCall(h) /\ call'[h].pc = "list" /\ call'[h].list = call[h].list /\ call'[h].seen = r
    <3> DEFINE c == [call[h] EXCEPT !.pc = "list", !.seen = r]
    <3>1. call[h] \in CallRecords /\ call' = [call EXCEPT ![h] = c]
      BY <2>1 DEF Types, CallType
    <3>2. c \in CallRecords /\ c.op = call[h].op /\ c.e = call[h].e /\ c.pc = "list" /\ c.list = call[h].list /\ c.seen = r
      BY <2>1, <3>1 DEF CallRecords
    <3> HIDE DEF c
    <3>3. QED
      BY <3>1, <3>2 DEF SameCall, OnlyCall, Types, CallType
  <2>3. QED
    BY <1>1, <2>2 DEF r
<1>4. QED
  BY <1>2, <1>3 DEF PollRead

\* A match is by identity or new since the snapshot, and it is listed.
LEMMA PollListEffect ==
  ASSUME Types, DevicesOK, CallsOK, NEW h \in Calls, PollList(h)
  PROVE  /\ call[h].op = "poll" /\ call[h].pc = "list"
         /\ \/ Ended(h)
            \/ /\ SameCall(h) /\ call'[h].pc # "list" /\ call'[h].list \subseteq listed
               /\ call'[h].pc = "write" =>
                    /\ call'[h].n \in call'[h].list
                    /\ call'[h].n \in {call[h].seen.phone, call[h].seen.device} \cup Fresh(call[h].seen, call'[h].list)
<1>1. call[h].op = "poll" /\ call[h].pc = "list" /\ call[h] \in CallRecords
  BY DEF PollList, At, Types, CallType
<1>2. PICK r \in {Good} \cup Bad :
        \/ \E n \in IF Match(call[h].seen, List(r).accounts) = {} THEN {None}
                    ELSE Match(call[h].seen, List(r).accounts) :
             call' = [call EXCEPT
                        ![h].list = List(r).accounts,
                        ![h].n = n,
                        ![h].pc = IF Match(call[h].seen, List(r).accounts) # {} THEN "write"
                                  ELSE IF List(r).accounts # {} THEN "taken" ELSE NoMatch(h)]
        \/ End(h)
  BY DEF PollList
<1>3. CASE End(h)
  BY <1>1, <1>3, EndEffect DEF Types
<1>4. CASE ~End(h)
  <2> DEFINE l == List(r).accounts
             m == Match(call[h].seen, l)
             pc == IF m # {} THEN "write" ELSE IF l # {} THEN "taken" ELSE NoMatch(h)
  <2>1. l \subseteq listed /\ l \subseteq Numbers
    BY ListIsListed DEF Types, SidecarType
  <2>2. m \subseteq {call[h].seen.phone, call[h].seen.device} \cup Fresh(call[h].seen, l) /\ m \subseteq l
    <3>1. Fresh(call[h].seen, l) \subseteq l
      BY DEF Fresh
    <3> HIDE DEF l
    <3>2. QED
      BY <3>1 DEF Match, Identified
  <2>3. pc \in {"write", "taken", "expire", "done"} /\ (pc = "write" => m # {})
    BY DEF NoMatch
  <2>4. PICK n \in IF m = {} THEN {None} ELSE m :
          call' = [call EXCEPT ![h].list = l, ![h].n = n, ![h].pc = pc]
    BY <1>2, <1>4
  <2> HIDE DEF l, m, pc
  <2>5. n \in MaybeNumber /\ (m # {} => n \in m)
    BY <2>1, <2>2 DEF MaybeNumber
  <2>6. SameCall(h) /\ call'[h].pc = pc /\ call'[h].list = l /\ call'[h].n = n
    <3> DEFINE c == [call[h] EXCEPT !.list = l, !.n = n, !.pc = pc]
    <3>1. c \in CallRecords /\ c.op = call[h].op /\ c.e = call[h].e /\ c.pc = pc /\ c.list = l /\ c.n = n
      BY <1>1, <2>1, <2>3, <2>5 DEF CallRecords
    <3>2. call' = [call EXCEPT ![h] = c]
      BY <2>4
    <3> HIDE DEF c
    <3>3. QED
      BY <3>1, <3>2 DEF SameCall, OnlyCall, Types, CallType
  <2>7. QED
    BY <1>1, <2>1, <2>2, <2>3, <2>5, <2>6
<1>5. QED
  BY <1>3, <1>4

\* What is adopted is listed, and no other endpoint holds it.
LEMMA PollTakenEffect ==
  ASSUME Types, DevicesOK, CallsOK, NEW h \in Calls, PollTaken(h)
  PROVE  /\ call[h].op = "poll" /\ call[h].e \in Endpoints /\ SameCall(h) /\ call'[h].list = call[h].list
         /\ call'[h].pc \in {"write", "expire", "done"}
         /\ call'[h].pc = "write" => call'[h].n \in call[h].list /\ Holders(call'[h].n) \subseteq {call[h].e}
<1>1. call[h].op = "poll" /\ call[h].e \in Endpoints /\ call[h] \in CallRecords
  BY RowOfCall DEF PollTaken, At, Types, CallType
<1> DEFINE orphans == {n \in call[h].list : Holders(n) \subseteq {call[h].e}}
           n == IF Cardinality(orphans) = 1 THEN CHOOSE x \in orphans : TRUE ELSE None
           pc == IF Cardinality(orphans) = 1 THEN "write" ELSE NoMatch(h)
<1>2. call' = [call EXCEPT ![h].n = n, ![h].pc = pc]
  BY DEF PollTaken
<1>3. orphans \subseteq call[h].list /\ call[h].list \subseteq Numbers
  BY <1>1 DEF CallRecords
<1>4. \A x \in orphans : Holders(x) \subseteq {call[h].e}
  OBVIOUS
<1>5. Cardinality(orphans) = 1 => orphans # {}
  BY FS_EmptySet
<1> HIDE DEF orphans
<1>6. n \in MaybeNumber /\ (pc = "write" => n \in orphans)
  BY <1>3, <1>5 DEF MaybeNumber, NoMatch
<1>7. pc \in {"write", "expire", "done"}
  BY DEF NoMatch
<1> HIDE DEF n, pc
<1>8. SameCall(h) /\ call'[h].pc = pc /\ call'[h].list = call[h].list /\ call'[h].n = n
  <2> DEFINE c == [call[h] EXCEPT !.n = n, !.pc = pc]
  <2>1. call' = [call EXCEPT ![h] = c]
    BY <1>2 DEF Types, CallType
  <2>2. c \in CallRecords /\ c.op = call[h].op /\ c.e = call[h].e /\ c.pc = pc /\ c.list = call[h].list /\ c.n = n
    BY <1>1, <1>6, <1>7 DEF CallRecords
  <2> HIDE DEF c
  <2>3. QED
    BY <2>1, <2>2 DEF SameCall, OnlyCall, Types, CallType
<1>9. QED
  BY <1>1, <1>3, <1>4, <1>6, <1>7, <1>8

\* A poll links its row to the number it matched; the device name stays.
LEMMA PollLinkEffect ==
  ASSUME Types, DevicesOK, CallsOK, NEW h \in Calls, PollLink(h)
  PROVE  /\ Ended(h) /\ call[h].op = "poll" /\ call[h].pc = "write" /\ call[h].e \in Endpoints /\ call[h].n \in scanned
         /\ \/ UNCHANGED <<row, early>>
            \/ /\ Exists(call[h].e) /\ OnlyRow(call[h].e) /\ row'[call[h].e].state = "linked"
               /\ row'[call[h].e].ext = call[h].n /\ row'[call[h].e].phone = call[h].n
               /\ row'[call[h].e].device = row[call[h].e].device /\ row'[call[h].e].qr = "none"
               /\ early' = [x \in Endpoints |-> {p \in early[x] : p[1] = call[h].e => p[2] = call[h].n}]
<1> DEFINE e == call[h].e
<1>1. /\ e \in Endpoints /\ call[h].op = "poll" /\ call[h].pc = "write" /\ call[h].n \in scanned /\ call[h].n \in Numbers
      /\ row[e].device \in MaybeNumber
  BY RowOfCall DEF PollLink, At, CallsOK, Types, SidecarType, Rows
<1>2. Ended(h)
  BY EndEffect DEF PollLink, Types
<1> DEFINE r == [Holding(call[h].n) EXCEPT !.device = row[e].device]
<1>3. CASE Exists(e) /\ SetRow(e, r)
  <2>1. r \in Rows /\ r.state = "linked" /\ r.ext = call[h].n /\ r.phone = call[h].n
        /\ r.device = row[e].device /\ r.qr = "none"
    BY <1>1, RelinkedType
  <2> HIDE DEF r
  <2>2. /\ row' = [row EXCEPT ![e] = r]
        /\ early' = [x \in Endpoints |-> {p \in early[x] : p[1] = e => p[2] = call[h].n}]
    BY <1>3, <2>1 DEF SetRow
  <2> HIDE DEF e
  <2>3. OnlyRow(e) /\ row'[e] = r
    BY <1>1, <2>1, <2>2 DEF OnlyRow, Types, RowsType
  <2>4. QED
    BY <1>1, <1>2, <1>3, <2>1, <2>2, <2>3 DEF e
<1>4. CASE UNCHANGED <<row, early>>
  BY <1>1, <1>2, <1>4
<1>5. QED
  BY <1>3, <1>4 DEF PollLink

\* An unlinked row gives up its number.
LEMMA UnlinkClearEffect ==
  ASSUME Types, DevicesOK, CallsOK, NEW h \in Calls, UnlinkClear(h)
  PROVE  /\ Ended(h) /\ call[h].op = "unlink" /\ call[h].e \in Endpoints
         /\ \/ UNCHANGED <<row, early>>
            \/ /\ Exists(call[h].e) /\ OnlyRow(call[h].e) /\ row'[call[h].e].state = "unpaired"
               /\ row'[call[h].e].ext = None /\ row'[call[h].e].phone = None /\ row'[call[h].e].device = None
               /\ row'[call[h].e].qr = row[call[h].e].qr /\ row'[call[h].e].known = row[call[h].e].known
               /\ early' = [x \in Endpoints |-> {p \in early[x] : p[1] = call[h].e => p[2] = None}]
<1> DEFINE e == call[h].e
<1>1. e \in Endpoints /\ row[e] \in Rows /\ call[h].op = "unlink"
  BY RowOfCall DEF UnlinkClear, At
<1>2. Ended(h)
  BY EndEffect DEF UnlinkClear, Types
<1>3. CASE Exists(e) /\ SetRow(e, Cleared(row[e]))
  <2> DEFINE r == Cleared(row[e])
  <2>1. r \in Rows /\ r.state = "unpaired" /\ r.ext = None /\ r.phone = None /\ r.device = None
        /\ r.qr = row[e].qr /\ r.known = row[e].known
    BY <1>1 DEF Cleared, Rows, MaybeNumber
  <2> HIDE DEF r
  <2>2. /\ row' = [row EXCEPT ![e] = r]
        /\ early' = [x \in Endpoints |-> {p \in early[x] : p[1] = e => p[2] = None}]
    BY <1>3, <2>1 DEF SetRow, r
  <2> HIDE DEF e
  <2>3. OnlyRow(e) /\ row'[e] = r
    BY <1>1, <2>1, <2>2 DEF OnlyRow, Types, RowsType
  <2>4. QED
    BY <1>1, <1>2, <1>3, <2>1, <2>2, <2>3 DEF e
<1>4. CASE UNCHANGED <<row, early>>
  BY <1>1, <1>2, <1>4
<1>5. QED
  BY <1>3, <1>4 DEF UnlinkClear

\* An operator links a row to a listed number.
LEMMA ReattachWriteEffect ==
  ASSUME Types, DevicesOK, CallsOK, NEW h \in Calls, ReattachWrite(h)
  PROVE  /\ Ended(h) /\ call[h].op = "reattach" /\ call[h].e \in Endpoints /\ call[h].n \in scanned
         /\ \/ UNCHANGED <<row, early>>
            \/ /\ Exists(call[h].e) /\ OnlyRow(call[h].e) /\ row'[call[h].e].state = "linked"
               /\ row'[call[h].e].ext = call[h].n
               /\ early' = [x \in Endpoints |-> IF x = call[h].e THEN {}
                                                ELSE {p \in early[x] : p[1] = call[h].e => p[2] = call[h].n}]
<1> DEFINE e == call[h].e
<1>1. e \in Endpoints /\ row[e] \in Rows /\ call[h].op = "reattach" /\ call[h].n \in scanned /\ call[h].n \in Numbers
  BY RowOfCall DEF ReattachWrite, At, CallsOK, Types, SidecarType
<1>2. Ended(h)
  BY EndEffect DEF ReattachWrite, Types
<1>3. CASE ~UNCHANGED <<row, early>>
  <2> DEFINE r == [row[e] EXCEPT !.state = "linked", !.ext = call[h].n, !.phone = call[h].n, !.enabled = TRUE]
  <2>1. r \in Rows /\ r.state = "linked" /\ r.ext = call[h].n
    BY <1>1 DEF Rows, MaybeNumber
  <2>0. Exists(e)
    BY <1>3 DEF ReattachWrite
  <2>2. /\ row' = [row EXCEPT ![e] = r]
        /\ early' = [x \in Endpoints |-> IF x = e THEN {} ELSE {p \in early[x] : p[1] = e => p[2] = r.ext}]
    BY <1>3 DEF ReattachWrite
  <2> HIDE DEF e, r
  <2>3. OnlyRow(e) /\ row'[e] = r
    BY <1>1, <2>1, <2>2 DEF OnlyRow, Types, RowsType
  <2>4. QED
    BY <1>1, <1>2, <2>0, <2>1, <2>2, <2>3 DEF e
<1>4. QED
  BY <1>1, <1>2, <1>3

\* A deleted row is gone for good.
LEMMA DeleteTxEffect ==
  ASSUME Types, DevicesOK, CallsOK, NEW h \in Calls, DeleteTx(h)
  PROVE  /\ Ended(h) /\ call[h].op = "delete" /\ call[h].e \in Endpoints
         /\ \/ UNCHANGED <<row, early>>
            \/ /\ Exists(call[h].e) /\ OnlyRow(call[h].e) /\ row'[call[h].e] = Gone
               /\ early' = [x \in Endpoints |-> {p \in early[x] : p[1] = call[h].e => p[2] = None}]
<1> DEFINE e == call[h].e
<1>1. e \in Endpoints /\ call[h].op = "delete"
  BY RowOfCall DEF DeleteTx, At
<1>2. Ended(h)
  BY EndEffect DEF DeleteTx, Types
<1>3. CASE Exists(e) /\ SetRow(e, Gone)
  <2>2. /\ row' = [row EXCEPT ![e] = Gone]
        /\ early' = [x \in Endpoints |-> {p \in early[x] : p[1] = e => p[2] = None}]
    BY <1>3, Constants DEF SetRow
  <2> HIDE DEF e
  <2>3. OnlyRow(e) /\ row'[e] = Gone
    BY <1>1, <2>2, Constants DEF OnlyRow, Types, RowsType
  <2>4. QED
    BY <1>1, <1>2, <1>3, <2>2, <2>3 DEF e
<1>4. CASE UNCHANGED <<row, early>>
  BY <1>1, <1>2, <1>4
<1>5. QED
  BY <1>3, <1>4 DEF DeleteTx

\* Unlink is for a linked row.
LEMMA UnlinkReadEffect ==
  ASSUME Types, DevicesOK, CallsOK, NEW h \in Calls, UnlinkRead(h)
  PROVE  /\ call[h].op = "unlink"
         /\ Ended(h) \/ (SameCall(h) /\ call'[h].pc = "forget")
<1>1. call[h].op = "unlink" /\ call[h].e \in Endpoints /\ row[call[h].e] \in Rows
  BY RowOfCall DEF UnlinkRead, At
<1>2. CASE End(h)
  BY <1>1, <1>2, EndEffect DEF Types
<1>3. CASE call' = [call EXCEPT ![h].pc = "forget", ![h].n = row[call[h].e].ext]
  <2> DEFINE n == row[call[h].e].ext
  <2>1. n \in MaybeNumber /\ call' = [call EXCEPT ![h].pc = "forget", ![h].n = n]
    BY <1>1, <1>3 DEF Rows
  <2> HIDE DEF n
  <2> DEFINE c == [call[h] EXCEPT !.pc = "forget", !.n = n]
  <2>2. call[h] \in CallRecords
    BY DEF Types, CallType
  <2>3. c \in CallRecords /\ c.op = call[h].op /\ c.e = call[h].e /\ c.pc = "forget"
    BY <2>1, <2>2 DEF CallRecords
  <2>4. call' = [call EXCEPT ![h] = c]
    BY <2>1
  <2> HIDE DEF c
  <2>5. QED
    BY <1>1, <2>3, <2>4 DEF SameCall, OnlyCall, Types, CallType
<1>4. QED
  BY <1>2, <1>3 DEF UnlinkRead

\* The sidecar forgets the number, or the handler gives up.
LEMMA UnlinkForgetEffect ==
  ASSUME Types, DevicesOK, CallsOK, NEW h \in Calls, UnlinkForget(h)
  PROVE  /\ call[h].op = "unlink"
         /\ Ended(h) \/ (SameCall(h) /\ call'[h].pc = "clear")
<1>1. call[h].op = "unlink" /\ (End(h) \/ Goto(h, "clear"))
  BY DEF UnlinkForget, At
<1>2. QED
  BY <1>1, EndEffect, GotoEffect DEF Types

\* The number to attach is still listed.
LEMMA ReattachListEffect ==
  ASSUME Types, DevicesOK, CallsOK, NEW h \in Calls, ReattachList(h)
  PROVE  /\ call[h].op = "reattach"
         /\ Ended(h) \/ (SameCall(h) /\ call'[h].pc = "write" /\ call'[h].n \in listed)
<1>1. call[h].op = "reattach"
  BY DEF ReattachList, At
<1>2. CASE End(h)
  BY <1>1, <1>2, EndEffect DEF Types
<1>3. CASE call[h].n \in List(Good).accounts /\ Goto(h, "write")
  BY <1>1, <1>3, GotoEffect, ListIsListed DEF Types
<1>4. QED
  BY <1>2, <1>3 DEF ReattachList

\* A closed wizard is no longer answered.
LEMMA CloseWizardEffect ==
  ASSUME Types, DevicesOK, CallsOK, NEW s \in Sessions, CloseWizard(s)
  PROVE  /\ CallType'
         /\ \A h \in Calls : /\ call'[h].op = call[h].op /\ call'[h].pc = call[h].pc /\ call'[h].e = call[h].e
                             /\ call'[h].list = call[h].list /\ call'[h].n = call[h].n /\ call'[h].seen = call[h].seen
<1>1. \A c \in CallRecords : [c EXCEPT !.by = None] \in CallRecords
  BY DEF CallRecords
<1>2. call' = [h \in Calls |-> IF call[h].by = s THEN [call[h] EXCEPT !.by = None] ELSE call[h]]
  BY DEF CloseWizard
<1>3. CallType'
  BY <1>1, <1>2 DEF Types, CallType
<1>4. QED
  BY <1>2, <1>3 DEF Types, CallType, CallRecords

\* A wizard asks for a QR.
LEMMA BeginEffect ==
  ASSUME Types, DevicesOK, CallsOK, WizardsOK, NEW s \in Sessions, NEW h \in Calls, Begin(s, h)
  PROVE  OnlyCall(h) /\ call'[h].op = "start" /\ call'[h].pc = "snapshot" /\ call'[h].e = None /\ call'[h].list = {}
<1>1. None \in {None}
  BY DEF Begin, Types
<1>2. Start(h, "start", "snapshot", None, s)
  BY DEF Begin
<1>3. QED
  BY <1>1, <1>2, StartEffect DEF Types

\* A handler starts, for a row that exists or existed.
LEMMA TickEffect ==
  ASSUME Types, DevicesOK, CallsOK, WizardsOK, NEW s \in Sessions, NEW h \in Calls, Tick(s, h)
  PROVE  OnlyCall(h) /\ call'[h].op = "poll" /\ call'[h].pc = "read" /\ call'[h].e = ui[s].e /\ call'[h].list = {} /\ call'[h].e \in Endpoints /\ row[call'[h].e].state # "absent"
<1>1. ui[s].e \in Endpoints /\ row[ui[s].e].state # "absent"
  BY DEF Tick, Types, WizardsOK, UiType
<1>2. Start(h, "poll", "read", ui[s].e, s)
  BY DEF Tick
<1>3. QED
  BY <1>1, <1>2, StartEffect DEF Types

\* A handler starts, for a row that exists or existed.
LEMMA CancelProvisionEffect ==
  ASSUME Types, DevicesOK, CallsOK, WizardsOK, NEW s \in Sessions, NEW h \in Calls, CancelProvision(s, h)
  PROVE  OnlyCall(h) /\ call'[h].op = "unlink" /\ call'[h].pc = "read" /\ call'[h].e = ui[s].e /\ call'[h].list = {} /\ call'[h].e \in Endpoints /\ row[call'[h].e].state # "absent"
<1>1. ui[s].e \in Endpoints /\ row[ui[s].e].state # "absent"
  BY DEF CancelProvision, Types, WizardsOK, UiType
<1>2. Start(h, "unlink", "read", ui[s].e, s)
  BY DEF CancelProvision
<1>3. QED
  BY <1>1, <1>2, StartEffect DEF Types

\* A handler starts, for a row that exists or existed.
LEMMA AskUnlinkEffect ==
  ASSUME Types, DevicesOK, CallsOK, WizardsOK, NEW e \in Endpoints, NEW h \in Calls, AskUnlink(e, h)
  PROVE  OnlyCall(h) /\ call'[h].op = "unlink" /\ call'[h].pc = "read" /\ call'[h].e = e /\ call'[h].list = {} /\ call'[h].e \in Endpoints /\ row[call'[h].e].state # "absent"
<1>1. e \in Endpoints /\ row[e].state # "absent"
  BY DEF AskUnlink, Types, Exists
<1>2. Start(h, "unlink", "read", e, None)
  BY DEF AskUnlink
<1>3. QED
  BY <1>1, <1>2, StartEffect DEF Types

\* A handler starts, for a row that exists or existed.
LEMMA AskDeleteEffect ==
  ASSUME Types, DevicesOK, CallsOK, WizardsOK, NEW e \in Endpoints, NEW h \in Calls, AskDelete(e, h)
  PROVE  OnlyCall(h) /\ call'[h].op = "delete" /\ call'[h].pc = "tx" /\ call'[h].e = e /\ call'[h].list = {} /\ call'[h].e \in Endpoints /\ row[call'[h].e].state # "absent"
<1>1. e \in Endpoints /\ row[e].state # "absent"
  BY DEF AskDelete, Types, Exists
<1>2. Start(h, "delete", "tx", e, None)
  BY DEF AskDelete
<1>3. QED
  BY <1>1, <1>2, StartEffect DEF Types

\* A poll without a match answers what it read.
LEMMA PollAnswerEffect ==
  ASSUME Types, DevicesOK, CallsOK, NEW h \in Calls, PollAnswer(h)
  PROVE  Ended(h) /\ call[h].op = "poll" /\ call[h].e \in Endpoints
<1>1. call[h].op = "poll" /\ call[h].e \in Endpoints
  BY RowOfCall DEF PollAnswer, At
<1>2. QED
  BY <1>1, EndEffect DEF PollAnswer, Types

\* An operator picks a number.
LEMMA AskReattachEffect ==
  ASSUME Types, DevicesOK, CallsOK, NEW e \in Endpoints, NEW n \in Numbers, NEW h \in Calls, AskReattach(e, n, h)
  PROVE  OnlyCall(h) /\ call'[h].op = "reattach" /\ call'[h].pc = "list" /\ call'[h].e = e /\ row[e].state # "absent"
<1> DEFINE c == [IdleCall EXCEPT !.op = "reattach", !.pc = "list", !.e = e, !.n = n]
<1>1. c \in CallRecords /\ c.op = "reattach" /\ c.pc = "list" /\ c.e = e
  BY Constants DEF IdleCall, CallRecords, MaybeNumber
<1>2. call' = [call EXCEPT ![h] = c] /\ row[e].state # "absent"
  BY DEF AskReattach, Exists
<1> HIDE DEF c
<1>3. QED
  BY <1>1, <1>2 DEF Types, CallType, OnlyCall

-----------------------------------------------------------------------------
(* Type correctness.                                                         *)

\* Rows stay rows, and a linked one has a number.
LEMMA RowsTypeStep ==
  Types /\ DevicesOK /\ CallsOK /\ WizardsOK /\ Next => RowsType'
<1> SUFFICES ASSUME Types /\ DevicesOK /\ CallsOK /\ WizardsOK, Next PROVE RowsType'
  OBVIOUS
<1>1. ASSUME UNCHANGED row PROVE RowsType'
  BY <1>1 DEF RowsType, Types
<1>Scan. ASSUME NEW e \in Endpoints, NEW n \in Numbers, Scan(e, n) PROVE RowsType'
  BY <1>1, <1>Scan DEF Scan
<1>Surface. ASSUME NEW n \in Numbers, Surface(n) PROVE RowsType'
  BY <1>1, <1>Surface DEF Surface
<1>Expire. ASSUME NEW e \in Endpoints, Expire(e) PROVE RowsType'
  BY <1>Expire, ExpireEffect, Constants, HoldingType DEF RowsType, OnlyRow, Types, SidecarType
<1>UpdateEndpoint. ASSUME NEW e \in Endpoints, UpdateEndpoint(e) PROVE RowsType'
  BY <1>UpdateEndpoint, UpdateEndpointEffect, Constants, HoldingType DEF RowsType, OnlyRow,
     Types, SidecarType
<1>CloseWizard. ASSUME NEW s \in Sessions, CloseWizard(s) PROVE RowsType'
  BY <1>1, <1>CloseWizard DEF CloseWizard, Op
<1>Snapshot. ASSUME NEW h \in Calls, Snapshot(h) PROVE RowsType'
  BY <1>1, <1>Snapshot DEF Snapshot, Fault
<1>CreateRow. ASSUME NEW h \in Calls, CreateRow(h) PROVE RowsType'
  BY <1>CreateRow, CreateRowEffect, Constants, HoldingType DEF RowsType, OnlyRow, Types,
     SidecarType
<1>Mint. ASSUME NEW h \in Calls, Mint(h) PROVE RowsType'
  BY <1>1, <1>Mint DEF Mint, Fault, Goto
<1>StoreQr. ASSUME NEW h \in Calls, StoreQr(h) PROVE RowsType'
  BY <1>StoreQr, StoreQrEffect, Constants, HoldingType DEF RowsType, OnlyRow, Types, SidecarType
<1>StoreFailed. ASSUME NEW h \in Calls, StoreFailed(h) PROVE RowsType'
  BY <1>StoreFailed, StoreFailedEffect, Constants, HoldingType DEF RowsType, OnlyRow, Types,
     SidecarType
<1>PollRead. ASSUME NEW h \in Calls, PollRead(h) PROVE RowsType'
  BY <1>1, <1>PollRead DEF PollRead, End
<1>PollList. ASSUME NEW h \in Calls, PollList(h) PROVE RowsType'
  BY <1>1, <1>PollList DEF PollList, End, Fault
<1>PollTaken. ASSUME NEW h \in Calls, PollTaken(h) PROVE RowsType'
  BY <1>1, <1>PollTaken DEF PollTaken
<1>PollLink. ASSUME NEW h \in Calls, PollLink(h) PROVE RowsType'
  BY <1>PollLink, PollLinkEffect, Constants, HoldingType DEF RowsType, OnlyRow, Types,
     SidecarType
<1>PollExpired. ASSUME NEW h \in Calls, PollExpired(h) PROVE RowsType'
  BY <1>PollExpired, PollExpiredEffect, Constants, HoldingType DEF RowsType, OnlyRow, Types,
     SidecarType
<1>PollAnswer. ASSUME NEW h \in Calls, PollAnswer(h) PROVE RowsType'
  BY <1>1, <1>PollAnswer DEF PollAnswer, End, ReplyToPoll, Reply
<1>UnlinkRead. ASSUME NEW h \in Calls, UnlinkRead(h) PROVE RowsType'
  BY <1>1, <1>UnlinkRead DEF UnlinkRead, End, Reply
<1>UnlinkForget. ASSUME NEW h \in Calls, UnlinkForget(h) PROVE RowsType'
  BY <1>1, <1>UnlinkForget DEF UnlinkForget, Fault, Goto, End, Reply
<1>UnlinkClear. ASSUME NEW h \in Calls, UnlinkClear(h) PROVE RowsType'
  BY <1>UnlinkClear, UnlinkClearEffect, Constants, HoldingType DEF RowsType, OnlyRow, Types,
     SidecarType
<1>ReattachList. ASSUME NEW h \in Calls, ReattachList(h) PROVE RowsType'
  BY <1>1, <1>ReattachList DEF ReattachList, Goto, End, Fault
<1>ReattachWrite. ASSUME NEW h \in Calls, ReattachWrite(h) PROVE RowsType'
  BY <1>ReattachWrite, ReattachWriteEffect, Constants, HoldingType DEF RowsType, OnlyRow,
     Types, SidecarType
<1>DeleteTx. ASSUME NEW h \in Calls, DeleteTx(h) PROVE RowsType'
  BY <1>DeleteTx, DeleteTxEffect, Constants, HoldingType DEF RowsType, OnlyRow, Types,
     SidecarType
<1>Begin. ASSUME NEW s \in Sessions, NEW h \in Calls, Begin(s, h) PROVE RowsType'
  BY <1>1, <1>Begin DEF Begin, Start
<1>Tick. ASSUME NEW s \in Sessions, NEW h \in Calls, Tick(s, h) PROVE RowsType'
  BY <1>1, <1>Tick DEF Tick, Start
<1>CancelProvision. ASSUME NEW s \in Sessions, NEW h \in Calls, CancelProvision(s, h)
                    PROVE  RowsType'
  BY <1>1, <1>CancelProvision DEF CancelProvision, Op, Start
<1>AskUnlink. ASSUME NEW e \in Endpoints, NEW h \in Calls, AskUnlink(e, h) PROVE RowsType'
  BY <1>1, <1>AskUnlink DEF AskUnlink, Op, Start
<1>AskDelete. ASSUME NEW e \in Endpoints, NEW h \in Calls, AskDelete(e, h) PROVE RowsType'
  BY <1>1, <1>AskDelete DEF AskDelete, Op, Start
<1>AskReattach. ASSUME NEW e \in Endpoints, NEW n \in Numbers, NEW h \in Calls, AskReattach(e, n, h)
                PROVE  RowsType'
  BY <1>1, <1>AskReattach DEF AskReattach, Op
<1>QED. QED
  BY <1>Scan, <1>Surface, <1>Expire, <1>UpdateEndpoint, <1>CloseWizard, <1>Snapshot,
     <1>CreateRow, <1>Mint, <1>StoreQr, <1>StoreFailed, <1>PollRead, <1>PollList,
     <1>PollTaken, <1>PollLink, <1>PollExpired, <1>PollAnswer, <1>UnlinkRead, <1>UnlinkForget,
     <1>UnlinkClear, <1>ReattachList, <1>ReattachWrite, <1>DeleteTx, <1>Begin, <1>Tick,
     <1>CancelProvision, <1>AskUnlink, <1>AskDelete, <1>AskReattach DEF Next, HandlerNext,
     StartNext, PollNext, OperatorNext

\* What is listed is paired, what is paired was scanned, and nothing pending is paired.
LEMMA SidecarTypeStep ==
  Types /\ DevicesOK /\ CallsOK /\ WizardsOK /\ Next => SidecarType'
<1> SUFFICES ASSUME Types /\ DevicesOK /\ CallsOK /\ WizardsOK, Next PROVE SidecarType'
  OBVIOUS
<1>1. ASSUME UNCHANGED <<channel, listed, sidecar, scanned, pending>> PROVE SidecarType'
  BY <1>1 DEF SidecarType, Types
<1>Scan. ASSUME NEW e \in Endpoints, NEW n \in Numbers, Scan(e, n) PROVE SidecarType'
  BY <1>Scan DEF Scan, Types, SidecarType
<1>Surface. ASSUME NEW n \in Numbers, Surface(n) PROVE SidecarType'
  <2>1. UNCHANGED <<channel, sidecar, scanned, pending>> /\ listed' \subseteq sidecar
    BY <1>Surface DEF Surface, others, Types, SidecarType
  <2>2. QED
    BY <2>1 DEF Types, SidecarType
<1>Expire. ASSUME NEW e \in Endpoints, Expire(e) PROVE SidecarType'
  BY <1>1, <1>Expire DEF Expire, others
<1>UpdateEndpoint. ASSUME NEW e \in Endpoints, UpdateEndpoint(e) PROVE SidecarType'
  BY <1>1, <1>UpdateEndpoint DEF UpdateEndpoint, Op, others
<1>CloseWizard. ASSUME NEW s \in Sessions, CloseWizard(s) PROVE SidecarType'
  BY <1>1, <1>CloseWizard DEF CloseWizard, Op, others
<1>Snapshot. ASSUME NEW h \in Calls, Snapshot(h) PROVE SidecarType'
  BY <1>1, <1>Snapshot DEF Snapshot, Fault, others
<1>CreateRow. ASSUME NEW h \in Calls, CreateRow(h) PROVE SidecarType'
  BY <1>1, <1>CreateRow DEF CreateRow
<1>Mint. ASSUME NEW h \in Calls, Mint(h) PROVE SidecarType'
  <2>1. UNCHANGED <<channel, listed, sidecar, scanned>>
    BY <1>Mint DEF Mint
  <2>2. pending' \subseteq Numbers \ sidecar
    BY <1>Mint, MintStepEffect DEF Types, SidecarType
  <2>3. QED
    BY <2>1, <2>2 DEF Types, SidecarType
<1>StoreQr. ASSUME NEW h \in Calls, StoreQr(h) PROVE SidecarType'
  BY <1>1, <1>StoreQr DEF StoreQr, End, Reply, others
<1>StoreFailed. ASSUME NEW h \in Calls, StoreFailed(h) PROVE SidecarType'
  BY <1>1, <1>StoreFailed DEF StoreFailed, End, Reply, others
<1>PollRead. ASSUME NEW h \in Calls, PollRead(h) PROVE SidecarType'
  BY <1>1, <1>PollRead DEF PollRead, End, others
<1>PollList. ASSUME NEW h \in Calls, PollList(h) PROVE SidecarType'
  BY <1>1, <1>PollList DEF PollList, End, Fault, others
<1>PollTaken. ASSUME NEW h \in Calls, PollTaken(h) PROVE SidecarType'
  BY <1>1, <1>PollTaken DEF PollTaken, others
<1>PollLink. ASSUME NEW h \in Calls, PollLink(h) PROVE SidecarType'
  BY <1>1, <1>PollLink DEF PollLink, SetRow, End, ReplyToPoll, Reply, others
<1>PollExpired. ASSUME NEW h \in Calls, PollExpired(h) PROVE SidecarType'
  BY <1>1, <1>PollExpired DEF PollExpired, End, ReplyToPoll, Reply, others
<1>PollAnswer. ASSUME NEW h \in Calls, PollAnswer(h) PROVE SidecarType'
  BY <1>1, <1>PollAnswer DEF PollAnswer, End, ReplyToPoll, Reply, others
<1>UnlinkRead. ASSUME NEW h \in Calls, UnlinkRead(h) PROVE SidecarType'
  BY <1>1, <1>UnlinkRead DEF UnlinkRead, End, Reply, others
<1>UnlinkForget. ASSUME NEW h \in Calls, UnlinkForget(h) PROVE SidecarType'
  BY <1>UnlinkForget DEF UnlinkForget, Fault, Goto, End, Reply, Types, SidecarType
<1>UnlinkClear. ASSUME NEW h \in Calls, UnlinkClear(h) PROVE SidecarType'
  BY <1>1, <1>UnlinkClear DEF UnlinkClear, SetRow, Fault, End, Reply, others
<1>ReattachList. ASSUME NEW h \in Calls, ReattachList(h) PROVE SidecarType'
  BY <1>1, <1>ReattachList DEF ReattachList, Goto, End, Fault, others
<1>ReattachWrite. ASSUME NEW h \in Calls, ReattachWrite(h) PROVE SidecarType'
  BY <1>1, <1>ReattachWrite DEF ReattachWrite, End, others
<1>DeleteTx. ASSUME NEW h \in Calls, DeleteTx(h) PROVE SidecarType'
  BY <1>1, <1>DeleteTx DEF DeleteTx, SetRow, End, others
<1>Begin. ASSUME NEW s \in Sessions, NEW h \in Calls, Begin(s, h) PROVE SidecarType'
  BY <1>1, <1>Begin DEF Begin, Start, others
<1>Tick. ASSUME NEW s \in Sessions, NEW h \in Calls, Tick(s, h) PROVE SidecarType'
  BY <1>1, <1>Tick DEF Tick, Start, others
<1>CancelProvision. ASSUME NEW s \in Sessions, NEW h \in Calls, CancelProvision(s, h)
                    PROVE  SidecarType'
  BY <1>1, <1>CancelProvision DEF CancelProvision, Op, Start, others
<1>AskUnlink. ASSUME NEW e \in Endpoints, NEW h \in Calls, AskUnlink(e, h) PROVE SidecarType'
  BY <1>1, <1>AskUnlink DEF AskUnlink, Op, Start, others
<1>AskDelete. ASSUME NEW e \in Endpoints, NEW h \in Calls, AskDelete(e, h) PROVE SidecarType'
  BY <1>1, <1>AskDelete DEF AskDelete, Op, Start, others
<1>AskReattach. ASSUME NEW e \in Endpoints, NEW n \in Numbers, NEW h \in Calls, AskReattach(e, n, h)
                PROVE  SidecarType'
  BY <1>1, <1>AskReattach DEF AskReattach, Op, others
<1>QED. QED
  BY <1>Scan, <1>Surface, <1>Expire, <1>UpdateEndpoint, <1>CloseWizard, <1>Snapshot,
     <1>CreateRow, <1>Mint, <1>StoreQr, <1>StoreFailed, <1>PollRead, <1>PollList,
     <1>PollTaken, <1>PollLink, <1>PollExpired, <1>PollAnswer, <1>UnlinkRead, <1>UnlinkForget,
     <1>UnlinkClear, <1>ReattachList, <1>ReattachWrite, <1>DeleteTx, <1>Begin, <1>Tick,
     <1>CancelProvision, <1>AskUnlink, <1>AskDelete, <1>AskReattach DEF Next, HandlerNext,
     StartNext, PollNext, OperatorNext

\* A wizard that shows a QR or a link shows whose.
LEMMA UiTypeStep ==
  Types /\ DevicesOK /\ CallsOK /\ WizardsOK /\ Next => UiType'
<1> SUFFICES ASSUME Types /\ DevicesOK /\ CallsOK /\ WizardsOK, Next PROVE UiType'
  OBVIOUS
<1>1. ASSUME UNCHANGED ui PROVE UiType'
  BY <1>1 DEF UiType, Types
<1>Scan. ASSUME NEW e \in Endpoints, NEW n \in Numbers, Scan(e, n) PROVE UiType'
  BY <1>1, <1>Scan DEF Scan
<1>Surface. ASSUME NEW n \in Numbers, Surface(n) PROVE UiType'
  BY <1>1, <1>Surface DEF Surface
<1>Expire. ASSUME NEW e \in Endpoints, Expire(e) PROVE UiType'
  BY <1>1, <1>Expire DEF Expire
<1>UpdateEndpoint. ASSUME NEW e \in Endpoints, UpdateEndpoint(e) PROVE UiType'
  BY <1>1, <1>UpdateEndpoint DEF UpdateEndpoint, Op
<1>CloseWizard. ASSUME NEW s \in Sessions, CloseWizard(s) PROVE UiType'
  BY <1>CloseWizard, Constants, RowOfCall DEF CloseWizard, Op, Types, UiType, IdleUi, Failed
<1>Snapshot. ASSUME NEW h \in Calls, Snapshot(h) PROVE UiType'
  BY <1>1, <1>Snapshot DEF Snapshot, Fault
<1>CreateRow. ASSUME NEW h \in Calls, CreateRow(h) PROVE UiType'
  BY <1>1, <1>CreateRow DEF CreateRow
<1>Mint. ASSUME NEW h \in Calls, Mint(h) PROVE UiType'
  BY <1>1, <1>Mint DEF Mint, Fault, Goto
<1>StoreQr. ASSUME NEW h \in Calls, StoreQr(h) PROVE UiType'
  <2>1. call[h].e \in Endpoints
    BY <1>StoreQr, RowOfCall DEF StoreQr, At
  <2>2. QED
    BY <1>StoreQr, <2>1, Constants DEF StoreQr, ReplyToPoll, Reply, Types, UiType, Failed
<1>StoreFailed. ASSUME NEW h \in Calls, StoreFailed(h) PROVE UiType'
  BY <1>StoreFailed, Constants, RowOfCall DEF StoreFailed, End, Reply, Types, UiType, IdleUi,
     Failed
<1>PollRead. ASSUME NEW h \in Calls, PollRead(h) PROVE UiType'
  BY <1>1, <1>PollRead DEF PollRead, End
<1>PollList. ASSUME NEW h \in Calls, PollList(h) PROVE UiType'
  BY <1>1, <1>PollList DEF PollList, End, Fault
<1>PollTaken. ASSUME NEW h \in Calls, PollTaken(h) PROVE UiType'
  BY <1>1, <1>PollTaken DEF PollTaken
<1>PollLink. ASSUME NEW h \in Calls, PollLink(h) PROVE UiType'
  <2>1. call[h].e \in Endpoints
    BY <1>PollLink, RowOfCall DEF PollLink, At
  <2>2. QED
    BY <1>PollLink, <2>1, Constants DEF PollLink, ReplyToPoll, Reply, Types, UiType, Failed
<1>PollExpired. ASSUME NEW h \in Calls, PollExpired(h) PROVE UiType'
  BY <1>PollExpired, Constants, RowOfCall DEF PollExpired, End, ReplyToPoll, Reply, Types,
     UiType, IdleUi, Failed
<1>PollAnswer. ASSUME NEW h \in Calls, PollAnswer(h) PROVE UiType'
  <2>1. call[h].e \in Endpoints
    BY <1>PollAnswer, RowOfCall DEF PollAnswer, At
  <2>2. QED
    BY <1>PollAnswer, <2>1, Constants DEF PollAnswer, ReplyToPoll, Reply, Types, UiType, Failed
<1>UnlinkRead. ASSUME NEW h \in Calls, UnlinkRead(h) PROVE UiType'
  BY <1>UnlinkRead, Constants, RowOfCall DEF UnlinkRead, End, Reply, Types, UiType, IdleUi,
     Failed
<1>UnlinkForget. ASSUME NEW h \in Calls, UnlinkForget(h) PROVE UiType'
  BY <1>UnlinkForget, Constants, RowOfCall DEF UnlinkForget, Fault, Goto, End, Reply, Types,
     UiType, IdleUi, Failed
<1>UnlinkClear. ASSUME NEW h \in Calls, UnlinkClear(h) PROVE UiType'
  BY <1>UnlinkClear, Constants, RowOfCall DEF UnlinkClear, SetRow, Fault, End, Reply, Types,
     UiType, IdleUi, Failed
<1>ReattachList. ASSUME NEW h \in Calls, ReattachList(h) PROVE UiType'
  BY <1>1, <1>ReattachList DEF ReattachList, Goto, End, Fault
<1>ReattachWrite. ASSUME NEW h \in Calls, ReattachWrite(h) PROVE UiType'
  BY <1>1, <1>ReattachWrite DEF ReattachWrite, End
<1>DeleteTx. ASSUME NEW h \in Calls, DeleteTx(h) PROVE UiType'
  BY <1>1, <1>DeleteTx DEF DeleteTx, SetRow, End
<1>Begin. ASSUME NEW s \in Sessions, NEW h \in Calls, Begin(s, h) PROVE UiType'
  BY <1>Begin, Constants, RowOfCall DEF Begin, Start, Types, UiType, IdleUi, Failed
<1>Tick. ASSUME NEW s \in Sessions, NEW h \in Calls, Tick(s, h) PROVE UiType'
  BY <1>1, <1>Tick DEF Tick, Start
<1>CancelProvision. ASSUME NEW s \in Sessions, NEW h \in Calls, CancelProvision(s, h)
                    PROVE  UiType'
  BY <1>1, <1>CancelProvision DEF CancelProvision, Op, Start
<1>AskUnlink. ASSUME NEW e \in Endpoints, NEW h \in Calls, AskUnlink(e, h) PROVE UiType'
  BY <1>1, <1>AskUnlink DEF AskUnlink, Op, Start
<1>AskDelete. ASSUME NEW e \in Endpoints, NEW h \in Calls, AskDelete(e, h) PROVE UiType'
  BY <1>1, <1>AskDelete DEF AskDelete, Op, Start
<1>AskReattach. ASSUME NEW e \in Endpoints, NEW n \in Numbers, NEW h \in Calls, AskReattach(e, n, h)
                PROVE  UiType'
  BY <1>1, <1>AskReattach DEF AskReattach, Op
<1>QED. QED
  BY <1>Scan, <1>Surface, <1>Expire, <1>UpdateEndpoint, <1>CloseWizard, <1>Snapshot,
     <1>CreateRow, <1>Mint, <1>StoreQr, <1>StoreFailed, <1>PollRead, <1>PollList,
     <1>PollTaken, <1>PollLink, <1>PollExpired, <1>PollAnswer, <1>UnlinkRead, <1>UnlinkForget,
     <1>UnlinkClear, <1>ReattachList, <1>ReattachWrite, <1>DeleteTx, <1>Begin, <1>Tick,
     <1>CancelProvision, <1>AskUnlink, <1>AskDelete, <1>AskReattach DEF Next, HandlerNext,
     StartNext, PollNext, OperatorNext

\* Calls stay calls.
LEMMA CallTypeStep ==
  Types /\ DevicesOK /\ CallsOK /\ WizardsOK /\ Next => CallType'
<1> SUFFICES ASSUME Types /\ DevicesOK /\ CallsOK /\ WizardsOK, Next PROVE CallType'
  OBVIOUS
<1>1. ASSUME UNCHANGED call PROVE CallType'
  BY <1>1 DEF CallType, Types
<1>Scan. ASSUME NEW e \in Endpoints, NEW n \in Numbers, Scan(e, n) PROVE CallType'
  BY <1>1, <1>Scan DEF Scan
<1>Surface. ASSUME NEW n \in Numbers, Surface(n) PROVE CallType'
  BY <1>1, <1>Surface DEF Surface
<1>Expire. ASSUME NEW e \in Endpoints, Expire(e) PROVE CallType'
  BY <1>1, <1>Expire DEF Expire
<1>UpdateEndpoint. ASSUME NEW e \in Endpoints, UpdateEndpoint(e) PROVE CallType'
  BY <1>1, <1>UpdateEndpoint DEF UpdateEndpoint, Op
<1>CloseWizard. ASSUME NEW s \in Sessions, CloseWizard(s) PROVE CallType'
  BY <1>CloseWizard, CloseWizardEffect DEF OnlyCall, SameCall, Ended
<1>Snapshot. ASSUME NEW h \in Calls, Snapshot(h) PROVE CallType'
  BY <1>Snapshot, SnapshotEffect DEF OnlyCall, SameCall, Ended
<1>CreateRow. ASSUME NEW h \in Calls, CreateRow(h) PROVE CallType'
  BY <1>CreateRow, CreateRowEffect DEF OnlyCall, SameCall, Ended
<1>Mint. ASSUME NEW h \in Calls, Mint(h) PROVE CallType'
  BY <1>Mint, MintStepEffect DEF OnlyCall, SameCall, Ended
<1>StoreQr. ASSUME NEW h \in Calls, StoreQr(h) PROVE CallType'
  BY <1>StoreQr, StoreQrEffect DEF OnlyCall, SameCall, Ended
<1>StoreFailed. ASSUME NEW h \in Calls, StoreFailed(h) PROVE CallType'
  BY <1>StoreFailed, StoreFailedEffect DEF OnlyCall, SameCall, Ended
<1>PollRead. ASSUME NEW h \in Calls, PollRead(h) PROVE CallType'
  BY <1>PollRead, PollReadEffect DEF OnlyCall, SameCall, Ended
<1>PollList. ASSUME NEW h \in Calls, PollList(h) PROVE CallType'
  BY <1>PollList, PollListEffect DEF OnlyCall, SameCall, Ended
<1>PollTaken. ASSUME NEW h \in Calls, PollTaken(h) PROVE CallType'
  BY <1>PollTaken, PollTakenEffect DEF OnlyCall, SameCall, Ended
<1>PollLink. ASSUME NEW h \in Calls, PollLink(h) PROVE CallType'
  BY <1>PollLink, PollLinkEffect DEF OnlyCall, SameCall, Ended
<1>PollExpired. ASSUME NEW h \in Calls, PollExpired(h) PROVE CallType'
  BY <1>PollExpired, PollExpiredEffect DEF OnlyCall, SameCall, Ended
<1>PollAnswer. ASSUME NEW h \in Calls, PollAnswer(h) PROVE CallType'
  BY <1>PollAnswer, PollAnswerEffect DEF OnlyCall, SameCall, Ended
<1>UnlinkRead. ASSUME NEW h \in Calls, UnlinkRead(h) PROVE CallType'
  BY <1>UnlinkRead, UnlinkReadEffect DEF OnlyCall, SameCall, Ended
<1>UnlinkForget. ASSUME NEW h \in Calls, UnlinkForget(h) PROVE CallType'
  BY <1>UnlinkForget, UnlinkForgetEffect DEF OnlyCall, SameCall, Ended
<1>UnlinkClear. ASSUME NEW h \in Calls, UnlinkClear(h) PROVE CallType'
  BY <1>UnlinkClear, UnlinkClearEffect DEF OnlyCall, SameCall, Ended
<1>ReattachList. ASSUME NEW h \in Calls, ReattachList(h) PROVE CallType'
  BY <1>ReattachList, ReattachListEffect DEF OnlyCall, SameCall, Ended
<1>ReattachWrite. ASSUME NEW h \in Calls, ReattachWrite(h) PROVE CallType'
  BY <1>ReattachWrite, ReattachWriteEffect DEF OnlyCall, SameCall, Ended
<1>DeleteTx. ASSUME NEW h \in Calls, DeleteTx(h) PROVE CallType'
  BY <1>DeleteTx, DeleteTxEffect DEF OnlyCall, SameCall, Ended
<1>Begin. ASSUME NEW s \in Sessions, NEW h \in Calls, Begin(s, h) PROVE CallType'
  BY <1>Begin, BeginEffect DEF OnlyCall, SameCall, Ended
<1>Tick. ASSUME NEW s \in Sessions, NEW h \in Calls, Tick(s, h) PROVE CallType'
  BY <1>Tick, TickEffect DEF OnlyCall, SameCall, Ended
<1>CancelProvision. ASSUME NEW s \in Sessions, NEW h \in Calls, CancelProvision(s, h)
                    PROVE  CallType'
  BY <1>CancelProvision, CancelProvisionEffect DEF OnlyCall, SameCall, Ended
<1>AskUnlink. ASSUME NEW e \in Endpoints, NEW h \in Calls, AskUnlink(e, h) PROVE CallType'
  BY <1>AskUnlink, AskUnlinkEffect DEF OnlyCall, SameCall, Ended
<1>AskDelete. ASSUME NEW e \in Endpoints, NEW h \in Calls, AskDelete(e, h) PROVE CallType'
  BY <1>AskDelete, AskDeleteEffect DEF OnlyCall, SameCall, Ended
<1>AskReattach. ASSUME NEW e \in Endpoints, NEW n \in Numbers, NEW h \in Calls, AskReattach(e, n, h)
                PROVE  CallType'
  BY <1>AskReattach, AskReattachEffect DEF OnlyCall, SameCall, Ended
<1>QED. QED
  BY <1>Scan, <1>Surface, <1>Expire, <1>UpdateEndpoint, <1>CloseWizard, <1>Snapshot,
     <1>CreateRow, <1>Mint, <1>StoreQr, <1>StoreFailed, <1>PollRead, <1>PollList,
     <1>PollTaken, <1>PollLink, <1>PollExpired, <1>PollAnswer, <1>UnlinkRead, <1>UnlinkForget,
     <1>UnlinkClear, <1>ReattachList, <1>ReattachWrite, <1>DeleteTx, <1>Begin, <1>Tick,
     <1>CancelProvision, <1>AskUnlink, <1>AskDelete, <1>AskReattach DEF Next, HandlerNext,
     StartNext, PollNext, OperatorNext

\* The history of holders stays one.
LEMMA EarlyTypeStep ==
  Types /\ DevicesOK /\ CallsOK /\ WizardsOK /\ Next => EarlyType'
<1> SUFFICES ASSUME Types /\ DevicesOK /\ CallsOK /\ WizardsOK, Next PROVE EarlyType'
  OBVIOUS
<1>1. ASSUME UNCHANGED early PROVE EarlyType'
  BY <1>1 DEF EarlyType, Types
<1>Scan. ASSUME NEW e \in Endpoints, NEW n \in Numbers, Scan(e, n) PROVE EarlyType'
  BY <1>1, <1>Scan DEF Scan
<1>Surface. ASSUME NEW n \in Numbers, Surface(n) PROVE EarlyType'
  BY <1>1, <1>Surface DEF Surface
<1>Expire. ASSUME NEW e \in Endpoints, Expire(e) PROVE EarlyType'
  BY <1>1, <1>Expire DEF Expire
<1>UpdateEndpoint. ASSUME NEW e \in Endpoints, UpdateEndpoint(e) PROVE EarlyType'
  BY <1>1, <1>UpdateEndpoint DEF UpdateEndpoint, Op
<1>CloseWizard. ASSUME NEW s \in Sessions, CloseWizard(s) PROVE EarlyType'
  BY <1>1, <1>CloseWizard DEF CloseWizard, Op
<1>Snapshot. ASSUME NEW h \in Calls, Snapshot(h) PROVE EarlyType'
  BY <1>1, <1>Snapshot DEF Snapshot, Fault
<1>CreateRow. ASSUME NEW h \in Calls, CreateRow(h) PROVE EarlyType'
  <2>1. call[h].list \subseteq Numbers
    BY DEF Types, CallType, CallRecords
  <2>2. PICK e \in Endpoints, asked \in MaybeNumber :
          early' = [early EXCEPT ![e] = {p \in (Endpoints \ {e}) \X call[h].list :
                                           row[p[1]].state = "linked" /\ row[p[1]].ext = p[2]}]
    BY <1>CreateRow, CreateRowEffect
  <2>3. QED
    BY <2>1, <2>2 DEF Types, EarlyType
<1>Mint. ASSUME NEW h \in Calls, Mint(h) PROVE EarlyType'
  BY <1>1, <1>Mint DEF Mint, Fault, Goto
<1>StoreQr. ASSUME NEW h \in Calls, StoreQr(h) PROVE EarlyType'
  BY <1>1, <1>StoreQr DEF StoreQr, End, Reply
<1>StoreFailed. ASSUME NEW h \in Calls, StoreFailed(h) PROVE EarlyType'
  BY <1>1, <1>StoreFailed DEF StoreFailed, End, Reply
<1>PollRead. ASSUME NEW h \in Calls, PollRead(h) PROVE EarlyType'
  BY <1>1, <1>PollRead DEF PollRead, End
<1>PollList. ASSUME NEW h \in Calls, PollList(h) PROVE EarlyType'
  BY <1>1, <1>PollList DEF PollList, End, Fault
<1>PollTaken. ASSUME NEW h \in Calls, PollTaken(h) PROVE EarlyType'
  BY <1>1, <1>PollTaken DEF PollTaken
<1>PollLink. ASSUME NEW h \in Calls, PollLink(h) PROVE EarlyType'
  BY <1>PollLink, PollLinkEffect DEF Types, EarlyType
<1>PollExpired. ASSUME NEW h \in Calls, PollExpired(h) PROVE EarlyType'
  BY <1>1, <1>PollExpired DEF PollExpired, End, ReplyToPoll, Reply
<1>PollAnswer. ASSUME NEW h \in Calls, PollAnswer(h) PROVE EarlyType'
  BY <1>1, <1>PollAnswer DEF PollAnswer, End, ReplyToPoll, Reply
<1>UnlinkRead. ASSUME NEW h \in Calls, UnlinkRead(h) PROVE EarlyType'
  BY <1>1, <1>UnlinkRead DEF UnlinkRead, End, Reply
<1>UnlinkForget. ASSUME NEW h \in Calls, UnlinkForget(h) PROVE EarlyType'
  BY <1>1, <1>UnlinkForget DEF UnlinkForget, Fault, Goto, End, Reply
<1>UnlinkClear. ASSUME NEW h \in Calls, UnlinkClear(h) PROVE EarlyType'
  BY <1>UnlinkClear, UnlinkClearEffect DEF Types, EarlyType
<1>ReattachList. ASSUME NEW h \in Calls, ReattachList(h) PROVE EarlyType'
  BY <1>1, <1>ReattachList DEF ReattachList, Goto, End, Fault
<1>ReattachWrite. ASSUME NEW h \in Calls, ReattachWrite(h) PROVE EarlyType'
  BY <1>ReattachWrite, ReattachWriteEffect DEF Types, EarlyType
<1>DeleteTx. ASSUME NEW h \in Calls, DeleteTx(h) PROVE EarlyType'
  BY <1>DeleteTx, DeleteTxEffect DEF Types, EarlyType
<1>Begin. ASSUME NEW s \in Sessions, NEW h \in Calls, Begin(s, h) PROVE EarlyType'
  BY <1>1, <1>Begin DEF Begin, Start
<1>Tick. ASSUME NEW s \in Sessions, NEW h \in Calls, Tick(s, h) PROVE EarlyType'
  BY <1>1, <1>Tick DEF Tick, Start
<1>CancelProvision. ASSUME NEW s \in Sessions, NEW h \in Calls, CancelProvision(s, h)
                    PROVE  EarlyType'
  BY <1>1, <1>CancelProvision DEF CancelProvision, Op, Start
<1>AskUnlink. ASSUME NEW e \in Endpoints, NEW h \in Calls, AskUnlink(e, h) PROVE EarlyType'
  BY <1>1, <1>AskUnlink DEF AskUnlink, Op, Start
<1>AskDelete. ASSUME NEW e \in Endpoints, NEW h \in Calls, AskDelete(e, h) PROVE EarlyType'
  BY <1>1, <1>AskDelete DEF AskDelete, Op, Start
<1>AskReattach. ASSUME NEW e \in Endpoints, NEW n \in Numbers, NEW h \in Calls, AskReattach(e, n, h)
                PROVE  EarlyType'
  BY <1>1, <1>AskReattach DEF AskReattach, Op
<1>QED. QED
  BY <1>Scan, <1>Surface, <1>Expire, <1>UpdateEndpoint, <1>CloseWizard, <1>Snapshot,
     <1>CreateRow, <1>Mint, <1>StoreQr, <1>StoreFailed, <1>PollRead, <1>PollList,
     <1>PollTaken, <1>PollLink, <1>PollExpired, <1>PollAnswer, <1>UnlinkRead, <1>UnlinkForget,
     <1>UnlinkClear, <1>ReattachList, <1>ReattachWrite, <1>DeleteTx, <1>Begin, <1>Tick,
     <1>CancelProvision, <1>AskUnlink, <1>AskDelete, <1>AskReattach DEF Next, HandlerNext,
     StartNext, PollNext, OperatorNext

\* The bounds are kept.
LEMMA UsedTypeStep ==
  Types /\ DevicesOK /\ CallsOK /\ WizardsOK /\ Next => UsedType'
<1> SUFFICES ASSUME Types /\ DevicesOK /\ CallsOK /\ WizardsOK, Next PROVE UsedType'
  OBVIOUS
<1>1. ASSUME UNCHANGED used PROVE UsedType'
  BY <1>1 DEF UsedType, Types
<1>Scan. ASSUME NEW e \in Endpoints, NEW n \in Numbers, Scan(e, n) PROVE UsedType'
  BY <1>1, <1>Scan DEF Scan
<1>Surface. ASSUME NEW n \in Numbers, Surface(n) PROVE UsedType'
  BY <1>1, <1>Surface DEF Surface
<1>Expire. ASSUME NEW e \in Endpoints, Expire(e) PROVE UsedType'
  BY <1>1, <1>Expire DEF Expire
<1>UpdateEndpoint. ASSUME NEW e \in Endpoints, UpdateEndpoint(e) PROVE UsedType'
  BY <1>UpdateEndpoint, BoundsAssumption DEF UpdateEndpoint, Op, Types, UsedType
<1>CloseWizard. ASSUME NEW s \in Sessions, CloseWizard(s) PROVE UsedType'
  BY <1>CloseWizard, BoundsAssumption DEF CloseWizard, Op, Types, UsedType
<1>Snapshot. ASSUME NEW h \in Calls, Snapshot(h) PROVE UsedType'
  BY <1>Snapshot, BoundsAssumption DEF Snapshot, Fault, Types, UsedType
<1>CreateRow. ASSUME NEW h \in Calls, CreateRow(h) PROVE UsedType'
  BY <1>1, <1>CreateRow DEF CreateRow
<1>Mint. ASSUME NEW h \in Calls, Mint(h) PROVE UsedType'
  BY <1>Mint, BoundsAssumption DEF Mint, Fault, Goto, Types, UsedType
<1>StoreQr. ASSUME NEW h \in Calls, StoreQr(h) PROVE UsedType'
  BY <1>1, <1>StoreQr DEF StoreQr, End, Reply
<1>StoreFailed. ASSUME NEW h \in Calls, StoreFailed(h) PROVE UsedType'
  BY <1>1, <1>StoreFailed DEF StoreFailed, End, Reply
<1>PollRead. ASSUME NEW h \in Calls, PollRead(h) PROVE UsedType'
  BY <1>1, <1>PollRead DEF PollRead, End
<1>PollList. ASSUME NEW h \in Calls, PollList(h) PROVE UsedType'
  <2>1. UNCHANGED used \/ Fault("listFails")
    BY <1>PollList DEF PollList
  <2>2. QED
    BY <2>1, BoundsAssumption DEF Fault, Types, UsedType
<1>PollTaken. ASSUME NEW h \in Calls, PollTaken(h) PROVE UsedType'
  BY <1>1, <1>PollTaken DEF PollTaken
<1>PollLink. ASSUME NEW h \in Calls, PollLink(h) PROVE UsedType'
  BY <1>1, <1>PollLink DEF PollLink, SetRow, End, ReplyToPoll, Reply
<1>PollExpired. ASSUME NEW h \in Calls, PollExpired(h) PROVE UsedType'
  BY <1>1, <1>PollExpired DEF PollExpired, End, ReplyToPoll, Reply
<1>PollAnswer. ASSUME NEW h \in Calls, PollAnswer(h) PROVE UsedType'
  BY <1>1, <1>PollAnswer DEF PollAnswer, End, ReplyToPoll, Reply
<1>UnlinkRead. ASSUME NEW h \in Calls, UnlinkRead(h) PROVE UsedType'
  BY <1>1, <1>UnlinkRead DEF UnlinkRead, End, Reply
<1>UnlinkForget. ASSUME NEW h \in Calls, UnlinkForget(h) PROVE UsedType'
  BY <1>UnlinkForget, BoundsAssumption DEF UnlinkForget, Fault, Goto, End, Reply, Types,
     UsedType
<1>UnlinkClear. ASSUME NEW h \in Calls, UnlinkClear(h) PROVE UsedType'
  BY <1>UnlinkClear, BoundsAssumption DEF UnlinkClear, SetRow, Fault, End, Reply, Types,
     UsedType
<1>ReattachList. ASSUME NEW h \in Calls, ReattachList(h) PROVE UsedType'
  BY <1>ReattachList, BoundsAssumption DEF ReattachList, Goto, End, Fault, Types, UsedType
<1>ReattachWrite. ASSUME NEW h \in Calls, ReattachWrite(h) PROVE UsedType'
  BY <1>1, <1>ReattachWrite DEF ReattachWrite, End
<1>DeleteTx. ASSUME NEW h \in Calls, DeleteTx(h) PROVE UsedType'
  BY <1>1, <1>DeleteTx DEF DeleteTx, SetRow, End
<1>Begin. ASSUME NEW s \in Sessions, NEW h \in Calls, Begin(s, h) PROVE UsedType'
  BY <1>1, <1>Begin DEF Begin, Start
<1>Tick. ASSUME NEW s \in Sessions, NEW h \in Calls, Tick(s, h) PROVE UsedType'
  BY <1>1, <1>Tick DEF Tick, Start
<1>CancelProvision. ASSUME NEW s \in Sessions, NEW h \in Calls, CancelProvision(s, h)
                    PROVE  UsedType'
  BY <1>CancelProvision, BoundsAssumption DEF CancelProvision, Op, Start, Types, UsedType
<1>AskUnlink. ASSUME NEW e \in Endpoints, NEW h \in Calls, AskUnlink(e, h) PROVE UsedType'
  BY <1>AskUnlink, BoundsAssumption DEF AskUnlink, Op, Start, Types, UsedType
<1>AskDelete. ASSUME NEW e \in Endpoints, NEW h \in Calls, AskDelete(e, h) PROVE UsedType'
  BY <1>AskDelete, BoundsAssumption DEF AskDelete, Op, Start, Types, UsedType
<1>AskReattach. ASSUME NEW e \in Endpoints, NEW n \in Numbers, NEW h \in Calls, AskReattach(e, n, h)
                PROVE  UsedType'
  BY <1>AskReattach, BoundsAssumption DEF AskReattach, Op, Types, UsedType
<1>QED. QED
  BY <1>Scan, <1>Surface, <1>Expire, <1>UpdateEndpoint, <1>CloseWizard, <1>Snapshot,
     <1>CreateRow, <1>Mint, <1>StoreQr, <1>StoreFailed, <1>PollRead, <1>PollList,
     <1>PollTaken, <1>PollLink, <1>PollExpired, <1>PollAnswer, <1>UnlinkRead, <1>UnlinkForget,
     <1>UnlinkClear, <1>ReattachList, <1>ReattachWrite, <1>DeleteTx, <1>Begin, <1>Tick,
     <1>CancelProvision, <1>AskUnlink, <1>AskDelete, <1>AskReattach DEF Next, HandlerNext,
     StartNext, PollNext, OperatorNext

-----------------------------------------------------------------------------
(* The invariant.                                                            *)

\* A row that was created is never uncreated.
NoReturn == \A e \in Endpoints : row[e].state # "absent" => row'[e].state # "absent"

\* Phones stay paired in the history, and the adapter stays.
ScannedGrows == scanned \subseteq scanned' /\ UNCHANGED channel

\* What a wizard was told is on record with the row it creates, and stays.
ToldStays == \A e \in Endpoints : row[e].state # "absent" => told'[e] = told[e]

\* Only the creation of a row writes it.
LEMMA ToldStep ==
  ASSUME Types, DevicesOK, CallsOK, Next PROVE ToldType' /\ ToldStays
<1>1. ASSUME UNCHANGED told PROVE ToldType' /\ ToldStays
  BY <1>1 DEF Types, ToldType, ToldStays
<1>2. ASSUME NEW h \in Calls, CreateRow(h) PROVE ToldType' /\ ToldStays
  <2>1. PICK e \in Endpoints, asked \in MaybeNumber :
          row[e].state = "absent" /\ told' = [told EXCEPT ![e] = asked]
    BY <1>2, CreateRowEffect
  <2>2. QED
    BY <2>1 DEF Types, ToldType, ToldStays
<1>3. ASSUME NEW h \in Calls, Snapshot(h) \/ Mint(h) \/ StoreQr(h) \/ StoreFailed(h) PROVE UNCHANGED told
  BY <1>3 DEF Snapshot, Mint, StoreQr, StoreFailed, others
<1>4. ASSUME NEW h \in Calls, PollNext(h) PROVE UNCHANGED told
  BY <1>4 DEF PollNext, PollRead, PollList, PollTaken, PollLink, PollExpired, PollAnswer, others
<1>5. ASSUME NEW h \in Calls, OperatorNext(h) PROVE UNCHANGED told
  BY <1>5 DEF OperatorNext, UnlinkRead, UnlinkForget, UnlinkClear, ReattachList, ReattachWrite, DeleteTx, others
<1>6. ASSUME NEW h \in Calls, NEW s \in Sessions, Begin(s, h) \/ Tick(s, h) \/ CancelProvision(s, h)
      PROVE  UNCHANGED told
  BY <1>6 DEF Begin, Tick, CancelProvision, others
<1>7. ASSUME NEW h \in Calls, NEW e \in Endpoints,
             AskUnlink(e, h) \/ AskDelete(e, h) \/ \E n \in Numbers : AskReattach(e, n, h)
      PROVE  UNCHANGED told
  BY <1>7 DEF AskUnlink, AskDelete, AskReattach, others
<1>8. ASSUME NEW e \in Endpoints, (\E n \in Numbers : Scan(e, n)) \/ Expire(e) \/ UpdateEndpoint(e)
      PROVE  UNCHANGED told
  BY <1>8 DEF Scan, Expire, UpdateEndpoint, others
<1>9. ASSUME (\E n \in Numbers : Surface(n)) \/ (\E s \in Sessions : CloseWizard(s)) PROVE UNCHANGED told
  BY <1>9 DEF Surface, CloseWizard, others
<1>10. QED
  BY <1>1, <1>2, <1>3, <1>4, <1>5, <1>6, <1>7, <1>8, <1>9 DEF Next, HandlerNext, StartNext

\* Rows stay.
LEMMA RowsStay ==
  Types /\ DevicesOK /\ CallsOK /\ WizardsOK /\ Next => NoReturn
<1> SUFFICES ASSUME Types /\ DevicesOK /\ CallsOK /\ WizardsOK, Next PROVE NoReturn
  OBVIOUS
<1>1. ASSUME UNCHANGED row PROVE NoReturn
  BY <1>1 DEF NoReturn
<1>Scan. ASSUME NEW e \in Endpoints, NEW n \in Numbers, Scan(e, n) PROVE NoReturn
  BY <1>1, <1>Scan DEF Scan
<1>Surface. ASSUME NEW n \in Numbers, Surface(n) PROVE NoReturn
  BY <1>1, <1>Surface DEF Surface
<1>Expire. ASSUME NEW e \in Endpoints, Expire(e) PROVE NoReturn
  BY <1>Expire, ExpireEffect, Constants, HoldingType DEF NoReturn, OnlyRow, Types, SidecarType
<1>UpdateEndpoint. ASSUME NEW e \in Endpoints, UpdateEndpoint(e) PROVE NoReturn
  BY <1>UpdateEndpoint, UpdateEndpointEffect, Constants, HoldingType DEF NoReturn, OnlyRow,
     Types, SidecarType
<1>CloseWizard. ASSUME NEW s \in Sessions, CloseWizard(s) PROVE NoReturn
  BY <1>1, <1>CloseWizard DEF CloseWizard, Op
<1>Snapshot. ASSUME NEW h \in Calls, Snapshot(h) PROVE NoReturn
  BY <1>1, <1>Snapshot DEF Snapshot, Fault
<1>CreateRow. ASSUME NEW h \in Calls, CreateRow(h) PROVE NoReturn
  BY <1>CreateRow, CreateRowEffect, Constants, HoldingType DEF NoReturn, OnlyRow, Types,
     SidecarType
<1>Mint. ASSUME NEW h \in Calls, Mint(h) PROVE NoReturn
  BY <1>1, <1>Mint DEF Mint, Fault, Goto
<1>StoreQr. ASSUME NEW h \in Calls, StoreQr(h) PROVE NoReturn
  BY <1>StoreQr, StoreQrEffect, Constants, HoldingType DEF NoReturn, OnlyRow, Types, SidecarType
<1>StoreFailed. ASSUME NEW h \in Calls, StoreFailed(h) PROVE NoReturn
  BY <1>StoreFailed, StoreFailedEffect, Constants, HoldingType DEF NoReturn, OnlyRow, Types,
     SidecarType
<1>PollRead. ASSUME NEW h \in Calls, PollRead(h) PROVE NoReturn
  BY <1>1, <1>PollRead DEF PollRead, End
<1>PollList. ASSUME NEW h \in Calls, PollList(h) PROVE NoReturn
  BY <1>1, <1>PollList DEF PollList, End, Fault
<1>PollTaken. ASSUME NEW h \in Calls, PollTaken(h) PROVE NoReturn
  BY <1>1, <1>PollTaken DEF PollTaken
<1>PollLink. ASSUME NEW h \in Calls, PollLink(h) PROVE NoReturn
  BY <1>PollLink, PollLinkEffect, Constants, HoldingType DEF NoReturn, OnlyRow, Types,
     SidecarType
<1>PollExpired. ASSUME NEW h \in Calls, PollExpired(h) PROVE NoReturn
  BY <1>PollExpired, PollExpiredEffect, Constants, HoldingType DEF NoReturn, OnlyRow, Types,
     SidecarType
<1>PollAnswer. ASSUME NEW h \in Calls, PollAnswer(h) PROVE NoReturn
  BY <1>1, <1>PollAnswer DEF PollAnswer, End, ReplyToPoll, Reply
<1>UnlinkRead. ASSUME NEW h \in Calls, UnlinkRead(h) PROVE NoReturn
  BY <1>1, <1>UnlinkRead DEF UnlinkRead, End, Reply
<1>UnlinkForget. ASSUME NEW h \in Calls, UnlinkForget(h) PROVE NoReturn
  BY <1>1, <1>UnlinkForget DEF UnlinkForget, Fault, Goto, End, Reply
<1>UnlinkClear. ASSUME NEW h \in Calls, UnlinkClear(h) PROVE NoReturn
  BY <1>UnlinkClear, UnlinkClearEffect, Constants, HoldingType DEF NoReturn, OnlyRow, Types,
     SidecarType
<1>ReattachList. ASSUME NEW h \in Calls, ReattachList(h) PROVE NoReturn
  BY <1>1, <1>ReattachList DEF ReattachList, Goto, End, Fault
<1>ReattachWrite. ASSUME NEW h \in Calls, ReattachWrite(h) PROVE NoReturn
  BY <1>ReattachWrite, ReattachWriteEffect, Constants, HoldingType DEF NoReturn, OnlyRow,
     Types, SidecarType
<1>DeleteTx. ASSUME NEW h \in Calls, DeleteTx(h) PROVE NoReturn
  BY <1>DeleteTx, DeleteTxEffect, Constants, HoldingType DEF NoReturn, OnlyRow, Types,
     SidecarType
<1>Begin. ASSUME NEW s \in Sessions, NEW h \in Calls, Begin(s, h) PROVE NoReturn
  BY <1>1, <1>Begin DEF Begin, Start
<1>Tick. ASSUME NEW s \in Sessions, NEW h \in Calls, Tick(s, h) PROVE NoReturn
  BY <1>1, <1>Tick DEF Tick, Start
<1>CancelProvision. ASSUME NEW s \in Sessions, NEW h \in Calls, CancelProvision(s, h)
                    PROVE  NoReturn
  BY <1>1, <1>CancelProvision DEF CancelProvision, Op, Start
<1>AskUnlink. ASSUME NEW e \in Endpoints, NEW h \in Calls, AskUnlink(e, h) PROVE NoReturn
  BY <1>1, <1>AskUnlink DEF AskUnlink, Op, Start
<1>AskDelete. ASSUME NEW e \in Endpoints, NEW h \in Calls, AskDelete(e, h) PROVE NoReturn
  BY <1>1, <1>AskDelete DEF AskDelete, Op, Start
<1>AskReattach. ASSUME NEW e \in Endpoints, NEW n \in Numbers, NEW h \in Calls, AskReattach(e, n, h)
                PROVE  NoReturn
  BY <1>1, <1>AskReattach DEF AskReattach, Op
<1>QED. QED
  BY <1>Scan, <1>Surface, <1>Expire, <1>UpdateEndpoint, <1>CloseWizard, <1>Snapshot,
     <1>CreateRow, <1>Mint, <1>StoreQr, <1>StoreFailed, <1>PollRead, <1>PollList,
     <1>PollTaken, <1>PollLink, <1>PollExpired, <1>PollAnswer, <1>UnlinkRead, <1>UnlinkForget,
     <1>UnlinkClear, <1>ReattachList, <1>ReattachWrite, <1>DeleteTx, <1>Begin, <1>Tick,
     <1>CancelProvision, <1>AskUnlink, <1>AskDelete, <1>AskReattach DEF Next, HandlerNext,
     StartNext, PollNext, OperatorNext

\* Histories grow.
LEMMA HistoryGrows ==
  Types /\ DevicesOK /\ CallsOK /\ WizardsOK /\ Next => ScannedGrows
<1> SUFFICES ASSUME Types /\ DevicesOK /\ CallsOK /\ WizardsOK, Next PROVE ScannedGrows
  OBVIOUS
<1>1. ASSUME UNCHANGED <<scanned, channel>> PROVE ScannedGrows
  BY <1>1 DEF ScannedGrows
<1>Scan. ASSUME NEW e \in Endpoints, NEW n \in Numbers, Scan(e, n) PROVE ScannedGrows
  BY <1>Scan DEF Scan, ScannedGrows
<1>Surface. ASSUME NEW n \in Numbers, Surface(n) PROVE ScannedGrows
  BY <1>1, <1>Surface DEF Surface, others
<1>Expire. ASSUME NEW e \in Endpoints, Expire(e) PROVE ScannedGrows
  BY <1>1, <1>Expire DEF Expire, others
<1>UpdateEndpoint. ASSUME NEW e \in Endpoints, UpdateEndpoint(e) PROVE ScannedGrows
  BY <1>1, <1>UpdateEndpoint DEF UpdateEndpoint, Op, others
<1>CloseWizard. ASSUME NEW s \in Sessions, CloseWizard(s) PROVE ScannedGrows
  BY <1>1, <1>CloseWizard DEF CloseWizard, Op, others
<1>Snapshot. ASSUME NEW h \in Calls, Snapshot(h) PROVE ScannedGrows
  BY <1>1, <1>Snapshot DEF Snapshot, Fault, others
<1>CreateRow. ASSUME NEW h \in Calls, CreateRow(h) PROVE ScannedGrows
  BY <1>1, <1>CreateRow DEF CreateRow
<1>Mint. ASSUME NEW h \in Calls, Mint(h) PROVE ScannedGrows
  BY <1>1, <1>Mint DEF Mint, Fault, Goto, others
<1>StoreQr. ASSUME NEW h \in Calls, StoreQr(h) PROVE ScannedGrows
  BY <1>1, <1>StoreQr DEF StoreQr, End, Reply, others
<1>StoreFailed. ASSUME NEW h \in Calls, StoreFailed(h) PROVE ScannedGrows
  BY <1>1, <1>StoreFailed DEF StoreFailed, End, Reply, others
<1>PollRead. ASSUME NEW h \in Calls, PollRead(h) PROVE ScannedGrows
  BY <1>1, <1>PollRead DEF PollRead, End, others
<1>PollList. ASSUME NEW h \in Calls, PollList(h) PROVE ScannedGrows
  BY <1>1, <1>PollList DEF PollList, End, Fault, others
<1>PollTaken. ASSUME NEW h \in Calls, PollTaken(h) PROVE ScannedGrows
  BY <1>1, <1>PollTaken DEF PollTaken, others
<1>PollLink. ASSUME NEW h \in Calls, PollLink(h) PROVE ScannedGrows
  BY <1>1, <1>PollLink DEF PollLink, SetRow, End, ReplyToPoll, Reply, others
<1>PollExpired. ASSUME NEW h \in Calls, PollExpired(h) PROVE ScannedGrows
  BY <1>1, <1>PollExpired DEF PollExpired, End, ReplyToPoll, Reply, others
<1>PollAnswer. ASSUME NEW h \in Calls, PollAnswer(h) PROVE ScannedGrows
  BY <1>1, <1>PollAnswer DEF PollAnswer, End, ReplyToPoll, Reply, others
<1>UnlinkRead. ASSUME NEW h \in Calls, UnlinkRead(h) PROVE ScannedGrows
  BY <1>1, <1>UnlinkRead DEF UnlinkRead, End, Reply, others
<1>UnlinkForget. ASSUME NEW h \in Calls, UnlinkForget(h) PROVE ScannedGrows
  BY <1>1, <1>UnlinkForget DEF UnlinkForget, Fault, Goto, End, Reply, others
<1>UnlinkClear. ASSUME NEW h \in Calls, UnlinkClear(h) PROVE ScannedGrows
  BY <1>1, <1>UnlinkClear DEF UnlinkClear, SetRow, Fault, End, Reply, others
<1>ReattachList. ASSUME NEW h \in Calls, ReattachList(h) PROVE ScannedGrows
  BY <1>1, <1>ReattachList DEF ReattachList, Goto, End, Fault, others
<1>ReattachWrite. ASSUME NEW h \in Calls, ReattachWrite(h) PROVE ScannedGrows
  BY <1>1, <1>ReattachWrite DEF ReattachWrite, End, others
<1>DeleteTx. ASSUME NEW h \in Calls, DeleteTx(h) PROVE ScannedGrows
  BY <1>1, <1>DeleteTx DEF DeleteTx, SetRow, End, others
<1>Begin. ASSUME NEW s \in Sessions, NEW h \in Calls, Begin(s, h) PROVE ScannedGrows
  BY <1>1, <1>Begin DEF Begin, Start, others
<1>Tick. ASSUME NEW s \in Sessions, NEW h \in Calls, Tick(s, h) PROVE ScannedGrows
  BY <1>1, <1>Tick DEF Tick, Start, others
<1>CancelProvision. ASSUME NEW s \in Sessions, NEW h \in Calls, CancelProvision(s, h)
                    PROVE  ScannedGrows
  BY <1>1, <1>CancelProvision DEF CancelProvision, Op, Start, others
<1>AskUnlink. ASSUME NEW e \in Endpoints, NEW h \in Calls, AskUnlink(e, h) PROVE ScannedGrows
  BY <1>1, <1>AskUnlink DEF AskUnlink, Op, Start, others
<1>AskDelete. ASSUME NEW e \in Endpoints, NEW h \in Calls, AskDelete(e, h) PROVE ScannedGrows
  BY <1>1, <1>AskDelete DEF AskDelete, Op, Start, others
<1>AskReattach. ASSUME NEW e \in Endpoints, NEW n \in Numbers, NEW h \in Calls, AskReattach(e, n, h)
                PROVE  ScannedGrows
  BY <1>1, <1>AskReattach DEF AskReattach, Op, others
<1>QED. QED
  BY <1>Scan, <1>Surface, <1>Expire, <1>UpdateEndpoint, <1>CloseWizard, <1>Snapshot,
     <1>CreateRow, <1>Mint, <1>StoreQr, <1>StoreFailed, <1>PollRead, <1>PollList,
     <1>PollTaken, <1>PollLink, <1>PollExpired, <1>PollAnswer, <1>UnlinkRead, <1>UnlinkForget,
     <1>UnlinkClear, <1>ReattachList, <1>ReattachWrite, <1>DeleteTx, <1>Begin, <1>Tick,
     <1>CancelProvision, <1>AskUnlink, <1>AskDelete, <1>AskReattach DEF Next, HandlerNext,
     StartNext, PollNext, OperatorNext

\* Only gwmd's wizards leave devices.
LEMMA DevicesStep ==
  Types /\ DevicesOK /\ CallsOK /\ WizardsOK /\ Next => DevicesOK'
<1> SUFFICES ASSUME Types /\ DevicesOK /\ CallsOK /\ WizardsOK, Next PROVE DevicesOK'
  OBVIOUS
<1>1. ASSUME UNCHANGED <<channel, pending>> PROVE DevicesOK'
  BY <1>1 DEF DevicesOK
<1>Scan. ASSUME NEW e \in Endpoints, NEW n \in Numbers, Scan(e, n) PROVE DevicesOK'
  BY <1>Scan DEF Scan, DevicesOK
<1>Surface. ASSUME NEW n \in Numbers, Surface(n) PROVE DevicesOK'
  BY <1>1, <1>Surface DEF Surface, others
<1>Expire. ASSUME NEW e \in Endpoints, Expire(e) PROVE DevicesOK'
  BY <1>1, <1>Expire DEF Expire, others
<1>UpdateEndpoint. ASSUME NEW e \in Endpoints, UpdateEndpoint(e) PROVE DevicesOK'
  BY <1>1, <1>UpdateEndpoint DEF UpdateEndpoint, Op, others
<1>CloseWizard. ASSUME NEW s \in Sessions, CloseWizard(s) PROVE DevicesOK'
  BY <1>1, <1>CloseWizard DEF CloseWizard, Op, others
<1>Snapshot. ASSUME NEW h \in Calls, Snapshot(h) PROVE DevicesOK'
  BY <1>1, <1>Snapshot DEF Snapshot, Fault, others
<1>CreateRow. ASSUME NEW h \in Calls, CreateRow(h) PROVE DevicesOK'
  BY <1>1, <1>CreateRow DEF CreateRow
<1>Mint. ASSUME NEW h \in Calls, Mint(h) PROVE DevicesOK'
  <2>1. UNCHANGED channel
    BY <1>Mint DEF Mint
  <2>2. QED
    BY <1>Mint, <2>1, MintStepEffect DEF DevicesOK
<1>StoreQr. ASSUME NEW h \in Calls, StoreQr(h) PROVE DevicesOK'
  BY <1>1, <1>StoreQr DEF StoreQr, End, Reply, others
<1>StoreFailed. ASSUME NEW h \in Calls, StoreFailed(h) PROVE DevicesOK'
  BY <1>1, <1>StoreFailed DEF StoreFailed, End, Reply, others
<1>PollRead. ASSUME NEW h \in Calls, PollRead(h) PROVE DevicesOK'
  BY <1>1, <1>PollRead DEF PollRead, End, others
<1>PollList. ASSUME NEW h \in Calls, PollList(h) PROVE DevicesOK'
  BY <1>1, <1>PollList DEF PollList, End, Fault, others
<1>PollTaken. ASSUME NEW h \in Calls, PollTaken(h) PROVE DevicesOK'
  BY <1>1, <1>PollTaken DEF PollTaken, others
<1>PollLink. ASSUME NEW h \in Calls, PollLink(h) PROVE DevicesOK'
  BY <1>1, <1>PollLink DEF PollLink, SetRow, End, ReplyToPoll, Reply, others
<1>PollExpired. ASSUME NEW h \in Calls, PollExpired(h) PROVE DevicesOK'
  BY <1>1, <1>PollExpired DEF PollExpired, End, ReplyToPoll, Reply, others
<1>PollAnswer. ASSUME NEW h \in Calls, PollAnswer(h) PROVE DevicesOK'
  BY <1>1, <1>PollAnswer DEF PollAnswer, End, ReplyToPoll, Reply, others
<1>UnlinkRead. ASSUME NEW h \in Calls, UnlinkRead(h) PROVE DevicesOK'
  BY <1>1, <1>UnlinkRead DEF UnlinkRead, End, Reply, others
<1>UnlinkForget. ASSUME NEW h \in Calls, UnlinkForget(h) PROVE DevicesOK'
  BY <1>1, <1>UnlinkForget DEF UnlinkForget, Fault, Goto, End, Reply, others
<1>UnlinkClear. ASSUME NEW h \in Calls, UnlinkClear(h) PROVE DevicesOK'
  BY <1>1, <1>UnlinkClear DEF UnlinkClear, SetRow, Fault, End, Reply, others
<1>ReattachList. ASSUME NEW h \in Calls, ReattachList(h) PROVE DevicesOK'
  BY <1>1, <1>ReattachList DEF ReattachList, Goto, End, Fault, others
<1>ReattachWrite. ASSUME NEW h \in Calls, ReattachWrite(h) PROVE DevicesOK'
  BY <1>1, <1>ReattachWrite DEF ReattachWrite, End, others
<1>DeleteTx. ASSUME NEW h \in Calls, DeleteTx(h) PROVE DevicesOK'
  BY <1>1, <1>DeleteTx DEF DeleteTx, SetRow, End, others
<1>Begin. ASSUME NEW s \in Sessions, NEW h \in Calls, Begin(s, h) PROVE DevicesOK'
  BY <1>1, <1>Begin DEF Begin, Start, others
<1>Tick. ASSUME NEW s \in Sessions, NEW h \in Calls, Tick(s, h) PROVE DevicesOK'
  BY <1>1, <1>Tick DEF Tick, Start, others
<1>CancelProvision. ASSUME NEW s \in Sessions, NEW h \in Calls, CancelProvision(s, h)
                    PROVE  DevicesOK'
  BY <1>1, <1>CancelProvision DEF CancelProvision, Op, Start, others
<1>AskUnlink. ASSUME NEW e \in Endpoints, NEW h \in Calls, AskUnlink(e, h) PROVE DevicesOK'
  BY <1>1, <1>AskUnlink DEF AskUnlink, Op, Start, others
<1>AskDelete. ASSUME NEW e \in Endpoints, NEW h \in Calls, AskDelete(e, h) PROVE DevicesOK'
  BY <1>1, <1>AskDelete DEF AskDelete, Op, Start, others
<1>AskReattach. ASSUME NEW e \in Endpoints, NEW n \in Numbers, NEW h \in Calls, AskReattach(e, n, h)
                PROVE  DevicesOK'
  BY <1>1, <1>AskReattach DEF AskReattach, Op, others
<1>QED. QED
  BY <1>Scan, <1>Surface, <1>Expire, <1>UpdateEndpoint, <1>CloseWizard, <1>Snapshot,
     <1>CreateRow, <1>Mint, <1>StoreQr, <1>StoreFailed, <1>PollRead, <1>PollList,
     <1>PollTaken, <1>PollLink, <1>PollExpired, <1>PollAnswer, <1>UnlinkRead, <1>UnlinkForget,
     <1>UnlinkClear, <1>ReattachList, <1>ReattachWrite, <1>DeleteTx, <1>Begin, <1>Tick,
     <1>CancelProvision, <1>AskUnlink, <1>AskDelete, <1>AskReattach DEF Next, HandlerNext,
     StartNext, PollNext, OperatorNext

\* A handler never works on a row that does not exist, and a number it is about to write
\* was paired.
LEMMA CallsStep ==
  Types /\ DevicesOK /\ CallsOK /\ WizardsOK /\ Next => CallsOK'
<1> SUFFICES ASSUME Types /\ DevicesOK /\ CallsOK /\ WizardsOK, Next PROVE CallsOK'
  OBVIOUS
<1>nr. NoReturn /\ ScannedGrows
  BY RowsStay, HistoryGrows
<1>sc. listed \subseteq scanned
  BY DEF Types, SidecarType
<1>1. ASSUME UNCHANGED <<call, row, scanned, channel>> PROVE CallsOK'
  BY <1>1 DEF CallsOK
<1>Scan. ASSUME NEW e \in Endpoints, NEW n \in Numbers, Scan(e, n) PROVE CallsOK'
  <2>1. UNCHANGED call
    BY <1>Scan DEF Scan
  <2>2. QED
    BY <2>1, <1>nr DEF CallsOK, NoReturn, ScannedGrows
<1>Surface. ASSUME NEW n \in Numbers, Surface(n) PROVE CallsOK'
  BY <1>1, <1>Surface DEF Surface, others
<1>Expire. ASSUME NEW e \in Endpoints, Expire(e) PROVE CallsOK'
  <2>1. UNCHANGED call
    BY <1>Expire DEF Expire
  <2>2. QED
    BY <2>1, <1>nr DEF CallsOK, NoReturn, ScannedGrows
<1>UpdateEndpoint. ASSUME NEW e \in Endpoints, UpdateEndpoint(e) PROVE CallsOK'
  <2>1. UNCHANGED call
    BY <1>UpdateEndpoint DEF UpdateEndpoint
  <2>2. QED
    BY <2>1, <1>nr DEF CallsOK, NoReturn, ScannedGrows
<1>CloseWizard. ASSUME NEW s \in Sessions, CloseWizard(s) PROVE CallsOK'
  BY <1>CloseWizard, CloseWizardEffect, <1>nr, <1>sc, Constants DEF CallsOK, OnlyCall,
     SameCall, Ended, NoReturn, ScannedGrows
<1>Snapshot. ASSUME NEW h \in Calls, Snapshot(h) PROVE CallsOK'
  BY <1>Snapshot, SnapshotEffect, <1>nr, <1>sc, Constants DEF CallsOK, OnlyCall, SameCall,
     Ended, NoReturn, ScannedGrows
<1>CreateRow. ASSUME NEW h \in Calls, CreateRow(h) PROVE CallsOK'
  BY <1>CreateRow, CreateRowEffect, <1>nr, <1>sc, Constants DEF CallsOK, OnlyCall, SameCall,
     Ended, NoReturn, ScannedGrows
<1>Mint. ASSUME NEW h \in Calls, Mint(h) PROVE CallsOK'
  BY <1>Mint, MintStepEffect, <1>nr, <1>sc, Constants DEF CallsOK, OnlyCall, SameCall, Ended,
     NoReturn, ScannedGrows
<1>StoreQr. ASSUME NEW h \in Calls, StoreQr(h) PROVE CallsOK'
  BY <1>StoreQr, StoreQrEffect, <1>nr, <1>sc, Constants DEF CallsOK, OnlyCall, SameCall,
     Ended, NoReturn, ScannedGrows
<1>StoreFailed. ASSUME NEW h \in Calls, StoreFailed(h) PROVE CallsOK'
  BY <1>StoreFailed, StoreFailedEffect, <1>nr, <1>sc, Constants DEF CallsOK, OnlyCall,
     SameCall, Ended, NoReturn, ScannedGrows
<1>PollRead. ASSUME NEW h \in Calls, PollRead(h) PROVE CallsOK'
  BY <1>PollRead, PollReadEffect, <1>nr, <1>sc, Constants DEF CallsOK, OnlyCall, SameCall,
     Ended, NoReturn, ScannedGrows
<1>PollList. ASSUME NEW h \in Calls, PollList(h) PROVE CallsOK'
  BY <1>PollList, PollListEffect, <1>nr, <1>sc, Constants DEF CallsOK, OnlyCall, SameCall,
     Ended, NoReturn, ScannedGrows
<1>PollTaken. ASSUME NEW h \in Calls, PollTaken(h) PROVE CallsOK'
  BY <1>PollTaken, PollTakenEffect, <1>nr, <1>sc, Constants DEF CallsOK, OnlyCall, SameCall,
     Ended, NoReturn, ScannedGrows
<1>PollLink. ASSUME NEW h \in Calls, PollLink(h) PROVE CallsOK'
  BY <1>PollLink, PollLinkEffect, <1>nr, <1>sc, Constants DEF CallsOK, OnlyCall, SameCall,
     Ended, NoReturn, ScannedGrows
<1>PollExpired. ASSUME NEW h \in Calls, PollExpired(h) PROVE CallsOK'
  BY <1>PollExpired, PollExpiredEffect, <1>nr, <1>sc, Constants DEF CallsOK, OnlyCall,
     SameCall, Ended, NoReturn, ScannedGrows
<1>PollAnswer. ASSUME NEW h \in Calls, PollAnswer(h) PROVE CallsOK'
  BY <1>PollAnswer, PollAnswerEffect, <1>nr, <1>sc, Constants DEF CallsOK, OnlyCall, SameCall,
     Ended, NoReturn, ScannedGrows
<1>UnlinkRead. ASSUME NEW h \in Calls, UnlinkRead(h) PROVE CallsOK'
  BY <1>UnlinkRead, UnlinkReadEffect, <1>nr, <1>sc, Constants DEF CallsOK, OnlyCall, SameCall,
     Ended, NoReturn, ScannedGrows
<1>UnlinkForget. ASSUME NEW h \in Calls, UnlinkForget(h) PROVE CallsOK'
  BY <1>UnlinkForget, UnlinkForgetEffect, <1>nr, <1>sc, Constants DEF CallsOK, OnlyCall,
     SameCall, Ended, NoReturn, ScannedGrows
<1>UnlinkClear. ASSUME NEW h \in Calls, UnlinkClear(h) PROVE CallsOK'
  BY <1>UnlinkClear, UnlinkClearEffect, <1>nr, <1>sc, Constants DEF CallsOK, OnlyCall,
     SameCall, Ended, NoReturn, ScannedGrows
<1>ReattachList. ASSUME NEW h \in Calls, ReattachList(h) PROVE CallsOK'
  BY <1>ReattachList, ReattachListEffect, <1>nr, <1>sc, Constants DEF CallsOK, OnlyCall,
     SameCall, Ended, NoReturn, ScannedGrows
<1>ReattachWrite. ASSUME NEW h \in Calls, ReattachWrite(h) PROVE CallsOK'
  BY <1>ReattachWrite, ReattachWriteEffect, <1>nr, <1>sc, Constants DEF CallsOK, OnlyCall,
     SameCall, Ended, NoReturn, ScannedGrows
<1>DeleteTx. ASSUME NEW h \in Calls, DeleteTx(h) PROVE CallsOK'
  BY <1>DeleteTx, DeleteTxEffect, <1>nr, <1>sc, Constants DEF CallsOK, OnlyCall, SameCall,
     Ended, NoReturn, ScannedGrows
<1>Begin. ASSUME NEW s \in Sessions, NEW h \in Calls, Begin(s, h) PROVE CallsOK'
  BY <1>Begin, BeginEffect, <1>nr, <1>sc, Constants DEF CallsOK, OnlyCall, SameCall, Ended,
     NoReturn, ScannedGrows
<1>Tick. ASSUME NEW s \in Sessions, NEW h \in Calls, Tick(s, h) PROVE CallsOK'
  BY <1>Tick, TickEffect, <1>nr, <1>sc, Constants DEF CallsOK, OnlyCall, SameCall, Ended,
     NoReturn, ScannedGrows
<1>CancelProvision. ASSUME NEW s \in Sessions, NEW h \in Calls, CancelProvision(s, h)
                    PROVE  CallsOK'
  BY <1>CancelProvision, CancelProvisionEffect, <1>nr, <1>sc, Constants DEF CallsOK, OnlyCall,
     SameCall, Ended, NoReturn, ScannedGrows
<1>AskUnlink. ASSUME NEW e \in Endpoints, NEW h \in Calls, AskUnlink(e, h) PROVE CallsOK'
  BY <1>AskUnlink, AskUnlinkEffect, <1>nr, <1>sc, Constants DEF CallsOK, OnlyCall, SameCall,
     Ended, NoReturn, ScannedGrows
<1>AskDelete. ASSUME NEW e \in Endpoints, NEW h \in Calls, AskDelete(e, h) PROVE CallsOK'
  BY <1>AskDelete, AskDeleteEffect, <1>nr, <1>sc, Constants DEF CallsOK, OnlyCall, SameCall,
     Ended, NoReturn, ScannedGrows
<1>AskReattach. ASSUME NEW e \in Endpoints, NEW n \in Numbers, NEW h \in Calls, AskReattach(e, n, h)
                PROVE  CallsOK'
  BY <1>AskReattach, AskReattachEffect, <1>nr, <1>sc, Constants DEF CallsOK, OnlyCall,
     SameCall, Ended, NoReturn, ScannedGrows
<1>QED. QED
  BY <1>Scan, <1>Surface, <1>Expire, <1>UpdateEndpoint, <1>CloseWizard, <1>Snapshot,
     <1>CreateRow, <1>Mint, <1>StoreQr, <1>StoreFailed, <1>PollRead, <1>PollList,
     <1>PollTaken, <1>PollLink, <1>PollExpired, <1>PollAnswer, <1>UnlinkRead, <1>UnlinkForget,
     <1>UnlinkClear, <1>ReattachList, <1>ReattachWrite, <1>DeleteTx, <1>Begin, <1>Tick,
     <1>CancelProvision, <1>AskUnlink, <1>AskDelete, <1>AskReattach DEF Next, HandlerNext,
     StartNext, PollNext, OperatorNext

\* A wizard never shows a row that does not exist.
LEMMA WizardsStep ==
  Types /\ DevicesOK /\ CallsOK /\ WizardsOK /\ Next => WizardsOK'
<1> SUFFICES ASSUME Types /\ DevicesOK /\ CallsOK /\ WizardsOK, Next PROVE WizardsOK'
  OBVIOUS
<1>nr. NoReturn /\ ScannedGrows
  BY RowsStay, HistoryGrows
<1>1. ASSUME UNCHANGED <<ui, row>> PROVE WizardsOK'
  BY <1>1 DEF WizardsOK
<1>Scan. ASSUME NEW e \in Endpoints, NEW n \in Numbers, Scan(e, n) PROVE WizardsOK'
  BY <1>1, <1>Scan DEF Scan
<1>Surface. ASSUME NEW n \in Numbers, Surface(n) PROVE WizardsOK'
  BY <1>1, <1>Surface DEF Surface
<1>Expire. ASSUME NEW e \in Endpoints, Expire(e) PROVE WizardsOK'
  <2>1. UNCHANGED ui
    BY <1>Expire DEF Expire
  <2>2. QED
    BY <2>1, <1>nr DEF WizardsOK, NoReturn
<1>UpdateEndpoint. ASSUME NEW e \in Endpoints, UpdateEndpoint(e) PROVE WizardsOK'
  <2>1. UNCHANGED ui
    BY <1>UpdateEndpoint DEF UpdateEndpoint
  <2>2. QED
    BY <2>1, <1>nr DEF WizardsOK, NoReturn
<1>CloseWizard. ASSUME NEW s \in Sessions, CloseWizard(s) PROVE WizardsOK'
  BY <1>CloseWizard, <1>nr, Constants DEF CloseWizard, WizardsOK, NoReturn, IdleUi, Types,
     UiType
<1>Snapshot. ASSUME NEW h \in Calls, Snapshot(h) PROVE WizardsOK'
  BY <1>1, <1>Snapshot DEF Snapshot, Fault
<1>CreateRow. ASSUME NEW h \in Calls, CreateRow(h) PROVE WizardsOK'
  <2>1. UNCHANGED ui
    BY <1>CreateRow DEF CreateRow
  <2>2. QED
    BY <2>1, <1>nr DEF WizardsOK, NoReturn
<1>Mint. ASSUME NEW h \in Calls, Mint(h) PROVE WizardsOK'
  BY <1>1, <1>Mint DEF Mint, Fault, Goto
<1>StoreQr. ASSUME NEW h \in Calls, StoreQr(h) PROVE WizardsOK'
  <2>1. call[h].e \in Endpoints => row'[call[h].e].state # "absent"
    BY <1>nr DEF CallsOK, NoReturn
  <2>2. \A s \in Sessions : ui'[s] = ui[s] \/ ui'[s].e \in {call[h].e, None}
    BY <1>StoreQr DEF StoreQr, ReplyToPoll, Reply, Failed, IdleUi
  <2>3. QED
    BY <2>1, <2>2, <1>nr, Constants DEF WizardsOK, NoReturn
<1>StoreFailed. ASSUME NEW h \in Calls, StoreFailed(h) PROVE WizardsOK'
  <2>1. call[h].e \in Endpoints => row'[call[h].e].state # "absent"
    BY <1>nr DEF CallsOK, NoReturn
  <2>2. \A s \in Sessions : ui'[s] = ui[s] \/ ui'[s].e \in {call[h].e, None}
    BY <1>StoreFailed DEF StoreFailed, ReplyToPoll, Reply, Failed, IdleUi
  <2>3. QED
    BY <2>1, <2>2, <1>nr, Constants DEF WizardsOK, NoReturn
<1>PollRead. ASSUME NEW h \in Calls, PollRead(h) PROVE WizardsOK'
  BY <1>1, <1>PollRead DEF PollRead, End
<1>PollList. ASSUME NEW h \in Calls, PollList(h) PROVE WizardsOK'
  BY <1>1, <1>PollList DEF PollList, End, Fault
<1>PollTaken. ASSUME NEW h \in Calls, PollTaken(h) PROVE WizardsOK'
  BY <1>1, <1>PollTaken DEF PollTaken
<1>PollLink. ASSUME NEW h \in Calls, PollLink(h) PROVE WizardsOK'
  <2>1. call[h].e \in Endpoints => row'[call[h].e].state # "absent"
    BY <1>nr DEF CallsOK, NoReturn
  <2>2. \A s \in Sessions : ui'[s] = ui[s] \/ ui'[s].e \in {call[h].e, None}
    BY <1>PollLink DEF PollLink, ReplyToPoll, Reply, Failed, IdleUi
  <2>3. QED
    BY <2>1, <2>2, <1>nr, Constants DEF WizardsOK, NoReturn
<1>PollExpired. ASSUME NEW h \in Calls, PollExpired(h) PROVE WizardsOK'
  <2>1. call[h].e \in Endpoints => row'[call[h].e].state # "absent"
    BY <1>nr DEF CallsOK, NoReturn
  <2>2. \A s \in Sessions : ui'[s] = ui[s] \/ ui'[s].e \in {call[h].e, None}
    BY <1>PollExpired DEF PollExpired, ReplyToPoll, Reply, Failed, IdleUi
  <2>3. QED
    BY <2>1, <2>2, <1>nr, Constants DEF WizardsOK, NoReturn
<1>PollAnswer. ASSUME NEW h \in Calls, PollAnswer(h) PROVE WizardsOK'
  <2>1. call[h].e \in Endpoints => row'[call[h].e].state # "absent"
    BY <1>nr DEF CallsOK, NoReturn
  <2>2. \A s \in Sessions : ui'[s] = ui[s] \/ ui'[s].e \in {call[h].e, None}
    BY <1>PollAnswer DEF PollAnswer, ReplyToPoll, Reply, Failed, IdleUi
  <2>3. QED
    BY <2>1, <2>2, <1>nr, Constants DEF WizardsOK, NoReturn
<1>UnlinkRead. ASSUME NEW h \in Calls, UnlinkRead(h) PROVE WizardsOK'
  <2>1. call[h].e \in Endpoints => row'[call[h].e].state # "absent"
    BY <1>nr DEF CallsOK, NoReturn
  <2>2. \A s \in Sessions : ui'[s] = ui[s] \/ ui'[s].e \in {call[h].e, None}
    BY <1>UnlinkRead DEF UnlinkRead, ReplyToPoll, Reply, Failed, IdleUi
  <2>3. QED
    BY <2>1, <2>2, <1>nr, Constants DEF WizardsOK, NoReturn
<1>UnlinkForget. ASSUME NEW h \in Calls, UnlinkForget(h) PROVE WizardsOK'
  <2>1. call[h].e \in Endpoints => row'[call[h].e].state # "absent"
    BY <1>nr DEF CallsOK, NoReturn
  <2>2. \A s \in Sessions : ui'[s] = ui[s] \/ ui'[s].e \in {call[h].e, None}
    BY <1>UnlinkForget DEF UnlinkForget, ReplyToPoll, Reply, Failed, IdleUi
  <2>3. QED
    BY <2>1, <2>2, <1>nr, Constants DEF WizardsOK, NoReturn
<1>UnlinkClear. ASSUME NEW h \in Calls, UnlinkClear(h) PROVE WizardsOK'
  <2>1. call[h].e \in Endpoints => row'[call[h].e].state # "absent"
    BY <1>nr DEF CallsOK, NoReturn
  <2>2. \A s \in Sessions : ui'[s] = ui[s] \/ ui'[s].e \in {call[h].e, None}
    BY <1>UnlinkClear DEF UnlinkClear, ReplyToPoll, Reply, Failed, IdleUi
  <2>3. QED
    BY <2>1, <2>2, <1>nr, Constants DEF WizardsOK, NoReturn
<1>ReattachList. ASSUME NEW h \in Calls, ReattachList(h) PROVE WizardsOK'
  BY <1>1, <1>ReattachList DEF ReattachList, Goto, End, Fault
<1>ReattachWrite. ASSUME NEW h \in Calls, ReattachWrite(h) PROVE WizardsOK'
  <2>1. UNCHANGED ui
    BY <1>ReattachWrite DEF ReattachWrite
  <2>2. QED
    BY <2>1, <1>nr DEF WizardsOK, NoReturn
<1>DeleteTx. ASSUME NEW h \in Calls, DeleteTx(h) PROVE WizardsOK'
  <2>1. UNCHANGED ui
    BY <1>DeleteTx DEF DeleteTx
  <2>2. QED
    BY <2>1, <1>nr DEF WizardsOK, NoReturn
<1>Begin. ASSUME NEW s \in Sessions, NEW h \in Calls, Begin(s, h) PROVE WizardsOK'
  BY <1>Begin, <1>nr, Constants DEF Begin, WizardsOK, NoReturn, IdleUi, Types, UiType
<1>Tick. ASSUME NEW s \in Sessions, NEW h \in Calls, Tick(s, h) PROVE WizardsOK'
  BY <1>1, <1>Tick DEF Tick, Start
<1>CancelProvision. ASSUME NEW s \in Sessions, NEW h \in Calls, CancelProvision(s, h)
                    PROVE  WizardsOK'
  BY <1>1, <1>CancelProvision DEF CancelProvision, Op, Start
<1>AskUnlink. ASSUME NEW e \in Endpoints, NEW h \in Calls, AskUnlink(e, h) PROVE WizardsOK'
  BY <1>1, <1>AskUnlink DEF AskUnlink, Op, Start
<1>AskDelete. ASSUME NEW e \in Endpoints, NEW h \in Calls, AskDelete(e, h) PROVE WizardsOK'
  BY <1>1, <1>AskDelete DEF AskDelete, Op, Start
<1>AskReattach. ASSUME NEW e \in Endpoints, NEW n \in Numbers, NEW h \in Calls, AskReattach(e, n, h)
                PROVE  WizardsOK'
  BY <1>1, <1>AskReattach DEF AskReattach, Op
<1>QED. QED
  BY <1>Scan, <1>Surface, <1>Expire, <1>UpdateEndpoint, <1>CloseWizard, <1>Snapshot,
     <1>CreateRow, <1>Mint, <1>StoreQr, <1>StoreFailed, <1>PollRead, <1>PollList,
     <1>PollTaken, <1>PollLink, <1>PollExpired, <1>PollAnswer, <1>UnlinkRead, <1>UnlinkForget,
     <1>UnlinkClear, <1>ReattachList, <1>ReattachWrite, <1>DeleteTx, <1>Begin, <1>Tick,
     <1>CancelProvision, <1>AskUnlink, <1>AskDelete, <1>AskReattach DEF Next, HandlerNext,
     StartNext, PollNext, OperatorNext

\* A row is linked by a poll or an operator, to a number that was paired.
LEMMA LinkedStep ==
  Types /\ DevicesOK /\ CallsOK /\ WizardsOK /\ LinkedWasScanned /\ Next => LinkedWasScanned'
<1> SUFFICES ASSUME Types /\ DevicesOK /\ CallsOK /\ WizardsOK /\ LinkedWasScanned, Next
             PROVE  LinkedWasScanned'
  OBVIOUS
<1>sc. ScannedGrows
  BY HistoryGrows
<1>1. ASSUME UNCHANGED <<row, scanned>> PROVE LinkedWasScanned'
  BY <1>1 DEF LinkedWasScanned
<1>Scan. ASSUME NEW e \in Endpoints, NEW n \in Numbers, Scan(e, n) PROVE LinkedWasScanned'
  BY <1>Scan DEF Scan, LinkedWasScanned
<1>Surface. ASSUME NEW n \in Numbers, Surface(n) PROVE LinkedWasScanned'
  BY <1>1, <1>Surface DEF Surface, others
<1>Expire. ASSUME NEW e \in Endpoints, Expire(e) PROVE LinkedWasScanned'
  BY <1>Expire, ExpireEffect, <1>sc, Constants, HoldingType DEF LinkedWasScanned, OnlyRow,
     Exists, ScannedGrows, Types, SidecarType
<1>UpdateEndpoint. ASSUME NEW e \in Endpoints, UpdateEndpoint(e) PROVE LinkedWasScanned'
  BY <1>UpdateEndpoint, UpdateEndpointEffect, <1>sc, Constants, HoldingType DEF
     LinkedWasScanned, OnlyRow, Exists, ScannedGrows, Types, SidecarType
<1>CloseWizard. ASSUME NEW s \in Sessions, CloseWizard(s) PROVE LinkedWasScanned'
  BY <1>1, <1>CloseWizard DEF CloseWizard, Op, others
<1>Snapshot. ASSUME NEW h \in Calls, Snapshot(h) PROVE LinkedWasScanned'
  BY <1>1, <1>Snapshot DEF Snapshot, Fault, others
<1>CreateRow. ASSUME NEW h \in Calls, CreateRow(h) PROVE LinkedWasScanned'
  BY <1>CreateRow, CreateRowEffect, <1>sc, Constants, HoldingType DEF LinkedWasScanned,
     OnlyRow, Exists, ScannedGrows, Types, SidecarType
<1>Mint. ASSUME NEW h \in Calls, Mint(h) PROVE LinkedWasScanned'
  BY <1>1, <1>Mint DEF Mint, Fault, Goto, others
<1>StoreQr. ASSUME NEW h \in Calls, StoreQr(h) PROVE LinkedWasScanned'
  BY <1>StoreQr, StoreQrEffect, <1>sc, Constants, HoldingType DEF LinkedWasScanned, OnlyRow,
     Exists, ScannedGrows, Types, SidecarType
<1>StoreFailed. ASSUME NEW h \in Calls, StoreFailed(h) PROVE LinkedWasScanned'
  BY <1>StoreFailed, StoreFailedEffect, <1>sc, Constants, HoldingType DEF LinkedWasScanned,
     OnlyRow, Exists, ScannedGrows, Types, SidecarType
<1>PollRead. ASSUME NEW h \in Calls, PollRead(h) PROVE LinkedWasScanned'
  BY <1>1, <1>PollRead DEF PollRead, End, others
<1>PollList. ASSUME NEW h \in Calls, PollList(h) PROVE LinkedWasScanned'
  BY <1>1, <1>PollList DEF PollList, End, Fault, others
<1>PollTaken. ASSUME NEW h \in Calls, PollTaken(h) PROVE LinkedWasScanned'
  BY <1>1, <1>PollTaken DEF PollTaken, others
<1>PollLink. ASSUME NEW h \in Calls, PollLink(h) PROVE LinkedWasScanned'
  BY <1>PollLink, PollLinkEffect, <1>sc, Constants, HoldingType DEF LinkedWasScanned, OnlyRow,
     Exists, ScannedGrows, Types, SidecarType
<1>PollExpired. ASSUME NEW h \in Calls, PollExpired(h) PROVE LinkedWasScanned'
  BY <1>PollExpired, PollExpiredEffect, <1>sc, Constants, HoldingType DEF LinkedWasScanned,
     OnlyRow, Exists, ScannedGrows, Types, SidecarType
<1>PollAnswer. ASSUME NEW h \in Calls, PollAnswer(h) PROVE LinkedWasScanned'
  BY <1>1, <1>PollAnswer DEF PollAnswer, End, ReplyToPoll, Reply, others
<1>UnlinkRead. ASSUME NEW h \in Calls, UnlinkRead(h) PROVE LinkedWasScanned'
  BY <1>1, <1>UnlinkRead DEF UnlinkRead, End, Reply, others
<1>UnlinkForget. ASSUME NEW h \in Calls, UnlinkForget(h) PROVE LinkedWasScanned'
  BY <1>1, <1>UnlinkForget DEF UnlinkForget, Fault, Goto, End, Reply, others
<1>UnlinkClear. ASSUME NEW h \in Calls, UnlinkClear(h) PROVE LinkedWasScanned'
  BY <1>UnlinkClear, UnlinkClearEffect, <1>sc, Constants, HoldingType DEF LinkedWasScanned,
     OnlyRow, Exists, ScannedGrows, Types, SidecarType
<1>ReattachList. ASSUME NEW h \in Calls, ReattachList(h) PROVE LinkedWasScanned'
  BY <1>1, <1>ReattachList DEF ReattachList, Goto, End, Fault, others
<1>ReattachWrite. ASSUME NEW h \in Calls, ReattachWrite(h) PROVE LinkedWasScanned'
  BY <1>ReattachWrite, ReattachWriteEffect, <1>sc, Constants, HoldingType DEF
     LinkedWasScanned, OnlyRow, Exists, ScannedGrows, Types, SidecarType
<1>DeleteTx. ASSUME NEW h \in Calls, DeleteTx(h) PROVE LinkedWasScanned'
  BY <1>DeleteTx, DeleteTxEffect, <1>sc, Constants, HoldingType DEF LinkedWasScanned, OnlyRow,
     Exists, ScannedGrows, Types, SidecarType
<1>Begin. ASSUME NEW s \in Sessions, NEW h \in Calls, Begin(s, h) PROVE LinkedWasScanned'
  BY <1>1, <1>Begin DEF Begin, Start, others
<1>Tick. ASSUME NEW s \in Sessions, NEW h \in Calls, Tick(s, h) PROVE LinkedWasScanned'
  BY <1>1, <1>Tick DEF Tick, Start, others
<1>CancelProvision. ASSUME NEW s \in Sessions, NEW h \in Calls, CancelProvision(s, h)
                    PROVE  LinkedWasScanned'
  BY <1>1, <1>CancelProvision DEF CancelProvision, Op, Start, others
<1>AskUnlink. ASSUME NEW e \in Endpoints, NEW h \in Calls, AskUnlink(e, h)
              PROVE  LinkedWasScanned'
  BY <1>1, <1>AskUnlink DEF AskUnlink, Op, Start, others
<1>AskDelete. ASSUME NEW e \in Endpoints, NEW h \in Calls, AskDelete(e, h)
              PROVE  LinkedWasScanned'
  BY <1>1, <1>AskDelete DEF AskDelete, Op, Start, others
<1>AskReattach. ASSUME NEW e \in Endpoints, NEW n \in Numbers, NEW h \in Calls, AskReattach(e, n, h)
                PROVE  LinkedWasScanned'
  BY <1>1, <1>AskReattach DEF AskReattach, Op, others
<1>QED. QED
  BY <1>Scan, <1>Surface, <1>Expire, <1>UpdateEndpoint, <1>CloseWizard, <1>Snapshot,
     <1>CreateRow, <1>Mint, <1>StoreQr, <1>StoreFailed, <1>PollRead, <1>PollList,
     <1>PollTaken, <1>PollLink, <1>PollExpired, <1>PollAnswer, <1>UnlinkRead, <1>UnlinkForget,
     <1>UnlinkClear, <1>ReattachList, <1>ReattachWrite, <1>DeleteTx, <1>Begin, <1>Tick,
     <1>CancelProvision, <1>AskUnlink, <1>AskDelete, <1>AskReattach DEF Next, HandlerNext,
     StartNext, PollNext, OperatorNext

\* Nothing brings a row nearer to a number that its wizard was not told and that another
\* endpoint has held since before the row was created: the number is in the snapshot, so it is no match of the diff, and somebody
\* holds it, so it is no orphan.
LEMMA EarlyStep ==
  Types /\ DevicesOK /\ CallsOK /\ WizardsOK /\ EarlyOK /\ Next => EarlyOK'
<1> SUFFICES ASSUME Types /\ DevicesOK /\ CallsOK /\ WizardsOK /\ EarlyOK, Next PROVE EarlyOK'
  OBVIOUS
<1>nr. NoReturn
  BY RowsStay
<1>ts. ToldStays
  BY ToldStep
<1>1. ASSUME UNCHANGED <<early, row, call>> PROVE EarlyOK'
  BY <1>1, <1>ts DEF EarlyOK, HeldSince, Barred, OutOfReach, Exists, ToldStays
<1>Scan. ASSUME NEW e \in Endpoints, NEW n \in Numbers, Scan(e, n) PROVE EarlyOK'
  BY <1>1, <1>Scan DEF Scan
<1>Surface. ASSUME NEW n \in Numbers, Surface(n) PROVE EarlyOK'
  BY <1>1, <1>Surface DEF Surface
<1>Expire. ASSUME NEW e \in Endpoints, Expire(e) PROVE EarlyOK'
  <2> SUFFICES ASSUME NEW x \in Endpoints, NEW p \in early'[x]
               PROVE  HeldSince(x, p)' /\ Barred(x, p[2])'
    BY DEF EarlyOK
  <2>1. UNCHANGED early /\ UNCHANGED call
    BY <1>Expire DEF Expire
  <2>2. p \in early[x]
    BY <2>1
  <2>3. HeldSince(x, p) /\ Barred(x, p[2])
    BY <2>2 DEF EarlyOK
  <2>4. HeldSince(x, p)'
    BY <1>Expire, ExpireEffect, <1>nr, <2>1, <2>3, Constants, HoldingType DEF HeldSince,
       Exists, NoReturn, OnlyRow
  <2>5. ASSUME OutOfReach(x, p[2]) PROVE OutOfReach(x, p[2])'
    BY <1>Expire, ExpireEffect, <2>1, <2>3, <2>5, Constants, HoldingType
       DEF OutOfReach, HeldSince, OnlyRow, OnlyCall, SameCall, Ended
  <2>6. QED
    BY <1>ts, <2>3, <2>4, <2>5 DEF Barred, HeldSince, ToldStays
<1>UpdateEndpoint. ASSUME NEW e \in Endpoints, UpdateEndpoint(e) PROVE EarlyOK'
  <2> SUFFICES ASSUME NEW x \in Endpoints, NEW p \in early'[x]
               PROVE  HeldSince(x, p)' /\ Barred(x, p[2])'
    BY DEF EarlyOK
  <2>1. UNCHANGED early /\ UNCHANGED call
    BY <1>UpdateEndpoint DEF UpdateEndpoint
  <2>2. p \in early[x]
    BY <2>1
  <2>3. HeldSince(x, p) /\ Barred(x, p[2])
    BY <2>2 DEF EarlyOK
  <2>4. HeldSince(x, p)'
    BY <1>UpdateEndpoint, UpdateEndpointEffect, <1>nr, <2>1, <2>3, Constants, HoldingType
       DEF HeldSince, Exists, NoReturn, OnlyRow
  <2>5. ASSUME OutOfReach(x, p[2]) PROVE OutOfReach(x, p[2])'
    BY <1>UpdateEndpoint, UpdateEndpointEffect, <2>1, <2>3, <2>5, Constants, HoldingType
       DEF OutOfReach, HeldSince, OnlyRow, OnlyCall, SameCall, Ended
  <2>6. QED
    BY <1>ts, <2>3, <2>4, <2>5 DEF Barred, HeldSince, ToldStays
<1>CloseWizard. ASSUME NEW s \in Sessions, CloseWizard(s) PROVE EarlyOK'
  <2> SUFFICES ASSUME NEW x \in Endpoints, NEW p \in early'[x]
               PROVE  HeldSince(x, p)' /\ Barred(x, p[2])'
    BY DEF EarlyOK
  <2>1. UNCHANGED row /\ UNCHANGED early
    BY <1>CloseWizard DEF CloseWizard
  <2>2. p \in early[x]
    BY <2>1
  <2>3. HeldSince(x, p) /\ Barred(x, p[2])
    BY <2>2 DEF EarlyOK
  <2>4. HeldSince(x, p)'
    BY <1>CloseWizard, CloseWizardEffect, <1>nr, <2>1, <2>3, Constants, HoldingType DEF
       HeldSince, Exists, NoReturn, OnlyRow
  <2>5. ASSUME OutOfReach(x, p[2]) PROVE OutOfReach(x, p[2])'
    BY <1>CloseWizard, CloseWizardEffect, <2>1, <2>3, <2>5, Constants, HoldingType
       DEF OutOfReach, HeldSince, OnlyRow, OnlyCall, SameCall, Ended
  <2>6. QED
    BY <1>ts, <2>3, <2>4, <2>5 DEF Barred, HeldSince, ToldStays
<1>Snapshot. ASSUME NEW h \in Calls, Snapshot(h) PROVE EarlyOK'
  <2> SUFFICES ASSUME NEW x \in Endpoints, NEW p \in early'[x]
               PROVE  HeldSince(x, p)' /\ Barred(x, p[2])'
    BY DEF EarlyOK
  <2>1. UNCHANGED row /\ UNCHANGED early
    BY <1>Snapshot DEF Snapshot
  <2>2. p \in early[x]
    BY <2>1
  <2>3. HeldSince(x, p) /\ Barred(x, p[2])
    BY <2>2 DEF EarlyOK
  <2>4. HeldSince(x, p)'
    BY <1>Snapshot, SnapshotEffect, <1>nr, <2>1, <2>3, Constants, HoldingType DEF HeldSince,
       Exists, NoReturn, OnlyRow
  <2>5. ASSUME OutOfReach(x, p[2]) PROVE OutOfReach(x, p[2])'
    BY <1>Snapshot, SnapshotEffect, <2>1, <2>3, <2>5, Constants, HoldingType
       DEF OutOfReach, HeldSince, OnlyRow, OnlyCall, SameCall, Ended
  <2>6. QED
    BY <1>ts, <2>3, <2>4, <2>5 DEF Barred, HeldSince, ToldStays
<1>CreateRow. ASSUME NEW h \in Calls, CreateRow(h) PROVE EarlyOK'
  <2> SUFFICES ASSUME NEW x \in Endpoints, NEW p \in early'[x]
               PROVE  HeldSince(x, p)' /\ Barred(x, p[2])'
    BY DEF EarlyOK
  <2>1. PICK e \in Endpoints, asked \in MaybeNumber :
           /\ OnlyRow(e) /\ row[e].state = "absent" /\ row'[e].state = "qr_pending"
           /\ {row'[e].ext, row'[e].phone, row'[e].device} \subseteq {None, asked} /\ row'[e].qr = "none"
           /\ told' = [told EXCEPT ![e] = asked]
           /\ early' = [early EXCEPT ![e] = {o \in (Endpoints \ {e}) \X call[h].list :
                                               row[o[1]].state = "linked" /\ row[o[1]].ext = o[2]}]
           /\ OnlyCall(h) /\ call'[h].op = "start" /\ call'[h].pc = "mint" /\ call'[h].e = e
           /\ call'[h].list = call[h].list
    BY <1>CreateRow, CreateRowEffect
  <2>2. CASE x # e
    <3>1. p \in early[x]
      BY <2>1, <2>2 DEF Types, EarlyType
    <3>2. HeldSince(x, p) /\ Barred(x, p[2])
      BY <3>1 DEF EarlyOK
    <3>3. HeldSince(x, p)'
      BY <2>1, <3>2, <1>nr DEF HeldSince, Exists, NoReturn, OnlyRow
    <3>4. ASSUME OutOfReach(x, p[2]) PROVE OutOfReach(x, p[2])'
      BY <2>1, <2>2, <3>4 DEF OutOfReach, OnlyRow, OnlyCall
    <3>5. QED
      BY <1>ts, <3>2, <3>3, <3>4 DEF Barred, HeldSince, ToldStays
  <2>3. CASE x = e
    <3>1. p \in (Endpoints \ {e}) \X call[h].list /\ row[p[1]].state = "linked" /\ row[p[1]].ext = p[2]
      BY <2>1, <2>3 DEF Types, EarlyType
    <3>2. call[h].list \subseteq Numbers
      BY DEF Types, CallType, CallRecords
    <3>3. HeldSince(x, p)'
      BY <2>1, <2>3, <3>1, <3>2 DEF HeldSince, Exists, OnlyRow
    <3>4. \A k \in Calls \ {h} : call'[k].e # e
      BY <2>1 DEF OnlyCall, CallsOK
    <3>5. CASE p[2] = asked
      BY <2>1, <2>3, <3>3, <3>5 DEF Barred, Types, ToldType
    <3>6. CASE p[2] # asked
      <4>1. p[2] \in call[h].list /\ p[2] # None
        BY <3>1, <3>2, Constants
      <4>2. row'[x].ext # p[2] /\ row'[x].phone # p[2] /\ row'[x].device # p[2]
        BY <2>1, <2>3, <3>6, <4>1
      <4>3. OutOfReach(x, p[2])'
        BY <2>1, <2>3, <3>4, <4>1, <4>2 DEF OutOfReach
      <4>4. QED
        BY <3>3, <4>3 DEF Barred
    <3>7. QED
      BY <3>5, <3>6
  <2>4. QED
    BY <2>2, <2>3
<1>Mint. ASSUME NEW h \in Calls, Mint(h) PROVE EarlyOK'
  <2> SUFFICES ASSUME NEW x \in Endpoints, NEW p \in early'[x]
               PROVE  HeldSince(x, p)' /\ Barred(x, p[2])'
    BY DEF EarlyOK
  <2>1. UNCHANGED row /\ UNCHANGED early
    BY <1>Mint DEF Mint
  <2>2. p \in early[x]
    BY <2>1
  <2>3. HeldSince(x, p) /\ Barred(x, p[2])
    BY <2>2 DEF EarlyOK
  <2>4. HeldSince(x, p)'
    BY <1>Mint, MintStepEffect, <1>nr, <2>1, <2>3, Constants, HoldingType DEF HeldSince,
       Exists, NoReturn, OnlyRow
  <2>5. ASSUME OutOfReach(x, p[2]) PROVE OutOfReach(x, p[2])'
    BY <1>Mint, MintStepEffect, <2>1, <2>3, <2>5, Constants, HoldingType
       DEF OutOfReach, HeldSince, OnlyRow, OnlyCall, SameCall, Ended
  <2>6. QED
    BY <1>ts, <2>3, <2>4, <2>5 DEF Barred, HeldSince, ToldStays
<1>StoreQr. ASSUME NEW h \in Calls, StoreQr(h) PROVE EarlyOK'
  <2> SUFFICES ASSUME NEW x \in Endpoints, NEW p \in early'[x]
               PROVE  HeldSince(x, p)' /\ Barred(x, p[2])'
    BY DEF EarlyOK
  <2>1. UNCHANGED early
    BY <1>StoreQr DEF StoreQr
  <2>2. p \in early[x]
    BY <2>1
  <2>3. HeldSince(x, p) /\ Barred(x, p[2])
    BY <2>2 DEF EarlyOK
  <2>4. HeldSince(x, p)'
    BY <1>StoreQr, StoreQrEffect, <1>nr, <2>1, <2>3, Constants, HoldingType DEF HeldSince,
       Exists, NoReturn, OnlyRow
  <2>5. ASSUME OutOfReach(x, p[2]) PROVE OutOfReach(x, p[2])'
    BY <1>StoreQr, StoreQrEffect, <2>1, <2>3, <2>5, Constants, HoldingType
       DEF OutOfReach, HeldSince, OnlyRow, OnlyCall, SameCall, Ended
  <2>6. QED
    BY <1>ts, <2>3, <2>4, <2>5 DEF Barred, HeldSince, ToldStays
<1>StoreFailed. ASSUME NEW h \in Calls, StoreFailed(h) PROVE EarlyOK'
  <2> SUFFICES ASSUME NEW x \in Endpoints, NEW p \in early'[x]
               PROVE  HeldSince(x, p)' /\ Barred(x, p[2])'
    BY DEF EarlyOK
  <2>1. UNCHANGED early
    BY <1>StoreFailed DEF StoreFailed
  <2>2. p \in early[x]
    BY <2>1
  <2>3. HeldSince(x, p) /\ Barred(x, p[2])
    BY <2>2 DEF EarlyOK
  <2>4. HeldSince(x, p)'
    BY <1>StoreFailed, StoreFailedEffect, <1>nr, <2>1, <2>3, Constants, HoldingType DEF
       HeldSince, Exists, NoReturn, OnlyRow
  <2>5. ASSUME OutOfReach(x, p[2]) PROVE OutOfReach(x, p[2])'
    BY <1>StoreFailed, StoreFailedEffect, <2>1, <2>3, <2>5, Constants, HoldingType
       DEF OutOfReach, HeldSince, OnlyRow, OnlyCall, SameCall, Ended
  <2>6. QED
    BY <1>ts, <2>3, <2>4, <2>5 DEF Barred, HeldSince, ToldStays
<1>PollRead. ASSUME NEW h \in Calls, PollRead(h) PROVE EarlyOK'
  <2> SUFFICES ASSUME NEW x \in Endpoints, NEW p \in early'[x]
               PROVE  HeldSince(x, p)' /\ Barred(x, p[2])'
    BY DEF EarlyOK
  <2>1. UNCHANGED row /\ UNCHANGED early
    BY <1>PollRead DEF PollRead
  <2>2. p \in early[x]
    BY <2>1
  <2>3. HeldSince(x, p) /\ Barred(x, p[2])
    BY <2>2 DEF EarlyOK
  <2>4. HeldSince(x, p)'
    BY <1>PollRead, PollReadEffect, <1>nr, <2>1, <2>3, Constants, HoldingType DEF HeldSince,
       Exists, NoReturn, OnlyRow
  <2>5. ASSUME OutOfReach(x, p[2]) PROVE OutOfReach(x, p[2])'
    BY <1>PollRead, PollReadEffect, <2>1, <2>3, <2>5, Constants, HoldingType
       DEF OutOfReach, HeldSince, OnlyRow, OnlyCall, SameCall, Ended
  <2>6. QED
    BY <1>ts, <2>3, <2>4, <2>5 DEF Barred, HeldSince, ToldStays
<1>PollList. ASSUME NEW h \in Calls, PollList(h) PROVE EarlyOK'
  <2> SUFFICES ASSUME NEW x \in Endpoints, NEW p \in early'[x]
               PROVE  HeldSince(x, p)' /\ Barred(x, p[2])'
    BY DEF EarlyOK
  <2>1. UNCHANGED row /\ UNCHANGED early
    BY <1>PollList DEF PollList
  <2>2. p \in early[x]
    BY <2>1
  <2>3. HeldSince(x, p) /\ Barred(x, p[2])
    BY <2>2 DEF EarlyOK
  <2>4. HeldSince(x, p)'
    BY <1>PollList, PollListEffect, <1>nr, <2>1, <2>3, Constants, HoldingType DEF HeldSince,
       Exists, NoReturn, OnlyRow
  <2>5. ASSUME OutOfReach(x, p[2]) PROVE OutOfReach(x, p[2])'
    BY <1>PollList, PollListEffect, <2>1, <2>3, <2>5, Constants, HoldingType
       DEF OutOfReach, HeldSince, OnlyRow, OnlyCall, SameCall, Ended, Fresh
  <2>6. QED
    BY <1>ts, <2>3, <2>4, <2>5 DEF Barred, HeldSince, ToldStays
<1>PollTaken. ASSUME NEW h \in Calls, PollTaken(h) PROVE EarlyOK'
  <2> SUFFICES ASSUME NEW x \in Endpoints, NEW p \in early'[x]
               PROVE  HeldSince(x, p)' /\ Barred(x, p[2])'
    BY DEF EarlyOK
  <2>1. UNCHANGED row /\ UNCHANGED early
    BY <1>PollTaken DEF PollTaken
  <2>2. p \in early[x]
    BY <2>1
  <2>3. HeldSince(x, p) /\ Barred(x, p[2])
    BY <2>2 DEF EarlyOK
  <2>4. HeldSince(x, p)'
    BY <1>PollTaken, PollTakenEffect, <1>nr, <2>1, <2>3, Constants, HoldingType DEF
       HeldSince, Exists, NoReturn, OnlyRow
  <2>5. ASSUME OutOfReach(x, p[2]) PROVE OutOfReach(x, p[2])'
    BY <1>PollTaken, PollTakenEffect, <2>1, <2>3, <2>5, Constants, HoldingType
       DEF OutOfReach, HeldSince, OnlyRow, OnlyCall, SameCall, Ended, Holders, Exists
  <2>6. QED
    BY <1>ts, <2>3, <2>4, <2>5 DEF Barred, HeldSince, ToldStays
<1>PollLink. ASSUME NEW h \in Calls, PollLink(h) PROVE EarlyOK'
  <2> SUFFICES ASSUME NEW x \in Endpoints, NEW p \in early'[x]
               PROVE  HeldSince(x, p)' /\ Barred(x, p[2])'
    BY DEF EarlyOK
  <2>2. p \in early[x]
    BY <1>PollLink, PollLinkEffect
  <2>3. HeldSince(x, p) /\ Barred(x, p[2])
    BY <2>2 DEF EarlyOK
  <2>4. HeldSince(x, p)'
    BY <1>PollLink, PollLinkEffect, <1>nr, <2>3, Constants, HoldingType DEF HeldSince,
       Exists, NoReturn, OnlyRow
  <2>5. ASSUME OutOfReach(x, p[2]) PROVE OutOfReach(x, p[2])'
    BY <1>PollLink, PollLinkEffect, <2>3, <2>5, Constants, HoldingType
       DEF OutOfReach, HeldSince, OnlyRow, OnlyCall, SameCall, Ended, Types, SidecarType
  <2>6. QED
    BY <1>ts, <2>3, <2>4, <2>5 DEF Barred, HeldSince, ToldStays
<1>PollExpired. ASSUME NEW h \in Calls, PollExpired(h) PROVE EarlyOK'
  <2> SUFFICES ASSUME NEW x \in Endpoints, NEW p \in early'[x]
               PROVE  HeldSince(x, p)' /\ Barred(x, p[2])'
    BY DEF EarlyOK
  <2>1. UNCHANGED early
    BY <1>PollExpired DEF PollExpired
  <2>2. p \in early[x]
    BY <2>1
  <2>3. HeldSince(x, p) /\ Barred(x, p[2])
    BY <2>2 DEF EarlyOK
  <2>4. HeldSince(x, p)'
    BY <1>PollExpired, PollExpiredEffect, <1>nr, <2>1, <2>3, Constants, HoldingType DEF
       HeldSince, Exists, NoReturn, OnlyRow
  <2>5. ASSUME OutOfReach(x, p[2]) PROVE OutOfReach(x, p[2])'
    BY <1>PollExpired, PollExpiredEffect, <2>1, <2>3, <2>5, Constants, HoldingType
       DEF OutOfReach, HeldSince, OnlyRow, OnlyCall, SameCall, Ended
  <2>6. QED
    BY <1>ts, <2>3, <2>4, <2>5 DEF Barred, HeldSince, ToldStays
<1>PollAnswer. ASSUME NEW h \in Calls, PollAnswer(h) PROVE EarlyOK'
  <2> SUFFICES ASSUME NEW x \in Endpoints, NEW p \in early'[x]
               PROVE  HeldSince(x, p)' /\ Barred(x, p[2])'
    BY DEF EarlyOK
  <2>1. UNCHANGED row /\ UNCHANGED early
    BY <1>PollAnswer DEF PollAnswer
  <2>2. p \in early[x]
    BY <2>1
  <2>3. HeldSince(x, p) /\ Barred(x, p[2])
    BY <2>2 DEF EarlyOK
  <2>4. HeldSince(x, p)'
    BY <1>PollAnswer, PollAnswerEffect, <1>nr, <2>1, <2>3, Constants, HoldingType DEF
       HeldSince, Exists, NoReturn, OnlyRow
  <2>5. ASSUME OutOfReach(x, p[2]) PROVE OutOfReach(x, p[2])'
    BY <1>PollAnswer, PollAnswerEffect, <2>1, <2>3, <2>5, Constants, HoldingType
       DEF OutOfReach, HeldSince, OnlyRow, OnlyCall, SameCall, Ended
  <2>6. QED
    BY <1>ts, <2>3, <2>4, <2>5 DEF Barred, HeldSince, ToldStays
<1>UnlinkRead. ASSUME NEW h \in Calls, UnlinkRead(h) PROVE EarlyOK'
  <2> SUFFICES ASSUME NEW x \in Endpoints, NEW p \in early'[x]
               PROVE  HeldSince(x, p)' /\ Barred(x, p[2])'
    BY DEF EarlyOK
  <2>1. UNCHANGED row /\ UNCHANGED early
    BY <1>UnlinkRead DEF UnlinkRead
  <2>2. p \in early[x]
    BY <2>1
  <2>3. HeldSince(x, p) /\ Barred(x, p[2])
    BY <2>2 DEF EarlyOK
  <2>4. HeldSince(x, p)'
    BY <1>UnlinkRead, UnlinkReadEffect, <1>nr, <2>1, <2>3, Constants, HoldingType DEF
       HeldSince, Exists, NoReturn, OnlyRow
  <2>5. ASSUME OutOfReach(x, p[2]) PROVE OutOfReach(x, p[2])'
    BY <1>UnlinkRead, UnlinkReadEffect, <2>1, <2>3, <2>5, Constants, HoldingType
       DEF OutOfReach, HeldSince, OnlyRow, OnlyCall, SameCall, Ended
  <2>6. QED
    BY <1>ts, <2>3, <2>4, <2>5 DEF Barred, HeldSince, ToldStays
<1>UnlinkForget. ASSUME NEW h \in Calls, UnlinkForget(h) PROVE EarlyOK'
  <2> SUFFICES ASSUME NEW x \in Endpoints, NEW p \in early'[x]
               PROVE  HeldSince(x, p)' /\ Barred(x, p[2])'
    BY DEF EarlyOK
  <2>1. UNCHANGED row /\ UNCHANGED early
    BY <1>UnlinkForget DEF UnlinkForget
  <2>2. p \in early[x]
    BY <2>1
  <2>3. HeldSince(x, p) /\ Barred(x, p[2])
    BY <2>2 DEF EarlyOK
  <2>4. HeldSince(x, p)'
    BY <1>UnlinkForget, UnlinkForgetEffect, <1>nr, <2>1, <2>3, Constants, HoldingType DEF
       HeldSince, Exists, NoReturn, OnlyRow
  <2>5. ASSUME OutOfReach(x, p[2]) PROVE OutOfReach(x, p[2])'
    BY <1>UnlinkForget, UnlinkForgetEffect, <2>1, <2>3, <2>5, Constants, HoldingType
       DEF OutOfReach, HeldSince, OnlyRow, OnlyCall, SameCall, Ended
  <2>6. QED
    BY <1>ts, <2>3, <2>4, <2>5 DEF Barred, HeldSince, ToldStays
<1>UnlinkClear. ASSUME NEW h \in Calls, UnlinkClear(h) PROVE EarlyOK'
  <2> SUFFICES ASSUME NEW x \in Endpoints, NEW p \in early'[x]
               PROVE  HeldSince(x, p)' /\ Barred(x, p[2])'
    BY DEF EarlyOK
  <2>2. p \in early[x]
    BY <1>UnlinkClear, UnlinkClearEffect
  <2>3. HeldSince(x, p) /\ Barred(x, p[2])
    BY <2>2 DEF EarlyOK
  <2>4. HeldSince(x, p)'
    BY <1>UnlinkClear, UnlinkClearEffect, <1>nr, <2>3, Constants, HoldingType DEF HeldSince,
       Exists, NoReturn, OnlyRow
  <2>5. ASSUME OutOfReach(x, p[2]) PROVE OutOfReach(x, p[2])'
    BY <1>UnlinkClear, UnlinkClearEffect, <2>3, <2>5, Constants, HoldingType
       DEF OutOfReach, HeldSince, OnlyRow, OnlyCall, SameCall, Ended
  <2>6. QED
    BY <1>ts, <2>3, <2>4, <2>5 DEF Barred, HeldSince, ToldStays
<1>ReattachList. ASSUME NEW h \in Calls, ReattachList(h) PROVE EarlyOK'
  <2> SUFFICES ASSUME NEW x \in Endpoints, NEW p \in early'[x]
               PROVE  HeldSince(x, p)' /\ Barred(x, p[2])'
    BY DEF EarlyOK
  <2>1. UNCHANGED row /\ UNCHANGED early
    BY <1>ReattachList DEF ReattachList
  <2>2. p \in early[x]
    BY <2>1
  <2>3. HeldSince(x, p) /\ Barred(x, p[2])
    BY <2>2 DEF EarlyOK
  <2>4. HeldSince(x, p)'
    BY <1>ReattachList, ReattachListEffect, <1>nr, <2>1, <2>3, Constants, HoldingType DEF
       HeldSince, Exists, NoReturn, OnlyRow
  <2>5. ASSUME OutOfReach(x, p[2]) PROVE OutOfReach(x, p[2])'
    BY <1>ReattachList, ReattachListEffect, <2>1, <2>3, <2>5, Constants, HoldingType
       DEF OutOfReach, HeldSince, OnlyRow, OnlyCall, SameCall, Ended
  <2>6. QED
    BY <1>ts, <2>3, <2>4, <2>5 DEF Barred, HeldSince, ToldStays
<1>ReattachWrite. ASSUME NEW h \in Calls, ReattachWrite(h) PROVE EarlyOK'
  <2> SUFFICES ASSUME NEW x \in Endpoints, NEW p \in early'[x]
               PROVE  HeldSince(x, p)' /\ Barred(x, p[2])'
    BY DEF EarlyOK
  <2>2. p \in early[x]
    BY <1>ReattachWrite, ReattachWriteEffect
  <2>3. HeldSince(x, p) /\ Barred(x, p[2])
    BY <2>2 DEF EarlyOK
  <2>4. HeldSince(x, p)'
    BY <1>ReattachWrite, ReattachWriteEffect, <1>nr, <2>3, Constants, HoldingType DEF
       HeldSince, Exists, NoReturn, OnlyRow
  <2>5. ASSUME OutOfReach(x, p[2]) PROVE OutOfReach(x, p[2])'
    BY <1>ReattachWrite, ReattachWriteEffect, <2>3, <2>5, Constants, HoldingType
       DEF OutOfReach, HeldSince, OnlyRow, OnlyCall, SameCall, Ended
  <2>6. QED
    BY <1>ts, <2>3, <2>4, <2>5 DEF Barred, HeldSince, ToldStays
<1>DeleteTx. ASSUME NEW h \in Calls, DeleteTx(h) PROVE EarlyOK'
  <2> SUFFICES ASSUME NEW x \in Endpoints, NEW p \in early'[x]
               PROVE  HeldSince(x, p)' /\ Barred(x, p[2])'
    BY DEF EarlyOK
  <2>2. p \in early[x]
    BY <1>DeleteTx, DeleteTxEffect
  <2>3. HeldSince(x, p) /\ Barred(x, p[2])
    BY <2>2 DEF EarlyOK
  <2>4. HeldSince(x, p)'
    BY <1>DeleteTx, DeleteTxEffect, <1>nr, <2>3, Constants, HoldingType DEF HeldSince,
       Exists, NoReturn, OnlyRow
  <2>5. ASSUME OutOfReach(x, p[2]) PROVE OutOfReach(x, p[2])'
    BY <1>DeleteTx, DeleteTxEffect, <2>3, <2>5, Constants, HoldingType
       DEF OutOfReach, HeldSince, OnlyRow, OnlyCall, SameCall, Ended
  <2>6. QED
    BY <1>ts, <2>3, <2>4, <2>5 DEF Barred, HeldSince, ToldStays
<1>Begin. ASSUME NEW s \in Sessions, NEW h \in Calls, Begin(s, h) PROVE EarlyOK'
  <2> SUFFICES ASSUME NEW x \in Endpoints, NEW p \in early'[x]
               PROVE  HeldSince(x, p)' /\ Barred(x, p[2])'
    BY DEF EarlyOK
  <2>1. UNCHANGED row /\ UNCHANGED early
    BY <1>Begin DEF Begin
  <2>2. p \in early[x]
    BY <2>1
  <2>3. HeldSince(x, p) /\ Barred(x, p[2])
    BY <2>2 DEF EarlyOK
  <2>4. HeldSince(x, p)'
    BY <1>Begin, BeginEffect, <1>nr, <2>1, <2>3, Constants, HoldingType DEF HeldSince,
       Exists, NoReturn, OnlyRow
  <2>5. ASSUME OutOfReach(x, p[2]) PROVE OutOfReach(x, p[2])'
    BY <1>Begin, BeginEffect, <2>1, <2>3, <2>5, Constants, HoldingType
       DEF OutOfReach, HeldSince, OnlyRow, OnlyCall, SameCall, Ended
  <2>6. QED
    BY <1>ts, <2>3, <2>4, <2>5 DEF Barred, HeldSince, ToldStays
<1>Tick. ASSUME NEW s \in Sessions, NEW h \in Calls, Tick(s, h) PROVE EarlyOK'
  <2> SUFFICES ASSUME NEW x \in Endpoints, NEW p \in early'[x]
               PROVE  HeldSince(x, p)' /\ Barred(x, p[2])'
    BY DEF EarlyOK
  <2>1. UNCHANGED row /\ UNCHANGED early
    BY <1>Tick DEF Tick
  <2>2. p \in early[x]
    BY <2>1
  <2>3. HeldSince(x, p) /\ Barred(x, p[2])
    BY <2>2 DEF EarlyOK
  <2>4. HeldSince(x, p)'
    BY <1>Tick, TickEffect, <1>nr, <2>1, <2>3, Constants, HoldingType DEF HeldSince, Exists,
       NoReturn, OnlyRow
  <2>5. ASSUME OutOfReach(x, p[2]) PROVE OutOfReach(x, p[2])'
    BY <1>Tick, TickEffect, <2>1, <2>3, <2>5, Constants, HoldingType
       DEF OutOfReach, HeldSince, OnlyRow, OnlyCall, SameCall, Ended
  <2>6. QED
    BY <1>ts, <2>3, <2>4, <2>5 DEF Barred, HeldSince, ToldStays
<1>CancelProvision. ASSUME NEW s \in Sessions, NEW h \in Calls, CancelProvision(s, h)
                    PROVE  EarlyOK'
  <2> SUFFICES ASSUME NEW x \in Endpoints, NEW p \in early'[x]
               PROVE  HeldSince(x, p)' /\ Barred(x, p[2])'
    BY DEF EarlyOK
  <2>1. UNCHANGED row /\ UNCHANGED early
    BY <1>CancelProvision DEF CancelProvision
  <2>2. p \in early[x]
    BY <2>1
  <2>3. HeldSince(x, p) /\ Barred(x, p[2])
    BY <2>2 DEF EarlyOK
  <2>4. HeldSince(x, p)'
    BY <1>CancelProvision, CancelProvisionEffect, <1>nr, <2>1, <2>3, Constants, HoldingType
       DEF HeldSince, Exists, NoReturn, OnlyRow
  <2>5. ASSUME OutOfReach(x, p[2]) PROVE OutOfReach(x, p[2])'
    BY <1>CancelProvision, CancelProvisionEffect, <2>1, <2>3, <2>5, Constants, HoldingType
       DEF OutOfReach, HeldSince, OnlyRow, OnlyCall, SameCall, Ended
  <2>6. QED
    BY <1>ts, <2>3, <2>4, <2>5 DEF Barred, HeldSince, ToldStays
<1>AskUnlink. ASSUME NEW e \in Endpoints, NEW h \in Calls, AskUnlink(e, h) PROVE EarlyOK'
  <2> SUFFICES ASSUME NEW x \in Endpoints, NEW p \in early'[x]
               PROVE  HeldSince(x, p)' /\ Barred(x, p[2])'
    BY DEF EarlyOK
  <2>1. UNCHANGED row /\ UNCHANGED early
    BY <1>AskUnlink DEF AskUnlink
  <2>2. p \in early[x]
    BY <2>1
  <2>3. HeldSince(x, p) /\ Barred(x, p[2])
    BY <2>2 DEF EarlyOK
  <2>4. HeldSince(x, p)'
    BY <1>AskUnlink, AskUnlinkEffect, <1>nr, <2>1, <2>3, Constants, HoldingType DEF
       HeldSince, Exists, NoReturn, OnlyRow
  <2>5. ASSUME OutOfReach(x, p[2]) PROVE OutOfReach(x, p[2])'
    BY <1>AskUnlink, AskUnlinkEffect, <2>1, <2>3, <2>5, Constants, HoldingType
       DEF OutOfReach, HeldSince, OnlyRow, OnlyCall, SameCall, Ended
  <2>6. QED
    BY <1>ts, <2>3, <2>4, <2>5 DEF Barred, HeldSince, ToldStays
<1>AskDelete. ASSUME NEW e \in Endpoints, NEW h \in Calls, AskDelete(e, h) PROVE EarlyOK'
  <2> SUFFICES ASSUME NEW x \in Endpoints, NEW p \in early'[x]
               PROVE  HeldSince(x, p)' /\ Barred(x, p[2])'
    BY DEF EarlyOK
  <2>1. UNCHANGED row /\ UNCHANGED early
    BY <1>AskDelete DEF AskDelete
  <2>2. p \in early[x]
    BY <2>1
  <2>3. HeldSince(x, p) /\ Barred(x, p[2])
    BY <2>2 DEF EarlyOK
  <2>4. HeldSince(x, p)'
    BY <1>AskDelete, AskDeleteEffect, <1>nr, <2>1, <2>3, Constants, HoldingType DEF
       HeldSince, Exists, NoReturn, OnlyRow
  <2>5. ASSUME OutOfReach(x, p[2]) PROVE OutOfReach(x, p[2])'
    BY <1>AskDelete, AskDeleteEffect, <2>1, <2>3, <2>5, Constants, HoldingType
       DEF OutOfReach, HeldSince, OnlyRow, OnlyCall, SameCall, Ended
  <2>6. QED
    BY <1>ts, <2>3, <2>4, <2>5 DEF Barred, HeldSince, ToldStays
<1>AskReattach. ASSUME NEW e \in Endpoints, NEW n \in Numbers, NEW h \in Calls, AskReattach(e, n, h)
                PROVE  EarlyOK'
  <2> SUFFICES ASSUME NEW x \in Endpoints, NEW p \in early'[x]
               PROVE  HeldSince(x, p)' /\ Barred(x, p[2])'
    BY DEF EarlyOK
  <2>1. UNCHANGED row /\ UNCHANGED early
    BY <1>AskReattach DEF AskReattach
  <2>2. p \in early[x]
    BY <2>1
  <2>3. HeldSince(x, p) /\ Barred(x, p[2])
    BY <2>2 DEF EarlyOK
  <2>4. HeldSince(x, p)'
    BY <1>AskReattach, AskReattachEffect, <1>nr, <2>1, <2>3, Constants, HoldingType DEF
       HeldSince, Exists, NoReturn, OnlyRow
  <2>5. ASSUME OutOfReach(x, p[2]) PROVE OutOfReach(x, p[2])'
    BY <1>AskReattach, AskReattachEffect, <2>1, <2>3, <2>5, Constants, HoldingType
       DEF OutOfReach, HeldSince, OnlyRow, OnlyCall, SameCall, Ended
  <2>6. QED
    BY <1>ts, <2>3, <2>4, <2>5 DEF Barred, HeldSince, ToldStays
<1>QED. QED
  BY <1>Scan, <1>Surface, <1>Expire, <1>UpdateEndpoint, <1>CloseWizard, <1>Snapshot,
     <1>CreateRow, <1>Mint, <1>StoreQr, <1>StoreFailed, <1>PollRead, <1>PollList,
     <1>PollTaken, <1>PollLink, <1>PollExpired, <1>PollAnswer, <1>UnlinkRead, <1>UnlinkForget,
     <1>UnlinkClear, <1>ReattachList, <1>ReattachWrite, <1>DeleteTx, <1>Begin, <1>Tick,
     <1>CancelProvision, <1>AskUnlink, <1>AskDelete, <1>AskReattach DEF Next, HandlerNext,
     StartNext, PollNext, OperatorNext

\* At first nobody has a wizard open, and the rows that are linked are paired.
LEMMA ProvisioningInit ==
  Init => IInv
<1> SUFFICES ASSUME Init PROVE IInv
  OBVIOUS
<1>1. ASSUME NEW e \in Endpoints
      PROVE  /\ row[e] \in Rows
             /\ row[e].state = "linked" => row[e].ext # None /\ row[e].ext \in sidecar
  <2>1. CASE Paired[e] = None
    BY <2>1, Constants DEF Init
  <2>2. CASE Paired[e] # None
    <3>1. Paired[e] \in Numbers /\ row[e] = Holding(Paired[e]) /\ Paired[e] \in sidecar
      BY <2>2, BoundsAssumption DEF Init
    <3>2. QED
      BY <3>1, HoldingType, Constants
  <2>3. QED
    BY <2>1, <2>2
<1>2. RowsType
  BY <1>1 DEF Init, RowsType
<1>3. SidecarType
  BY BoundsAssumption DEF Init, SidecarType
<1>4. UiType /\ CallType /\ EarlyType /\ ToldType /\ UsedType
  BY Constants, BoundsAssumption DEF Init, UiType, IdleUi, CallType, EarlyType, ToldType, MaybeNumber, UsedType
<1>5. DevicesOK /\ CallsOK /\ WizardsOK /\ EarlyOK
  BY Constants DEF Init, DevicesOK, CallsOK, WizardsOK, EarlyOK, IdleUi
<1>6. LinkedWasScanned
  BY <1>1 DEF Init, LinkedWasScanned
<1>7. QED
  BY <1>2, <1>3, <1>4, <1>5, <1>6, TypeParts DEF IInv

\* Stuttering changes nothing.
LEMMA ProvisioningStutters ==
  ASSUME IInv, UNCHANGED vars PROVE IInv'
<1>1. TypeOK' /\ DevicesOK' /\ CallsOK' /\ WizardsOK' /\ LinkedWasScanned'
  BY DEF IInv, vars, others, TypeOK, DevicesOK, CallsOK, WizardsOK, LinkedWasScanned
<1>2. EarlyOK'
  BY DEF IInv, vars, others, EarlyOK, HeldSince, Barred, OutOfReach, Exists
<1>3. QED
  BY <1>1, <1>2 DEF IInv

\* The inductive invariant holds: it relates what running handlers have read to the rows
\* and to the histories of pairings and holders.
THEOREM ProvisioningInvariance ==
  Spec => []IInv
<1>1. IInv /\ [Next]_vars => IInv'
  <2> SUFFICES ASSUME IInv, [Next]_vars PROVE IInv'
    OBVIOUS
  <2>1. CASE Next
    <3>1. Types /\ DevicesOK /\ CallsOK /\ WizardsOK /\ LinkedWasScanned /\ EarlyOK
      BY TypeParts DEF IInv, Types
    <3>2. TypeOK'
      <4>1. RowsType' /\ SidecarType' /\ UiType' /\ CallType' /\ EarlyType' /\ ToldType' /\ UsedType'
        BY <2>1, <3>1, RowsTypeStep, SidecarTypeStep, UiTypeStep, CallTypeStep,
           EarlyTypeStep, ToldStep, UsedTypeStep
      <4>2. QED
        BY <4>1 DEF TypeOK, RowsType, SidecarType, UiType, CallType, EarlyType, ToldType,
           UsedType, CallRecords
    <3>3. DevicesOK' /\ CallsOK' /\ WizardsOK' /\ LinkedWasScanned' /\ EarlyOK'
      BY <2>1, <3>1, DevicesStep, CallsStep, WizardsStep, LinkedStep, EarlyStep
    <3>4. QED
      BY <3>2, <3>3 DEF IInv
  <2>2. CASE UNCHANGED vars
    BY <2>2, ProvisioningStutters
  <2>3. QED
    BY <2>1, <2>2
<1>2. QED
  BY <1>1, ProvisioningInit, PTL DEF Spec

\* Rows, handlers and wizards have the shape the code gives them.
THEOREM TypeCorrect ==
  Spec => []TypeOK
BY ProvisioningInvariance, PTL DEF IInv

\* However polls overlap, fail and come late, an endpoint is only ever linked to a number
\* that a phone was paired for: no device that gwmd has merely created is taken for one.
THEOREM OnlyScannedIsLinked ==
  Spec => []LinkedWasScanned
BY ProvisioningInvariance, PTL DEF IInv

\* A wizard takes over a number that its snapshot shows and that another endpoint has held
\* since before the row was created only if it was told that very number, whatever polls,
\* operators and failures interleave: the diff and the adoption of unclaimed accounts never
\* lead to it, and the identity match does so for the number in the row alone.
THEOREM EarlierNumbersAreKept ==
  Spec => []KeepsEarlierNumbers
<1>1. IInv => KeepsEarlierNumbers
  BY DEF IInv, KeepsEarlierNumbers, EarlyOK, Barred, OutOfReach
<1>2. QED
  BY <1>1, ProvisioningInvariance, PTL

-----------------------------------------------------------------------------
(* The bridge.                                                               *)

\* The Map of the bridge holds open sockets, each under its number.
MapHoldsOpen ==
  \A n \in Numbers : sockets[n] # None => ws[sockets[n]].state = "open" /\ ws[sockets[n]].phone = n

\* An open socket is connected for a number.
OpenHasPhone == \A k \in Socks : ws[k].state = "open" => ws[k].phone \in Numbers

BridgeInv == BridgeTypeOK /\ MapHoldsOpen /\ OpenHasPhone /\ NoSocketLeaks

\* A set that is not larger fits into another one.
LEMMA Fits ==
  ASSUME NEW S, NEW T, IsFiniteSet(S), IsFiniteSet(T), Cardinality(S) <= Cardinality(T)
  PROVE  \E f \in [S -> T] : \A a, b \in S : f[a] = f[b] => a = b
<1>1. Cardinality(S) \in Nat /\ Cardinality(T) \in Nat
  BY FS_CardinalityType
<1>2. PICK g \in [1..Cardinality(S) -> S] : \A s \in S : \E i \in 1..Cardinality(S) : g[i] = s
  BY FS_CardinalityType DEF ExistsBijection, Bijection, Surjection
<1>3. PICK h \in [1..Cardinality(T) -> T] : \A i, j \in 1..Cardinality(T) : h[i] = h[j] => i = j
  <2>1. PICK h \in Bijection(1..Cardinality(T), T) : TRUE
    BY FS_CardinalityType DEF ExistsBijection
  <2>2. h \in [1..Cardinality(T) -> T]
    BY <2>1 DEF Bijection, Injection
  <2>3. \A i, j \in 1..Cardinality(T) : h[i] = h[j] => i = j
    BY <2>1 DEF Bijection, Injection, IsInjective
  <2>4. QED
    BY <2>2, <2>3
<1> DEFINE at(s) == CHOOSE i \in 1..Cardinality(S) : g[i] = s
           f == [s \in S |-> h[at(s)]]
<1>4. \A s \in S : at(s) \in 1..Cardinality(S) /\ g[at(s)] = s
  BY <1>2
<1>5. \A s \in S : at(s) \in 1..Cardinality(T)
  BY <1>1, <1>4
<1> HIDE DEF at
<1>6. f \in [S -> T]
  BY <1>3, <1>5
<1>7. \A a, b \in S : f[a] = f[b] => a = b
  BY <1>3, <1>4, <1>5
<1>8. QED
  BY <1>6, <1>7

\* The objects a tick opens are free ones, a different one for every number.
LEMMA FreshSockets ==
  ASSUME BridgeTypeOK, NEW phones \in SUBSET Numbers,
         Cardinality(phones) <= Cardinality({k \in Socks : ws[k].state = "free"})
  PROVE  /\ NewSockets(phones) \in [phones -> {k \in Socks : ws[k].state = "free"}]
         /\ \A m, n \in phones : NewSockets(phones)[m] = NewSockets(phones)[n] => m = n
<1> DEFINE free == {k \in Socks : ws[k].state = "free"}
<1>1. IsFiniteSet(free) /\ IsFiniteSet(phones)
  BY BreaksAssumption, FS_Subset
<1>2. \E f \in [phones -> free] : \A m, n \in phones : f[m] = f[n] => m = n
  <2> HIDE DEF free
  <2>1. Cardinality(phones) <= Cardinality(free)
    BY DEF free
  <2>2. QED
    BY <1>1, <2>1, Fits
<1>3. QED
  BY <1>2 DEF NewSockets

\* What a tick does with the sockets.
LEMMA ApplyEffect ==
  ASSUME BridgeInv, NEW t \in Ticks, ReconcileApply(t)
  PROVE  /\ sockets' \in [Numbers -> Socks \cup {None}]
         /\ ws' \in [Socks -> [state : {"free", "open", "closing"}, phone : MaybeNumber]]
         /\ \A n \in Numbers : sockets'[n] # None =>
              ws'[sockets'[n]].state = "open" /\ ws'[sockets'[n]].phone = n
         /\ \A k \in Socks : ws'[k].state = "open" => ws'[k].phone \in Numbers /\ sockets'[ws'[k].phone] = k
<1> DEFINE read == tick[t].read
           opens == ToOpen(read)
           closes == ToClose(read)
           fresh == NewSockets(opens)
<1>1. opens \subseteq Numbers /\ closes \subseteq Numbers /\ opens \cap closes = {}
      /\ (\A n \in opens : sockets[n] = None) /\ (\A n \in closes : sockets[n] # None)
  BY DEF BridgeInv, BridgeTypeOK, ToOpen, ToClose, Phones
<1>2. /\ fresh \in [opens -> {k \in Socks : ws[k].state = "free"}]
      /\ \A m, n \in opens : fresh[m] = fresh[n] => m = n
  BY <1>1, FreshSockets DEF ReconcileApply, BridgeInv
<1>3. sockets' = [n \in Numbers |-> IF n \in opens THEN fresh[n]
                                    ELSE IF n \in closes THEN None ELSE sockets[n]]
  BY DEF ReconcileApply
<1>4. ws' = [k \in Socks |->
               IF k \in {sockets[n] : n \in closes} THEN [ws[k] EXCEPT !.state = "closing"]
               ELSE IF \E n \in opens : fresh[n] = k
               THEN [state |-> "open", phone |-> CHOOSE n \in opens : fresh[n] = k]
               ELSE ws[k]]
  BY DEF ReconcileApply
<1> HIDE DEF opens, closes, fresh
<1>5. /\ sockets \in [Numbers -> Socks \cup {None}] /\ None \notin Socks /\ None \notin Numbers
      /\ ws \in [Socks -> [state : {"free", "open", "closing"}, phone : MaybeNumber]]
      /\ \A n \in Numbers : sockets[n] # None => ws[sockets[n]].state = "open" /\ ws[sockets[n]].phone = n
      /\ \A k \in Socks : ws[k].state = "open" => ws[k].phone \in Numbers /\ sockets[ws[k].phone] = k
  BY BreaksAssumption, BoundsAssumption
     DEF BridgeInv, BridgeTypeOK, MapHoldsOpen, OpenHasPhone, NoSocketLeaks
<1>6. sockets' \in [Numbers -> Socks \cup {None}]
  BY <1>2, <1>3, <1>5
<1>7. ASSUME NEW n \in opens
      PROVE  /\ fresh[n] \in Socks /\ sockets'[n] = fresh[n]
             /\ ws'[fresh[n]].state = "open" /\ ws'[fresh[n]].phone = n
             /\ ws'[fresh[n]] \in [state : {"free", "open", "closing"}, phone : MaybeNumber]
  <2>1. fresh[n] \in Socks /\ ws[fresh[n]].state = "free"
    BY <1>2, <1>7
  <2>2. fresh[n] \notin {sockets[m] : m \in closes}
    BY <1>1, <1>5, <2>1
  <2>3. (CHOOSE m \in opens : fresh[m] = fresh[n]) = n
    BY <1>2, <1>7
  <2>4. sockets'[n] = fresh[n]
    BY <1>1, <1>3, <1>7
  <2>5. ws'[fresh[n]] = [state |-> "open", phone |-> n]
    BY <1>4, <1>7, <2>1, <2>2, <2>3
  <2>6. n \in MaybeNumber
    BY <1>1, <1>7 DEF MaybeNumber
  <2>7. QED
    BY <2>1, <2>4, <2>5, <2>6
<1>8. ASSUME NEW n \in closes 
      PROVE  /\ sockets[n] \in Socks /\ ws'[sockets[n]].state = "closing"
             /\ ws'[sockets[n]] \in [state : {"free", "open", "closing"}, phone : MaybeNumber]
  <2>1. sockets[n] \in Socks
    BY <1>1, <1>5, <1>8
  <2>2. ws'[sockets[n]] = [ws[sockets[n]] EXCEPT !.state = "closing"]
    BY <1>4, <1>8, <2>1
  <2>3. ws[sockets[n]] \in [state : {"free", "open", "closing"}, phone : MaybeNumber]
    BY <1>5, <2>1
  <2>4. QED
    BY <2>1, <2>2, <2>3
<1>9. ASSUME NEW k \in Socks, \A n \in opens : fresh[n] # k, \A n \in closes : sockets[n] # k
      PROVE  ws'[k] = ws[k]
  BY <1>4, <1>9
<1>10. ws' \in [Socks -> [state : {"free", "open", "closing"}, phone : MaybeNumber]]
  <2>1. ASSUME NEW k \in Socks
        PROVE  ws'[k] \in [state : {"free", "open", "closing"}, phone : MaybeNumber]
    <3>1. CASE \E n \in opens : fresh[n] = k
      BY <3>1, <1>7
    <3>2. CASE \E n \in closes : sockets[n] = k
      BY <3>2, <1>8
    <3>3. QED
      BY <3>1, <3>2, <1>5, <1>9
  <2>2. ws' = [k \in Socks |-> ws'[k]]
    BY <1>4
  <2>3. QED
    BY <2>1, <2>2
<1>11. ASSUME NEW n \in Numbers, sockets'[n] # None
       PROVE  ws'[sockets'[n]].state = "open" /\ ws'[sockets'[n]].phone = n
  <2>1. CASE n \in opens
    BY <2>1, <1>7
  <2>2. CASE n \notin opens
    <3>1. n \notin closes /\ sockets'[n] = sockets[n] /\ sockets[n] \in Socks
      BY <1>3, <1>5, <1>11, <2>2
    <3>2. ws[sockets[n]].state = "open" /\ ws[sockets[n]].phone = n
      BY <1>5, <1>11, <3>1
    <3>3. \A m \in opens : fresh[m] # sockets[n]
      BY <1>2, <3>2
    <3>4. \A m \in closes : sockets[m] # sockets[n]
      BY <1>1, <1>5, <3>1, <3>2
    <3>5. QED
      BY <1>9, <3>1, <3>2, <3>3, <3>4
  <2>3. QED
    BY <2>1, <2>2
<1>12. ASSUME NEW k \in Socks, ws'[k].state = "open"
       PROVE  ws'[k].phone \in Numbers /\ sockets'[ws'[k].phone] = k
  <2>1. CASE \E n \in opens : fresh[n] = k
    <3>1. PICK n \in opens : fresh[n] = k
      BY <2>1
    <3>2. ws'[k].phone = n /\ sockets'[n] = k
      BY <1>7, <3>1
    <3>3. QED
      BY <1>1, <3>1, <3>2
  <2>2. CASE \A n \in opens : fresh[n] # k
    <3>1. ASSUME NEW n \in closes PROVE sockets[n] # k
      <4>1. ws'[sockets[n]].state = "closing"
        BY <1>8
      <4>2. QED
        BY <4>1, <1>12
    <3>2. ws'[k] = ws[k]
      BY <1>9, <2>2, <3>1
    <3>3. ws[k].state = "open" /\ sockets[ws[k].phone] = k
      BY <1>5, <1>12, <3>2
    <3>4. ws[k].phone \in Numbers
      BY <1>5, <3>3
    <3>5. ws[k].phone \notin opens /\ ws[k].phone \notin closes
      BY <1>1, <1>5, <3>1, <3>3
    <3>6. QED
      BY <1>3, <3>2, <3>3, <3>4, <3>5
  <2>3. QED
    BY <2>1, <2>2
<1>13. QED
  BY <1>6, <1>10, <1>11, <1>12

\* One step of the bridge, or of what it watches.
LEMMA BridgeStep ==
  BridgeInv /\ [BridgeNext]_allVars => BridgeInv'
<1> SUFFICES ASSUME BridgeInv, [BridgeNext]_allVars PROVE BridgeInv'
  OBVIOUS
<1> DEFINE Maps == sockets' \in [Numbers -> Socks \cup {None}]
                   /\ ws' \in [Socks -> [state : {"free", "open", "closing"}, phone : MaybeNumber]]
           Rest == /\ endpointIds' \in [Numbers -> Endpoints \cup {None}]
                   /\ tick' \in [Ticks -> [pc : {"idle", "apply"}, read : SUBSET (Numbers \X Endpoints)]]
                   /\ stopping' \in BOOLEAN
                   /\ breaks' \in 0..MaxBreaks
           Held == \A n \in Numbers : sockets'[n] # None =>
                     ws'[sockets'[n]].state = "open" /\ ws'[sockets'[n]].phone = n
           Reached == \A k \in Socks : ws'[k].state = "open" => ws'[k].phone \in Numbers /\ sockets'[ws'[k].phone] = k
<1>0. ASSUME Maps, Rest, Held, Reached PROVE BridgeInv'
  BY <1>0 DEF BridgeInv, BridgeTypeOK, MapHoldsOpen, OpenHasPhone, NoSocketLeaks
<1>C. None \notin Socks /\ None \notin Numbers /\ MaxBreaks \in Nat
  BY BreaksAssumption, BoundsAssumption
<1>T. /\ sockets \in [Numbers -> Socks \cup {None}]
      /\ ws \in [Socks -> [state : {"free", "open", "closing"}, phone : MaybeNumber]]
      /\ endpointIds \in [Numbers -> Endpoints \cup {None}]
      /\ tick \in [Ticks -> [pc : {"idle", "apply"}, read : SUBSET (Numbers \X Endpoints)]]
      /\ stopping \in BOOLEAN /\ breaks \in 0..MaxBreaks
  BY DEF BridgeInv, BridgeTypeOK
<1>H. \A n \in Numbers : sockets[n] # None => ws[sockets[n]].state = "open" /\ ws[sockets[n]].phone = n
  BY DEF BridgeInv, MapHoldsOpen
<1>R. \A k \in Socks : ws[k].state = "open" => ws[k].phone \in Numbers /\ sockets[ws[k].phone] = k
  BY DEF BridgeInv, OpenHasPhone, NoSocketLeaks
<1>1. CASE UNCHANGED bridge
  BY <1>1 DEF bridge, BridgeInv, BridgeTypeOK, MapHoldsOpen, OpenHasPhone, NoSocketLeaks
<1>2. ASSUME NEW t \in Ticks, ReconcileRead(t) PROVE BridgeInv'
  <2>1. UNCHANGED <<sockets, ws, endpointIds, stopping, breaks>>
    BY <1>2 DEF ReconcileRead
  <2>2. Wanted \subseteq Numbers \X Endpoints
    BY DEF Wanted
  <2>3. tick' \in [Ticks -> [pc : {"idle", "apply"}, read : SUBSET (Numbers \X Endpoints)]]
    BY <1>2, <1>T, <2>2 DEF ReconcileRead
  <2>4. QED
    BY <1>0, <1>T, <1>H, <1>R, <2>1, <2>3
<1>3. ASSUME NEW t \in Ticks, ReconcileApply(t) PROVE BridgeInv'
  <2>1. Maps /\ Held /\ Reached
    BY <1>3, ApplyEffect
  <2>2. UNCHANGED <<stopping, breaks>> /\ tick' = [tick EXCEPT ![t] = NoRead]
    BY <1>3 DEF ReconcileApply
  <2>3. tick' \in [Ticks -> [pc : {"idle", "apply"}, read : SUBSET (Numbers \X Endpoints)]]
    BY <1>T, <2>2 DEF NoRead
  <2>4. endpointIds' \in [Numbers -> Endpoints \cup {None}]
    BY <1>3, <1>T DEF ReconcileApply
  <2> HIDE DEF Maps, Held, Reached
  <2>5. Rest
    BY <1>T, <2>2, <2>3, <2>4
  <2>6. QED
    BY <1>0, <2>1, <2>5
<1>4. ASSUME NEW k \in Socks, SocketClosed(k) PROVE BridgeInv'
  <2>1. /\ sockets' = [n \in Numbers |-> IF n = ws[k].phone /\ sockets[n] = k THEN None ELSE sockets[n]]
        /\ ws' = [ws EXCEPT ![k] = FreeSocket] /\ FreeSocket.state = "free"
        /\ UNCHANGED <<endpointIds, tick, stopping>>
    BY <1>4 DEF SocketClosed, AfterClose, FreeSocket
  <2>2. Maps
    BY <1>T, <2>1 DEF FreeSocket, MaybeNumber
  <2>3. Rest
    BY <1>4, <1>T, <1>C, <2>1 DEF SocketClosed
  <2>4. Held
    BY <1>H, <1>T, <1>C, <2>1
  <2>5. Reached
    BY <1>R, <1>T, <2>1
  <2>6. QED
    BY <1>0, <2>2, <2>3, <2>4, <2>5
<1>5. CASE Stop
  <2>1. /\ sockets' = [n \in Numbers |-> None] /\ stopping' = TRUE /\ UNCHANGED <<endpointIds, tick>>
        /\ ws' = [k \in Socks |-> IF \E n \in Numbers : sockets[n] = k
                                  THEN [ws[k] EXCEPT !.state = "closing"] ELSE ws[k]]
    BY <1>5 DEF Stop
  <2>2. Maps
    BY <1>T, <2>1
  <2>3. breaks' \in 0..MaxBreaks
    BY <1>5, <1>T, <1>C DEF Stop
  <2>4. Rest
    BY <1>T, <2>1, <2>3
  <2>5. Held
    BY <2>1
  <2>6. Reached
    BY <1>R, <1>T, <2>1
  <2>7. QED
    BY <1>0, <2>2, <2>4, <2>5, <2>6
<1>6. CASE Restart
  <2>1. /\ sockets' = [n \in Numbers |-> None] /\ endpointIds' = [n \in Numbers |-> None]
        /\ ws' = [k \in Socks |-> FreeSocket] /\ tick' = [t \in Ticks |-> NoRead]
        /\ stopping' = FALSE /\ UNCHANGED breaks
    BY <1>6 DEF Restart
  <2>2. Maps /\ Held /\ Reached
    BY <2>1 DEF FreeSocket, MaybeNumber
  <2>3. Rest
    BY <1>T, <2>1 DEF NoRead
  <2>4. QED
    BY <1>0, <2>2, <2>3
<1>7. CASE UNCHANGED allVars
  BY <1>7, <1>1 DEF allVars, bridge
<1>8. QED
  BY <1>1, <1>2, <1>3, <1>4, <1>5, <1>6, <1>7 DEF BridgeNext

\* The bridge starts with no socket.
LEMMA BridgeStart ==
  BridgeInit => BridgeInv
<1> SUFFICES ASSUME BridgeInit PROVE BridgeInv
  OBVIOUS
<1>1. BridgeTypeOK
  <2>1. ws \in [Socks -> [state : {"free", "open", "closing"}, phone : MaybeNumber]]
    BY DEF BridgeInit, FreeSocket, MaybeNumber
  <2>2. tick \in [Ticks -> [pc : {"idle", "apply"}, read : SUBSET (Numbers \X Endpoints)]]
    BY DEF BridgeInit, NoRead
  <2>3. breaks \in 0..MaxBreaks
    BY BreaksAssumption DEF BridgeInit
  <2>4. \A n \in Numbers : sockets[n] = None
    BY DEF BridgeInit
  <2>5. QED
    BY <2>1, <2>2, <2>3, <2>4 DEF BridgeInit, BridgeTypeOK
<1>2. MapHoldsOpen /\ OpenHasPhone /\ NoSocketLeaks
  BY DEF BridgeInit, MapHoldsOpen, OpenHasPhone, NoSocketLeaks, FreeSocket
<1>3. QED
  BY <1>1, <1>2 DEF BridgeInv

\* The Maps of the bridge and the WebSocket objects are what the code takes them for.
THEOREM BridgeTypeCorrect ==
  BridgeSpec => []BridgeTypeOK
<1>1. BridgeInv => BridgeTypeOK
  BY DEF BridgeInv
<1>2. QED
  BY <1>1, BridgeStart, BridgeStep, PTL DEF BridgeSpec

\* However ticks, close events, shutdowns and changes of the rows interleave, an open socket
\* is the one the Map holds for its number.
THEOREM SocketsAreReached ==
  BridgeSpec => []NoSocketLeaks
<1>1. BridgeInv => NoSocketLeaks
  BY DEF BridgeInv
<1>2. QED
  BY <1>1, BridgeStart, BridgeStep, PTL DEF BridgeSpec

\* The bridge only reads what provisioning writes: every behaviour of the two together is
\* one of provisioning alone, so what is proved above of its wizards, calls and rows holds
\* beside any number of ticks, sockets and restarts of the worker.
THEOREM BridgeKeepsProvisioning ==
  BridgeSpec => Spec
<1>1. BridgeInit => Init
  BY DEF BridgeInit
<1>2. [BridgeNext]_allVars => [Next]_vars
  BY DEF BridgeNext, allVars, ReconcileRead, ReconcileApply, SocketClosed, Stop, Restart
<1>3. QED
  BY <1>1, <1>2, PTL DEF BridgeSpec, Spec
=============================================================================
