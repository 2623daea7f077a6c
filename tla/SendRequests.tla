---------------------------- MODULE SendRequests ----------------------------
(***************************************************************************)
(* POST /messages, from the request to the row: which endpoint it goes     *)
(* to, Idempotency-Key, attachments, the transaction; the clients that     *)
(* repeat requests, and the operators who enable and delete endpoints.     *)
(* Composed with MediaStore.  What happens to the message afterwards is    *)
(* in MessageSend, which conversation it joins in InboundIngest; here it   *)
(* is dispatched once.                                                     *)
(***************************************************************************)
EXTENDS MediaStore, Sequences

CONSTANTS
  Handlers,    \* requests that can be processed at once
  Keys,        \* values of Idempotency-Key
  Bodies,      \* contents of requests
  AttOf,       \* the attachments a body names
  EndpointOf,  \* the endpoint a body names with its account, or None: any.  One named without
               \* its account is ignored, so that such a body counts as naming none
  Lines,       \* endpoints in the order in which they are picked
  Messages,    \* ids of messages rows
  MaxRequests, \* bound: requests
  MaxEdits     \* bound: endpoints enabled, disabled, deleted

Endpoints == {Lines[i] : i \in DOMAIN Lines}

ASSUME RequestsAssumption ==
  /\ {MaxRequests, MaxEdits} \subseteq Nat
  /\ AttOf \in [Bodies -> SUBSET (Files \ Inbound)]
  /\ Lines \in Seq(Endpoints)
  /\ None \notin Keys \cup Messages /\ Received \notin Messages
  /\ Cardinality(Messages) >= MaxRequests

VARIABLES
  line,      \* endpoints
  message,   \* messages rows
  idempotencyKey,  \* the table
  call,      \* requests being processed
  answered,  \* history: requests that were answered with a message
  made,      \* history: messages ever made for a key
  sent,      \* what was handed to the adapter
  count      \* what is used up of each bound

vars == <<media, line, message, idempotencyKey, call, answered, made, sent, count>>

NoMessage == [state |-> "none", body |-> None, ep |-> None, atts |-> {}]
NoKey == [hash |-> <<>>, ref |-> None]
IdleCall == [pc |-> "idle", key |-> None, body |-> None, ep |-> None, msg |-> None]

\* The type invariant.
TypeOK ==
  /\ disk \subseteq Files /\ upload \subseteq disk /\ announced \subseteq Files
  /\ att \in [Files -> [state : {"none", "live", "marked", "gone"},
                        msg : Messages \cup {None, Received}, old : BOOLEAN]]
  /\ del \in [Deletes -> [pc : {"idle", "unlink", "row"}, f : Files \cup {None}]]
  /\ retention.pc \in {"idle", "next", "mark", "emit"} /\ retention.todo \subseteq Files
  /\ line \in [Endpoints -> {"on", "off", "gone"}]
  /\ \A m \in Messages :
       /\ message[m].state \in {"none", "queued", "dispatched", "gone"}
       /\ message[m].state \in {"queued", "dispatched"} => line[message[m].ep] # "gone"
  /\ \A f \in Files : RowExists(f) /\ att[f].msg \in Messages =>
       message[att[f].msg].state \in {"queued", "dispatched"}
  /\ call \in [Handlers -> [pc : {"idle", "pick", "look", "atts", "tx", "enqueue"},
                            key : Keys \cup {None}, body : Bodies \cup {None},
                            ep : Endpoints \cup {None}, msg : Messages \cup {None}]]
  /\ made \in [Keys -> SUBSET Messages]

Init ==
  /\ MediaInit
  /\ line = [e \in Endpoints |-> "on"]
  /\ message = [m \in Messages |-> NoMessage]
  /\ idempotencyKey = [k \in Keys |-> NoKey]
  /\ call = [h \in Handlers |-> IdleCall]
  /\ answered = {}
  /\ made = [k \in Keys |-> {}]
  /\ sent = [m \in Messages |-> {}]
  /\ count = [requests |-> 0, edits |-> 0]

Use(what, bound) == count[what] < bound /\ count' = [count EXCEPT ![what] = @ + 1]

\* The request is refused or fails.
Refuse(h) == call' = [call EXCEPT ![h] = IdleCall]

Answer(h, m) ==
  /\ answered' = answered \cup {[key |-> call[h].key, body |-> call[h].body, msg |-> m]}
  /\ call' = [call EXCEPT ![h] = IdleCall]

-----------------------------------------------------------------------------
(* send.                                                                     *)

\* A client posts, or posts again.
Request(h) ==
  /\ call[h].pc = "idle"
  /\ \E k \in Keys \cup {None}, b \in Bodies :
       call' = [call EXCEPT ![h] = [IdleCall EXCEPT !.pc = "pick", !.key = k, !.body = b]]
  /\ Use("requests", MaxRequests)
  /\ UNCHANGED <<media, line, message, idempotencyKey, answered, made, sent>>

\* The endpoint named, or the first one that is enabled; 422 without.
PickEndpoint(h) ==
  /\ call[h].pc = "pick"
  /\ LET named == EndpointOf[call[h].body]
         fits == {i \in DOMAIN Lines : line[Lines[i]] = "on" /\ named \in {None, Lines[i]}}
     IN  IF fits = {} THEN Refuse(h)
         ELSE call' = [call EXCEPT ![h].pc = IF call[h].key = None THEN "atts" ELSE "look",
                                   ![h].ep = Lines[CHOOSE i \in fits : \A j \in fits : i <= j]]
  /\ UNCHANGED <<media, line, message, idempotencyKey, answered, made, sent, count>>

\* Mutant: the same key is the same request.
HashOfKey(body, ep) == <<>>

\* hashRequest is over the request with the endpoint that was picked for it.
HashRequest(body, ep) == <<body, ep>>

\* A known key: 409 for another request, else the message if there still is one.
LookUpKey(h) ==
  /\ call[h].pc = "look"
  /\ LET existing == idempotencyKey[call[h].key]
         there == existing.ref # None /\ message[existing.ref].state # "gone"
     IN  \/ /\ existing.ref = None \/ (existing.hash = HashRequest(call[h].body, call[h].ep) /\ ~there)
            /\ call' = [call EXCEPT ![h].pc = "atts"]
            /\ UNCHANGED answered
         \/ /\ existing.ref # None /\ existing.hash # HashRequest(call[h].body, call[h].ep)
            /\ Refuse(h)
            /\ UNCHANGED answered
         \/ /\ there /\ existing.hash = HashRequest(call[h].body, call[h].ep)
            /\ Answer(h, existing.ref)
  /\ UNCHANGED <<media, line, message, idempotencyKey, made, sent, count>>

\* 422 when an attachment does not exist or was deleted.
CheckAttachments(h) ==
  /\ call[h].pc = "atts"
  /\ IF \A f \in AttOf[call[h].body] : Live(f)
     THEN call' = [call EXCEPT ![h].pc = "tx"] ELSE Refuse(h)
  /\ UNCHANGED <<media, line, message, idempotencyKey, answered, made, sent, count>>

\* Mutant: the key is written over.
KeyIsFree(k) == TRUE

\* The primary key of idempotency_keys.
KeyMayBeMade(k) == \A x \in Keys : x = k => idempotencyKey[x] = NoKey

\* A new id, which one does not matter.
FreshId == CHOOSE m \in Messages : message[m] = NoMessage

\* The transaction: rolled back as a whole when the key exists or the endpoint is
\* gone.  Attachments move to the new message.
CreateMessage(h) ==
  /\ call[h].pc = "tx"
  /\ LET c == call[h]
     IN  \/ /\ line[c.ep] # "gone" /\ KeyMayBeMade(c.key)
            /\ \E m \in {FreshId} :
                 /\ message' = [message EXCEPT ![m] = [state |-> "queued", body |-> c.body, ep |-> c.ep,
                                                       atts |-> AttOf[c.body]]]
                 /\ att' = [f \in Files |-> IF f \in AttOf[c.body] /\ RowExists(f)
                                            THEN [att[f] EXCEPT !.msg = m] ELSE att[f]]
                 /\ idempotencyKey' = [k \in Keys |-> IF k = c.key
                                       THEN [hash |-> HashRequest(c.body, c.ep), ref |-> m]
                                       ELSE idempotencyKey[k]]
                 /\ made' = [k \in Keys |-> IF k = c.key THEN made[k] \cup {m} ELSE made[k]]
                 /\ call' = [call EXCEPT ![h].pc = "enqueue", ![h].msg = m]
         \/ /\ line[c.ep] = "gone" \/ ~KeyMayBeMade(c.key)
            /\ Refuse(h)
            /\ UNCHANGED <<message, att, idempotencyKey, made>>
  /\ UNCHANGED <<disk, upload, del, retention, announced, faults, line, answered, sent, count>>

\* enqueueSend and the answer.
Enqueue(h) ==
  /\ call[h].pc = "enqueue"
  /\ Answer(h, call[h].msg)
  /\ UNCHANGED <<media, line, message, idempotencyKey, made, sent, count>>

\* The API dies with the requests and uploads it is processing.
ApiCrash ==
  /\ MediaFault("apiCrash")
  /\ \/ \E h \in Handlers : call[h].pc \in {"tx", "enqueue"}
     \/ \E d \in Deletes : del[d].pc = "row"
     \/ upload \ Inbound # {}
  /\ MediaApiCrash
  /\ call' = [h \in Handlers |-> IdleCall]
  /\ UNCHANGED <<line, message, idempotencyKey, answered, made, sent, count>>

-----------------------------------------------------------------------------
(* The worker and the operators.                                             *)

\* loadAttachments reads what the message has; a file that is missing is left out.
LoadAttachments(m) == {f \in Files : Live(f) /\ att[f].msg = m /\ f \in disk}

Dispatch(m) ==
  /\ message[m].state = "queued"
  /\ message' = [message EXCEPT ![m].state = "dispatched"]
  /\ sent' = [sent EXCEPT ![m] = LoadAttachments(m)]
  /\ UNCHANGED <<media, line, idempotencyKey, call, answered, made, count>>

\* updateEndpoint: the enabled flag.
ToggleEndpoint(e) ==
  /\ Use("edits", MaxEdits)
  /\ line[e] # "gone"
  /\ line' = [line EXCEPT ![e] = IF @ = "on" THEN "off" ELSE "on"]
  /\ UNCHANGED <<media, message, idempotencyKey, call, answered, made, sent>>

\* What a deletion leaves of an attachment's row.
WithMessages(f, messages) == IF att[f].msg \in messages THEN [att[f] EXCEPT !.state = "gone"] ELSE att[f]

\* deleteEndpoint with force: its messages and their attachments, not the files on
\* the disk and not the keys.
DeleteEndpoint(e) ==
  /\ Use("edits", MaxEdits)
  /\ line[e] # "gone"
  /\ LET messages == {m \in Messages : message[m].state \in {"queued", "dispatched"} /\ message[m].ep = e}
     IN  /\ message' = [m \in Messages |-> IF m \in messages THEN [message[m] EXCEPT !.state = "gone"]
                                           ELSE message[m]]
         /\ att' = [f \in Files |-> WithMessages(f, messages)]
  /\ line' = [line EXCEPT ![e] = "gone"]
  /\ UNCHANGED <<disk, upload, del, retention, announced, faults, idempotencyKey, call, answered, made, sent>>

SendNext(h) == PickEndpoint(h) \/ LookUpKey(h) \/ CheckAttachments(h) \/ CreateMessage(h) \/ Enqueue(h)

Rest == <<line, message, idempotencyKey, call, answered, made, sent, count>>

Next ==
  \/ \E h \in Handlers : Request(h) \/ SendNext(h)
  \/ ApiCrash
  \/ \E m \in Messages : Dispatch(m)
  \/ \E e \in Endpoints : ToggleEndpoint(e) \/ DeleteEndpoint(e)
  \/ MediaNext /\ UNCHANGED Rest

\* Handlers run on, the retention window passes and the job runs day after day.
Fairness ==
  /\ WF_vars(HandlersNext /\ UNCHANGED Rest)
  /\ WF_vars(RetentionNext /\ UNCHANGED Rest)
  /\ \A f \in Files : WF_vars(Expire(f) /\ UNCHANGED Rest)

Spec == Init /\ [][Next]_vars /\ Fairness

-----------------------------------------------------------------------------
\* However often and however concurrently a request is posted with a key, and
\* whatever becomes of the endpoint and of the message, one message is ever made
\* for the key (the look-up and the transaction of send).
OneMessagePerKey == \A k \in Keys : Cardinality(made[k]) <= 1

\* Whoever posts with a key gets a message made from the very request: never that
\* of a different request with the same key.
AnswersMatch == \A a \in answered : message[a.msg].body = a.body

\* An Idempotency-Key stands for one message, and only for its own request.
KeyNamesOneMessage == OneMessagePerKey /\ AnswersMatch

\* A message goes out with every file it named, unless that expired, was deleted
\* or went to a message sent later with the same file (CreateMessage moves it).
GoesOutWhole ==
  [][\A m \in Messages :
       message[m].state = "queued" /\ message'[m].state = "dispatched" =>
         \A f \in message[m].atts :
           \/ f \in sent'[m]
           \/ ~Live(f) \/ att[f].old
           \/ att[f].msg # m
           \/ \E d \in Deletes : del[d].f = f
           \/ faults > 0]_vars
=============================================================================
