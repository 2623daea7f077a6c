------------------------- MODULE SendRequestsProofs -------------------------
(***************************************************************************)
(* What TLAPS proves of SendRequests and of the MediaStore it is composed  *)
(* with, for every set of handlers, keys, requests, files, endpoints and   *)
(* messages, every bound and every kind of failure.                        *)
(***************************************************************************)
EXTENDS SendRequests, FiniteSetTheorems, WellFoundedInduction, TLAPS

USE MediaAssumption, RequestsAssumption

-----------------------------------------------------------------------------
(* The inductive invariant.                                                  *)

AttRecords == [state : {"none", "live", "marked", "gone"},
               msg : Messages \cup {None, Received}, old : BOOLEAN]
DelRecords == [pc : {"idle", "unlink", "row"}, f : Files \cup {None}]
RetentionRecords == [pc : {"idle", "next", "mark", "emit"}, todo : SUBSET Files,
                     f : Files \cup {None}]
MessageRecords == [state : {"none", "queued", "dispatched", "gone"}, body : Bodies \cup {None},
                   ep : Endpoints \cup {None}, atts : SUBSET Files]
CallRecords == [pc : {"idle", "pick", "look", "atts", "tx", "enqueue"},
                key : Keys \cup {None}, body : Bodies \cup {None},
                ep : Endpoints \cup {None}, msg : Messages \cup {None}]

KeyRecords == [hash : {<<>>} \cup ((Bodies \cup {None}) \X (Endpoints \cup {None})),
               ref : Messages \cup {None}]

\* Once a file has had a row it always has a state.
Known(f) == f \in Files /\ att[f].state # "none"

\* A file between its write and its row is on the disk and has no row, so that
\* nobody deletes it; whoever deletes holds a file that has had one, and the
\* retention job one that is old.
MediaOK ==
  /\ disk \subseteq Files /\ announced \subseteq Files /\ faults \in 0..MaxFaults
  /\ att \in [Files -> AttRecords]
  /\ \A f \in Files : att[f].state = "none" => att[f] = NoRow
  /\ del \in [Deletes -> DelRecords]
  /\ retention \in RetentionRecords
  /\ \A f \in upload : f \in disk /\ att[f] = NoRow
  /\ \A d \in Deletes : del[d].pc # "idle" => Known(del[d].f)
  /\ \A f \in retention.todo : Known(f) /\ att[f].old
  /\ retention.pc \in {"mark", "emit"} => Known(retention.f) /\ att[retention.f].old

MessagesOK ==
  /\ line \in [Endpoints -> {"on", "off", "gone"}]
  /\ message \in [Messages -> MessageRecords] /\ sent \in [Messages -> SUBSET Files]
  /\ \A m \in Messages : message[m].state = "none" => message[m] = NoMessage
  /\ \A m \in Messages : message[m].state \in {"queued", "dispatched"} =>
       message[m].ep \in Endpoints /\ line[message[m].ep] # "gone"

\* An attachment belongs to a message that exists.
LinksOK ==
  \A f \in Files : RowExists(f) /\ att[f].msg \in Messages =>
    message[att[f].msg].state \in {"queued", "dispatched"}

\* Message m was made from this request.
MadeFrom(m, body) == m \in Messages /\ message[m].state # "none" /\ message[m].body = body

CallOK(h) ==
  /\ call[h].pc # "idle" => call[h].body \in Bodies
  /\ call[h].pc \in {"look", "atts", "tx", "enqueue"} => call[h].ep \in Endpoints
  /\ call[h].pc = "look" => call[h].key \in Keys
  /\ call[h].pc = "enqueue" => MadeFrom(call[h].msg, call[h].body)
CallsOK == call \in [Handlers -> CallRecords] /\ \A h \in Handlers : CallOK(h)

\* A key is unused, or it names the one message made for it and the request that
\* one was made from.
KeyRow(k, m) ==
  /\ idempotencyKey[k] = [hash |-> HashRequest(message[m].body, message[m].ep), ref |-> m]
  /\ made[k] = {m} /\ message[m].state # "none"
KeysOK ==
  /\ idempotencyKey \in [Keys -> KeyRecords]
  /\ made \in [Keys -> SUBSET Messages]
  /\ \A k \in Keys : \/ idempotencyKey[k] = NoKey /\ made[k] = {}
                     \/ \E m \in Messages : KeyRow(k, m)

AnswersOK == \A a \in answered : MadeFrom(a.msg, a.body)

\* There is an id left for every request that may still need one.
Taken == {m \in Messages : message[m].state # "none"}
Pending == {h \in Handlers : call[h].pc \in {"pick", "look", "atts", "tx"}}
IdsLeft ==
  /\ count \in [requests : 0..MaxRequests, edits : 0..MaxEdits]
  /\ IsFiniteSet(Taken) /\ IsFiniteSet(Pending)
  /\ Cardinality(Taken) + Cardinality(Pending) <= count.requests

SendOK == MessagesOK /\ CallsOK /\ KeysOK /\ IdsLeft

IInv ==
  /\ MediaOK /\ RowsMatchFiles
  /\ SendOK /\ LinksOK /\ AnswersOK

-----------------------------------------------------------------------------
(* Files and rows: the steps of MediaStore.                                  *)

\* The job goes on with the next file or ends.
LEMMA NextFileType ==
  ASSUME retention \in RetentionRecords
  PROVE  NextFile \in RetentionRecords /\ NextFile.pc \in {"idle", "next"} /\ NextFile.todo \subseteq retention.todo
BY DEF NextFile, IdleRetention, RetentionRecords

\* Every step of MediaStore keeps MediaOK.
LEMMA MediaStep ==
  MediaOK /\ MediaNext => MediaOK'
<1> SUFFICES ASSUME MediaOK, MediaNext PROVE MediaOK'
  OBVIOUS
<1> USE DEF Known
<1>1. NoRow \in AttRecords /\ NoRow.state = "none"
  BY DEF NoRow, AttRecords
<1>WriteFile. ASSUME NEW f \in Files, WriteFile(f) PROVE MediaOK'
  BY <1>WriteFile DEF WriteFile, MediaOK
<1>CreateRow. ASSUME NEW f \in Files, NEW m \in {None, Received}, CreateRow(f, m) PROVE MediaOK'
  <2> DEFINE r == [state |-> "live", msg |-> m, old |-> FALSE]
  <2>1. r \in AttRecords /\ r.state = "live"
    BY DEF AttRecords
  <2>2. att' = [att EXCEPT ![f] = r] /\ upload' = upload \ {f} /\ f \in upload
        /\ UNCHANGED <<disk, del, retention, announced, faults>>
    BY <1>CreateRow DEF CreateRow
  <2> HIDE DEF r
  <2>3. \A g \in Files : Known(g) => att'[g] = att[g]
    BY <1>1, <2>2 DEF MediaOK
  <2>4. QED
    BY <2>1, <2>2, <2>3 DEF MediaOK
<1>Expire. ASSUME NEW f \in Files, Expire(f) PROVE MediaOK'
  <2> DEFINE r == [att[f] EXCEPT !.old = TRUE]
  <2>a. att[f] \in AttRecords /\ att[f].state = "live"
    BY <1>Expire DEF Expire, Live, MediaOK
  <2>b. r \in AttRecords
    BY <2>a DEF AttRecords
  <2>c. r.state = "live" /\ r.old = TRUE
    BY <2>a DEF AttRecords
  <2>1. r \in AttRecords /\ r.state = "live" /\ r.old = TRUE
    BY <2>b, <2>c
  <2>2. att' = [att EXCEPT ![f] = r] /\ att[f].state = "live"
        /\ UNCHANGED <<disk, upload, del, retention, announced, faults>>
    BY <1>Expire DEF Expire, Live
  <2>3. f \notin upload
    BY <1>1, <2>2 DEF MediaOK
  <2> HIDE DEF r
  <2>4. QED
    BY <2>1, <2>2, <2>3 DEF MediaOK
<1>DeleteRead. ASSUME NEW d \in Deletes, NEW f \in Files, DeleteRead(d, f) PROVE MediaOK'
  BY <1>DeleteRead DEF DeleteRead, RowExists, MediaOK, DelRecords
<1>DeleteUnlink. ASSUME NEW d \in Deletes, DeleteUnlink(d) PROVE MediaOK'
  <2>1. del[d].f \in Files /\ del[d].f \notin upload
    BY <1>DeleteUnlink, <1>1 DEF DeleteUnlink, MediaOK
  <2>2. QED
    BY <1>DeleteUnlink, <2>1 DEF DeleteUnlink, MediaOK, DelRecords
<1>DeleteRow. ASSUME NEW d \in Deletes, DeleteRow(d) PROVE MediaOK'
  <2> DEFINE f == del[d].f
             r == [att[f] EXCEPT !.state = IF RowExists(f) THEN "gone" ELSE @]
  <2>1. Known(f) /\ f \notin upload
    BY <1>DeleteRow, <1>1 DEF DeleteRow, MediaOK
  <2>a. att[f] \in AttRecords
    BY <2>1 DEF MediaOK
  <2>b. r \in AttRecords /\ r.state # "none"
    BY <2>1, <2>a DEF AttRecords
  <2>c. r.old = att[f].old
    BY <2>a DEF AttRecords
  <2>2. r \in AttRecords /\ r.state # "none" /\ r.old = att[f].old
    BY <2>b, <2>c
  <2>3. att' = [att EXCEPT ![f] = r] /\ del' = [del EXCEPT ![d] = IdleDelete]
        /\ UNCHANGED <<disk, upload, retention, announced, faults>>
    BY <1>DeleteRow, <2>1 DEF DeleteRow, MediaOK
  <2>4. IdleDelete \in DelRecords /\ IdleDelete.pc = "idle"
    BY DEF IdleDelete, DelRecords
  <2> HIDE DEF f, r
  <2>5. QED
    BY <2>1, <2>2, <2>3, <2>4 DEF MediaOK
<1>RetentionStart. ASSUME RetentionStart PROVE MediaOK'
  <2>1. PICK batch \in SUBSET Expired : retention' = [pc |-> "next", todo |-> batch, f |-> None]
    BY <1>RetentionStart DEF RetentionStart
  <2>2. \A f \in batch : Known(f) /\ att[f].old
    BY DEF Expired, Live
  <2>3. retention' \in RetentionRecords /\ retention'.todo = batch /\ retention'.pc = "next"
    BY <2>1, <2>2 DEF RetentionRecords
  <2>4. UNCHANGED <<disk, att, upload, del, announced, faults>>
    BY <1>RetentionStart DEF RetentionStart
  <2>5. QED
    BY <2>2, <2>3, <2>4 DEF MediaOK
<1>RetentionUnlink. ASSUME RetentionUnlink PROVE MediaOK'
  <2>1. PICK f \in retention.todo :
          \/ /\ disk' = disk \ {f}
             /\ retention' = [pc |-> "mark", todo |-> retention.todo \ {f}, f |-> f]
             /\ UNCHANGED faults
          \/ /\ MediaFault("unlinkFails")
             /\ retention' = IF retention.todo \ {f} = {} THEN IdleRetention
                             ELSE [retention EXCEPT !.todo = retention.todo \ {f}]
             /\ UNCHANGED disk
    BY <1>RetentionUnlink DEF RetentionUnlink
  <2>2. UNCHANGED <<att, upload, del, announced>> /\ retention.pc = "next"
    BY <1>RetentionUnlink DEF RetentionUnlink
  <2>3. Known(f) /\ att[f].old /\ f \notin upload /\ retention \in RetentionRecords
    BY <1>1 DEF MediaOK
  <2>4. CASE disk' = disk \ {f} /\ retention' = [pc |-> "mark", todo |-> retention.todo \ {f}, f |-> f]
             /\ UNCHANGED faults
    <3>1. /\ retention' \in RetentionRecords /\ retention'.f = f /\ retention'.pc = "mark"
          /\ retention'.todo \subseteq retention.todo
      BY <2>3, <2>4 DEF RetentionRecords
    <3>2. QED
      BY <2>2, <2>3, <2>4, <3>1 DEF MediaOK
  <2>5. CASE /\ MediaFault("unlinkFails")
             /\ retention' = IF retention.todo \ {f} = {} THEN IdleRetention
                             ELSE [retention EXCEPT !.todo = retention.todo \ {f}]
             /\ UNCHANGED disk
    <3>1. faults' \in 0..MaxFaults
      BY <2>5 DEF MediaFault, MediaOK
    <3>2. /\ retention' \in RetentionRecords /\ retention'.pc \in {"idle", "next"}
          /\ retention'.todo \subseteq retention.todo
      BY <2>2, <2>3, <2>5 DEF RetentionRecords, IdleRetention
    <3>3. QED
      BY <2>2, <2>5, <3>1, <3>2 DEF MediaOK
  <2>6. QED
    BY <2>1, <2>4, <2>5
<1>RetentionMark. ASSUME RetentionMark PROVE MediaOK'
  <2> DEFINE f == retention.f
             r == [att[f] EXCEPT !.state = "marked"]
  <2>1. Known(f) /\ f \notin upload /\ retention \in RetentionRecords /\ att[f].old /\ retention.pc = "mark"
    BY <1>RetentionMark, <1>1 DEF RetentionMark, MediaOK
  <2>2. UNCHANGED <<disk, upload, del, announced, faults>>
    BY <1>RetentionMark DEF RetentionMark
  <2>a. att[f] \in AttRecords
    BY <2>1 DEF MediaOK
  <2>b. r \in AttRecords /\ r.state = "marked"
    BY <2>a DEF AttRecords
  <2>c. r.old = att[f].old
    BY <2>a DEF AttRecords
  <2>3. r \in AttRecords /\ r.state = "marked" /\ r.old = att[f].old
    BY <2>b, <2>c
  <2>4. CASE att' = [att EXCEPT ![f] = r] /\ retention' = [retention EXCEPT !.pc = "emit"]
    <3>1. retention' \in RetentionRecords /\ retention'.todo = retention.todo /\ retention'.f = f
      BY <2>1, <2>4 DEF RetentionRecords
    <3> HIDE DEF f, r
    <3>2. QED
      BY <2>1, <2>2, <2>3, <2>4, <3>1 DEF MediaOK
  <2>5. CASE retention' = NextFile /\ UNCHANGED att
    <3> HIDE DEF f, r
    <3>1. QED
      BY <2>1, <2>2, <2>5, NextFileType DEF MediaOK
  <2>6. QED
    BY <1>RetentionMark, <2>4, <2>5 DEF RetentionMark
<1>RetentionEmit. ASSUME RetentionEmit PROVE MediaOK'
  <2>1. retention \in RetentionRecords /\ retention.f \in Files
    BY <1>RetentionEmit DEF RetentionEmit, MediaOK
  <2>2. announced' \subseteq Files /\ faults' \in 0..MaxFaults
    BY <1>RetentionEmit, <2>1 DEF RetentionEmit, MediaFault, MediaOK
  <2>3. UNCHANGED <<disk, att, upload, del>> /\ retention' = NextFile
    BY <1>RetentionEmit DEF RetentionEmit
  <2>4. QED
    BY <2>1, <2>2, <2>3, NextFileType DEF MediaOK
<1>MediaWorkerCrash. ASSUME MediaWorkerCrash PROVE MediaOK'
  BY <1>MediaWorkerCrash DEF MediaWorkerCrash, MediaFault, IdleRetention, MediaOK,
     RetentionRecords
<1>QED. QED
  BY <1>WriteFile, <1>CreateRow, <1>Expire, <1>DeleteRead, <1>DeleteUnlink, <1>DeleteRow,
     <1>RetentionStart, <1>RetentionUnlink, <1>RetentionMark, <1>RetentionEmit,
     <1>MediaWorkerCrash DEF MediaNext, HandlersNext, RetentionNext, Upload, UploadRow,
     StoreFor, StoreForRow

\* Whatever uploads, deletions and the retention job do, a file that is offered
\* is there and a file that was marked is told of.
LEMMA RowsMatchFilesStep ==
  MediaOK /\ RowsMatchFiles /\ MediaNext => RowsMatchFiles'
<1> SUFFICES ASSUME MediaOK, RowsMatchFiles, MediaNext PROVE RowsMatchFiles'
  OBVIOUS
<1> USE DEF Known
<1>1. NoRow.state = "none"
  BY DEF NoRow
<1>2. ASSUME faults' > 0 PROVE RowsMatchFiles'
  BY <1>2 DEF RowsMatchFiles, OfferedIsThere, MarkedIsAnnounced
<1>WriteFile. ASSUME NEW f \in Files, WriteFile(f) PROVE RowsMatchFiles'
  BY <1>WriteFile DEF WriteFile, RowsMatchFiles, OfferedIsThere, MarkedIsAnnounced, Live,
     Following
<1>CreateRow. ASSUME NEW f \in Files, NEW m \in {None, Received}, CreateRow(f, m)
              PROVE  RowsMatchFiles'
  <2>1. f \in disk
    BY <1>CreateRow DEF CreateRow, MediaOK
  <2>2. att'[f].state = "live" /\ \A g \in Files \ {f} : att'[g] = att[g]
    BY <1>CreateRow DEF CreateRow, MediaOK
  <2>3. UNCHANGED <<disk, del, retention, announced, faults>>
    BY <1>CreateRow DEF CreateRow
  <2>4. QED
    BY <2>1, <2>2, <2>3 DEF RowsMatchFiles, OfferedIsThere, MarkedIsAnnounced, Live, Following
<1>Expire. ASSUME NEW f \in Files, Expire(f) PROVE RowsMatchFiles'
  <2>1. att'[f].state = att[f].state /\ \A g \in Files \ {f} : att'[g] = att[g]
    BY <1>Expire DEF Expire, MediaOK, AttRecords
  <2>2. UNCHANGED <<disk, del, retention, announced, faults>>
    BY <1>Expire DEF Expire
  <2>3. QED
    BY <2>1, <2>2 DEF RowsMatchFiles, OfferedIsThere, MarkedIsAnnounced, Live, Following
<1>DeleteRead. ASSUME NEW d \in Deletes, NEW f \in Files, DeleteRead(d, f) PROVE RowsMatchFiles'
  <2>1. del[d].pc = "idle" /\ \A e \in Deletes \ {d} : del'[e] = del[e]
    BY <1>DeleteRead DEF DeleteRead, MediaOK
  <2>2. UNCHANGED <<disk, att, retention, announced, faults>>
    BY <1>DeleteRead DEF DeleteRead
  <2>3. \A g \in Files : Following(g) => Following(g)'
    BY <2>1, <2>2 DEF Following
  <2>4. QED
    BY <2>2, <2>3 DEF RowsMatchFiles, OfferedIsThere, MarkedIsAnnounced, Live
<1>DeleteUnlink. ASSUME NEW d \in Deletes, DeleteUnlink(d) PROVE RowsMatchFiles'
  <2>1. del[d].pc = "unlink" /\ del'[d] = [pc |-> "row", f |-> del[d].f] /\ \A e \in Deletes \ {d} : del'[e] = del[e]
    BY <1>DeleteUnlink DEF DeleteUnlink, MediaOK, DelRecords
  <2>2. UNCHANGED <<att, retention, announced, faults>> /\ disk' = disk \ {del[d].f}
    BY <1>DeleteUnlink DEF DeleteUnlink
  <2>3. \A g \in Files : Following(g) => Following(g)'
    BY <2>1, <2>2 DEF Following
  <2>4. \A g \in Files : g = del[d].f => Following(g)'
    BY <2>1, <2>2 DEF Following
  <2>5. OfferedIsThere'
    BY <2>2, <2>3, <2>4 DEF RowsMatchFiles, OfferedIsThere, Live
  <2>6. MarkedIsAnnounced'
    BY <2>2 DEF RowsMatchFiles, MarkedIsAnnounced
  <2>7. QED
    BY <2>5, <2>6 DEF RowsMatchFiles
<1>DeleteRow. ASSUME NEW d \in Deletes, DeleteRow(d) PROVE RowsMatchFiles'
  <2>1. del[d].f \in Files /\ \A e \in Deletes \ {d} : del'[e] = del[e]
    BY <1>DeleteRow DEF DeleteRow, MediaOK
  <2>2. att'[del[d].f].state \notin {"live", "marked"} /\ \A g \in Files \ {del[d].f} : att'[g] = att[g]
    BY <1>DeleteRow, <2>1 DEF DeleteRow, MediaOK, AttRecords, RowExists
  <2>3. UNCHANGED <<disk, retention, announced, faults>>
    BY <1>DeleteRow DEF DeleteRow
  <2>4. \A g \in Files \ {del[d].f} : Following(g) => Following(g)'
    BY <2>1, <2>3 DEF Following
  <2>5. QED
    BY <2>2, <2>3, <2>4 DEF RowsMatchFiles, OfferedIsThere, MarkedIsAnnounced, Live
<1>RetentionStart. ASSUME RetentionStart PROVE RowsMatchFiles'
  BY <1>RetentionStart DEF RetentionStart, RowsMatchFiles, OfferedIsThere, MarkedIsAnnounced,
     Live, Following
<1>RetentionUnlink. ASSUME RetentionUnlink PROVE RowsMatchFiles'
  <2>1. PICK f \in retention.todo :
          \/ /\ disk' = disk \ {f}
             /\ retention' = [pc |-> "mark", todo |-> retention.todo \ {f}, f |-> f]
             /\ UNCHANGED faults
          \/ MediaFault("unlinkFails")
    BY <1>RetentionUnlink DEF RetentionUnlink
  <2>2. CASE MediaFault("unlinkFails")
    BY <1>2, <2>2 DEF MediaFault, MediaOK
  <2>3. CASE /\ disk' = disk \ {f}
             /\ retention' = [pc |-> "mark", todo |-> retention.todo \ {f}, f |-> f]
             /\ UNCHANGED faults
    <3>1. UNCHANGED <<att, del, announced>> /\ retention.pc = "next"
      BY <1>RetentionUnlink DEF RetentionUnlink
    <3>2. retention'.pc = "mark" /\ retention'.f = f
      BY <2>3
    <3>3. QED
      BY <2>3, <3>1, <3>2 DEF RowsMatchFiles, OfferedIsThere, MarkedIsAnnounced, Live, Following
  <2>4. QED
    BY <2>1, <2>2, <2>3
<1>RetentionMark. ASSUME RetentionMark PROVE RowsMatchFiles'
  <2> DEFINE f == retention.f
  <2>1. f \in Files /\ retention \in RetentionRecords /\ retention.pc = "mark"
    BY <1>RetentionMark DEF RetentionMark, MediaOK
  <2>2. UNCHANGED <<disk, del, announced, faults>>
    BY <1>RetentionMark DEF RetentionMark
  <2>3. CASE att' = [att EXCEPT ![f].state = "marked"] /\ retention' = [retention EXCEPT !.pc = "emit"]
    <3>1. att'[f].state = "marked" /\ \A g \in Files \ {f} : att'[g] = att[g]
      BY <2>1, <2>3 DEF MediaOK, AttRecords
    <3>2. retention'.pc = "emit" /\ retention'.f = f
      BY <2>1, <2>3 DEF RetentionRecords
    <3> HIDE DEF f
    <3>3. \A g \in Files \ {f} : Following(g) => Following(g)'
      BY <2>1, <2>2 DEF Following, f
    <3>4. QED
      BY <2>1, <2>2, <3>1, <3>2, <3>3 DEF RowsMatchFiles, OfferedIsThere,
         MarkedIsAnnounced, Live
  <2>4. CASE retention' = NextFile /\ UNCHANGED att /\ ~RowExists(f)
    <3>1. \A g \in Files \ {f} : Following(g) => Following(g)'
      BY <2>1, <2>2 DEF Following
    <3>2. QED
      BY <2>1, <2>2, <2>4, <3>1 DEF RowsMatchFiles, OfferedIsThere, MarkedIsAnnounced,
         Live, RowExists
  <2>5. QED
    BY <1>RetentionMark, <2>3, <2>4 DEF RetentionMark
<1>RetentionEmit. ASSUME RetentionEmit PROVE RowsMatchFiles'
  <2>1. CASE MediaFault("emitFails")
    BY <1>2, <2>1 DEF MediaFault, MediaOK
  <2>2. CASE announced' = announced \cup {retention.f} /\ UNCHANGED faults
    <3>1. UNCHANGED <<disk, att, del>> /\ retention.pc = "emit"
      BY <1>RetentionEmit DEF RetentionEmit
    <3>2. QED
      BY <2>2, <3>1 DEF RowsMatchFiles, OfferedIsThere, MarkedIsAnnounced, Live, Following
  <2>3. QED
    BY <1>RetentionEmit, <2>1, <2>2 DEF RetentionEmit
<1>MediaWorkerCrash. ASSUME MediaWorkerCrash PROVE RowsMatchFiles'
  BY <1>MediaWorkerCrash, <1>2 DEF MediaWorkerCrash, MediaFault, MediaOK
<1>QED. QED
  BY <1>WriteFile, <1>CreateRow, <1>Expire, <1>DeleteRead, <1>DeleteUnlink, <1>DeleteRow,
     <1>RetentionStart, <1>RetentionUnlink, <1>RetentionMark, <1>RetentionEmit,
     <1>MediaWorkerCrash DEF MediaNext, HandlersNext, RetentionNext, Upload, UploadRow,
     StoreFor, StoreForRow

-----------------------------------------------------------------------------
(* Requests: what the single steps do.                                       *)

\* A set of positions of a list has a first one.
LEMMA LeastIndex ==
  ASSUME NEW n \in Nat, NEW F, F \subseteq 1..n, F # {}
  PROVE  \E i \in F : \A j \in F : i <= j
<1> DEFINE Upto == {1..i : i \in F}
           R == StrictSubsetOrdering(1..n)
<1>1. IsFiniteSet(1..n)
  BY FS_Interval
<1>2. IsWellFoundedOn(R, SUBSET (1..n))
  BY <1>1, FS_StrictSubsetOrderingWellFounded, FS_FiniteSubsetsOfFinite
<1>3. Upto # {}
  OBVIOUS
<1>4. Upto \subseteq SUBSET (1..n)
  <2>1. ASSUME NEW i \in F PROVE 1..i \subseteq 1..n
    OBVIOUS
  <2>2. QED
    BY <2>1
<1>5. PICK U \in Upto : \A V \in Upto : ~(<<V, U>> \in R)
  <2> HIDE DEF Upto, R
  <2>1. QED
    BY <1>2, <1>3, <1>4, WFMin
<1>6. PICK i \in F : U = 1..i
  BY <1>5
<1>7. ASSUME NEW j \in F, j < i PROVE FALSE
  <2>1. 1..j \in Upto /\ 1..j \subseteq 1..i /\ i \in 1..i /\ i \notin 1..j
    BY <1>7
  <2>2. <<1..j, 1..i>> \in R
    BY <2>1, <1>4, <1>6 DEF StrictSubsetOrdering
  <2>3. QED
    BY <2>1, <2>2, <1>5, <1>6
<1>8. QED
  BY <1>6, <1>7

\* Whoever reaches the transaction finds an unused id.
LEMMA FreshExists ==
  ASSUME SendOK, NEW h \in Handlers, call[h].pc = "tx"
  PROVE  FreshId \in Messages /\ message[FreshId] = NoMessage
<1>1. h \in Pending
  BY DEF Pending
<1>2. IsFiniteSet(Taken) /\ IsFiniteSet(Pending) /\ count.requests \in 0..MaxRequests
      /\ Cardinality(Taken) + Cardinality(Pending) <= count.requests
  BY DEF SendOK, IdsLeft
<1>3. Cardinality(Taken) \in Nat /\ Cardinality(Pending) \in Nat /\ Cardinality(Pending) # 0
  BY <1>1, <1>2, FS_CardinalityType, FS_EmptySet
<1>4. Cardinality(Taken) < Cardinality(Messages) \/ Cardinality(Messages) \notin Int
  BY <1>2, <1>3
<1>5. Taken # Messages
  <2>1. SUFFICES ASSUME Taken = Messages PROVE FALSE
    OBVIOUS
  <2>2. Cardinality(Messages) = Cardinality(Taken)
    BY <2>1
  <2>3. QED
    BY <1>2, <1>3, <2>2
<1>6. PICK m \in Messages : message[m].state = "none"
  BY <1>5 DEF Taken
<1>7. message[m] = NoMessage
  BY <1>6 DEF SendOK, MessagesOK
<1>8. QED
  BY <1>7 DEF FreshId

\* A request that is refused or answered leaves its handler.
LEMMA RefuseEffect ==
  ASSUME CallsOK, NEW h \in Handlers, Refuse(h)
  PROVE  /\ call' \in [Handlers -> CallRecords] /\ call'[h].pc = "idle" /\ CallOK(h)'
         /\ \A g \in Handlers \ {h} : call'[g] = call[g]
<1>1. IdleCall \in CallRecords /\ IdleCall.pc = "idle"
  BY DEF IdleCall, CallRecords
<1>2. call' = [call EXCEPT ![h] = IdleCall] /\ call \in [Handlers -> CallRecords]
  BY DEF Refuse, CallsOK
<1>3. call' \in [Handlers -> CallRecords] /\ call'[h] = IdleCall /\ \A g \in Handlers \ {h} : call'[g] = call[g]
  BY <1>1, <1>2
<1>4. QED
  BY <1>1, <1>3 DEF CallOK

\* A new request knows its body and key.
LEMMA RequestEffect ==
  ASSUME CallsOK, NEW h \in Handlers, Request(h)
  PROVE  /\ call' \in [Handlers -> CallRecords] /\ call'[h].pc = "pick" /\ CallOK(h)'
         /\ \A g \in Handlers \ {h} : call'[g] = call[g]
<1>1. PICK k \in Keys \cup {None}, b \in Bodies :
        call' = [call EXCEPT ![h] = [IdleCall EXCEPT !.pc = "pick", !.key = k, !.body = b]]
  BY DEF Request
<1> DEFINE p == [IdleCall EXCEPT !.pc = "pick"]
           q == [p EXCEPT !.key = k]
           r == [q EXCEPT !.body = b]
<1>2. call' = [call EXCEPT ![h] = r] /\ call \in [Handlers -> CallRecords]
  BY <1>1 DEF CallsOK
<1>a. p \in CallRecords /\ p.pc = "pick"
  BY DEF CallRecords, IdleCall
<1> HIDE DEF p
<1>b. q \in CallRecords /\ q.pc = "pick"
  BY <1>a DEF CallRecords
<1> HIDE DEF q
<1>3. r \in CallRecords /\ r.pc = "pick" /\ r.body = b
  BY <1>b DEF CallRecords
<1> HIDE DEF r
<1>5. call' \in [Handlers -> CallRecords] /\ call'[h] = r /\ \A g \in Handlers \ {h} : call'[g] = call[g]
  BY <1>2, <1>3
<1>6. QED
  BY <1>3, <1>5 DEF CallOK

\* The endpoint picked is one of the list.
LEMMA PickEffect ==
  ASSUME CallsOK, NEW h \in Handlers, PickEndpoint(h)
  PROVE  /\ call' \in [Handlers -> CallRecords] /\ call'[h].pc \in {"idle", "atts", "look"} /\ CallOK(h)'
         /\ \A g \in Handlers \ {h} : call'[g] = call[g]
<1> DEFINE named == EndpointOf[call[h].body]
           fits == {i \in DOMAIN Lines : line[Lines[i]] = "on" /\ named \in {None, Lines[i]}}
           pc == IF call[h].key = None THEN "atts" ELSE "look"
           ep == Lines[CHOOSE i \in fits : \A j \in fits : i <= j]
           r == [call[h] EXCEPT !.pc = pc]
           q == [r EXCEPT !.ep = ep]
<1>1. CASE fits = {}
  BY <1>1, RefuseEffect DEF PickEndpoint
<1>2. CASE fits # {}
  <2>1. ep \in Endpoints
    <3>1. Len(Lines) \in Nat /\ fits \subseteq 1..Len(Lines)
      OBVIOUS
    <3>2. \E i \in fits : \A j \in fits : i <= j
      <4> HIDE DEF fits
      <4>1. QED
        BY <1>2, <3>1, LeastIndex
    <3>3. (CHOOSE i \in fits : \A j \in fits : i <= j) \in fits
      <4> HIDE DEF fits
      <4>1. QED
        BY <3>2
    <3>4. QED
      BY <3>3 DEF Endpoints
  <2>2. call' = [call EXCEPT ![h] = q]
    BY <1>2 DEF PickEndpoint, CallsOK
  <2>3. call[h] \in CallRecords /\ call[h].body \in Bodies
    BY DEF PickEndpoint, CallsOK, CallOK
  <2>4. pc \in {"atts", "look"} /\ (pc = "look" => call[h].key \in Keys)
    BY <2>3 DEF CallRecords
  <2> HIDE DEF pc, ep, fits, named
  <2>5. r \in CallRecords /\ r.pc = pc /\ r.key = call[h].key /\ r.body = call[h].body
    BY <2>3, <2>4 DEF CallRecords
  <2> HIDE DEF r
  <2>6. q \in CallRecords /\ q.pc = pc /\ q.key = call[h].key /\ q.body = call[h].body /\ q.ep = ep
    BY <2>1, <2>5 DEF CallRecords
  <2> HIDE DEF q
  <2>7. call' \in [Handlers -> CallRecords] /\ call'[h] = q /\ \A g \in Handlers \ {h} : call'[g] = call[g]
    BY <2>2, <2>6 DEF CallsOK
  <2>8. QED
    BY <2>1, <2>3, <2>4, <2>6, <2>7 DEF CallOK
<1>3. QED
  BY <1>1, <1>2

\* A step of the handler that only moves on.
LEMMA MoveEffect ==
  ASSUME CallsOK, NEW h \in Handlers, NEW to \in {"atts", "tx"}, call[h].pc \in {"look", "atts"},
         call' = [call EXCEPT ![h].pc = to]
  PROVE  /\ call' \in [Handlers -> CallRecords] /\ call'[h].pc = to /\ CallOK(h)'
         /\ \A g \in Handlers \ {h} : call'[g] = call[g]
<1> DEFINE r == [call[h] EXCEPT !.pc = to]
<1>1. call[h] \in CallRecords /\ call[h].body \in Bodies /\ call[h].ep \in Endpoints
  BY DEF CallsOK, CallOK
<1>2. r \in CallRecords /\ r.pc = to /\ r.body = call[h].body /\ r.ep = call[h].ep
  BY <1>1 DEF CallRecords
<1>3. call' = [call EXCEPT ![h] = r]
  OBVIOUS
<1> HIDE DEF r
<1>4. call' \in [Handlers -> CallRecords] /\ call'[h] = r /\ \A g \in Handlers \ {h} : call'[g] = call[g]
  BY <1>2, <1>3 DEF CallsOK
<1>5. QED
  BY <1>1, <1>2, <1>4 DEF CallOK

\* An answer is a handler that leaves and a message handed out.
LEMMA AnswerEffect ==
  ASSUME CallsOK, NEW h \in Handlers, NEW m, Answer(h, m)
  PROVE  /\ Refuse(h)
         /\ answered' = answered \cup {[key |-> call[h].key, body |-> call[h].body, msg |-> m]}
BY DEF Answer, Refuse

\* A key that names a message names the one made from the request it was used with.
LEMMA KnownKey ==
  ASSUME SendOK, NEW k \in Keys, idempotencyKey[k].ref # None
  PROVE  \E m \in Messages : KeyRow(k, m) /\ idempotencyKey[k].ref = m
<1>1. NoKey.ref = None
  BY DEF NoKey
<1>2. PICK m \in Messages : KeyRow(k, m)
  BY <1>1 DEF SendOK, KeysOK
<1>3. idempotencyKey[k].ref = m
  BY <1>2 DEF KeyRow
<1>4. QED
  BY <1>2, <1>3

\* The look-up goes on, refuses, or answers with the message of the same request.
LEMMA LookUpEffect ==
  ASSUME SendOK, NEW h \in Handlers, LookUpKey(h)
  PROVE  /\ call' \in [Handlers -> CallRecords] /\ call'[h].pc \in {"idle", "atts"} /\ CallOK(h)'
         /\ \A g \in Handlers \ {h} : call'[g] = call[g]
         /\ \/ answered' = answered
            \/ \E m : /\ MadeFrom(m, call[h].body)
                      /\ answered' = answered \cup {[key |-> call[h].key, body |-> call[h].body, msg |-> m]}
<1> DEFINE existing == idempotencyKey[call[h].key]
           hash == HashRequest(call[h].body, call[h].ep)
<1>1. call[h].pc = "look" /\ call[h].key \in Keys /\ CallsOK
  BY DEF LookUpKey, SendOK, CallsOK, CallOK
<1>2. CASE call' = [call EXCEPT ![h].pc = "atts"] /\ UNCHANGED answered
  BY <1>1, <1>2, MoveEffect
<1>3. CASE Refuse(h) /\ UNCHANGED answered
  BY <1>1, <1>3, RefuseEffect
<1>4. CASE existing.ref # None /\ existing.hash = hash /\ Answer(h, existing.ref)
  <2>1. PICK m \in Messages : KeyRow(call[h].key, m) /\ existing.ref = m
    BY <1>1, <1>4, KnownKey
  <2>2. HashRequest(message[m].body, message[m].ep) = hash
    BY <1>4, <2>1 DEF KeyRow
  <2>3. MadeFrom(m, call[h].body)
    BY <2>1, <2>2 DEF HashRequest, KeyRow, MadeFrom
  <2>4. QED
    BY <1>1, <1>4, <2>1, <2>3, AnswerEffect, RefuseEffect
<1>5. QED
  BY <1>2, <1>3, <1>4 DEF LookUpKey

\* What a committed transaction has done.
Committed(h, m) ==
  /\ line[call[h].ep] # "gone" /\ KeyMayBeMade(call[h].key)
  /\ message' = [message EXCEPT ![m] = [state |-> "queued", body |-> call[h].body, ep |-> call[h].ep,
                                        atts |-> AttOf[call[h].body]]]
  /\ att' = [f \in Files |-> IF f \in AttOf[call[h].body] /\ RowExists(f)
                             THEN [att[f] EXCEPT !.msg = m] ELSE att[f]]
  /\ idempotencyKey' = [k \in Keys |-> IF k = call[h].key
                        THEN [hash |-> HashRequest(call[h].body, call[h].ep), ref |-> m]
                        ELSE idempotencyKey[k]]
  /\ made' = [k \in Keys |-> IF k = call[h].key THEN made[k] \cup {m} ELSE made[k]]
  /\ call' = [call EXCEPT ![h].pc = "enqueue", ![h].msg = m]

\* The transaction commits under an unused id, or nothing of it does.
LEMMA CreateCases ==
  ASSUME SendOK, NEW h \in Handlers, CreateMessage(h)
  PROVE  /\ call[h].pc = "tx" /\ call[h].body \in Bodies /\ call[h].ep \in Endpoints
         /\ \/ Refuse(h) /\ UNCHANGED <<message, att, idempotencyKey, made>>
            \/ \E m \in Messages : message[m] = NoMessage /\ Committed(h, m)
<1>1. call[h].pc = "tx" /\ call[h].body \in Bodies /\ call[h].ep \in Endpoints
  BY DEF CreateMessage, SendOK, CallsOK, CallOK
<1>2. FreshId \in Messages /\ message[FreshId] = NoMessage
  BY <1>1, FreshExists
<1>3. \/ Refuse(h) /\ UNCHANGED <<message, att, idempotencyKey, made>>
      \/ Committed(h, FreshId)
  BY DEF CreateMessage, Committed
<1>4. QED
  BY <1>1, <1>2, <1>3

\* The message row that a committed transaction makes.
LEMMA CommitEffect ==
  ASSUME SendOK, NEW h \in Handlers, call[h].pc = "tx", call[h].body \in Bodies, call[h].ep \in Endpoints,
         NEW m \in Messages, message[m] = NoMessage, Committed(h, m)
  PROVE  /\ message' \in [Messages -> MessageRecords] /\ \A n \in Messages \ {m} : message'[n] = message[n]
         /\ message'[m].state = "queued" /\ message'[m].body = call[h].body /\ message'[m].ep = call[h].ep
         /\ call' \in [Handlers -> CallRecords] /\ call'[h].pc = "enqueue" /\ CallOK(h)'
         /\ \A g \in Handlers \ {h} : call'[g] = call[g]
<1> DEFINE r == [state |-> "queued", body |-> call[h].body, ep |-> call[h].ep, atts |-> AttOf[call[h].body]]
           p == [call[h] EXCEPT !.pc = "enqueue"]
           q == [p EXCEPT !.msg = m]
<1>1. r \in MessageRecords /\ r.state = "queued" /\ r.body = call[h].body /\ r.ep = call[h].ep
  BY DEF MessageRecords
<1>2. message' = [message EXCEPT ![m] = r] /\ message \in [Messages -> MessageRecords]
  BY DEF Committed, SendOK, MessagesOK
<1>3. call' = [call EXCEPT ![h] = q] /\ call \in [Handlers -> CallRecords]
  BY DEF Committed, SendOK, CallsOK
<1>4. p \in CallRecords /\ p.pc = "enqueue" /\ p.body = call[h].body /\ p.ep = call[h].ep
  BY <1>3 DEF CallRecords
<1> HIDE DEF p, r
<1>5. q \in CallRecords /\ q.pc = "enqueue" /\ q.body = call[h].body /\ q.ep = call[h].ep /\ q.msg = m
  BY <1>4 DEF CallRecords
<1> HIDE DEF q
<1>6. message' \in [Messages -> MessageRecords] /\ message'[m] = r /\ \A n \in Messages \ {m} : message'[n] = message[n]
  BY <1>1, <1>2
<1>7. call' \in [Handlers -> CallRecords] /\ call'[h] = q /\ \A g \in Handlers \ {h} : call'[g] = call[g]
  BY <1>3, <1>5
<1>8. CallOK(h)'
  BY <1>1, <1>5, <1>6, <1>7 DEF CallOK, MadeFrom
<1>9. QED
  BY <1>1, <1>5, <1>6, <1>7, <1>8

-----------------------------------------------------------------------------
(* Requests: the steps.                                                      *)

\* A step of uploads, deletions or the retention job.
Media == MediaNext /\ UNCHANGED Rest

\* What is dispatched or deleted with its endpoint stays a message of its request.
LEMMA DispatchEffect ==
  ASSUME SendOK, NEW m \in Messages, Dispatch(m)
  PROVE  /\ message' \in [Messages -> MessageRecords] /\ \A n \in Messages \ {m} : message'[n] = message[n]
         /\ message[m].state = "queued" /\ message'[m].state = "dispatched"
         /\ message'[m].body = message[m].body /\ message'[m].ep = message[m].ep
<1> DEFINE r == [message[m] EXCEPT !.state = "dispatched"]
<1>1. message \in [Messages -> MessageRecords]
  BY DEF SendOK, MessagesOK
<1>2. message' = [message EXCEPT ![m] = r] /\ message[m].state = "queued"
  BY DEF Dispatch
<1>3. r \in MessageRecords /\ r.state = "dispatched" /\ r.body = message[m].body /\ r.ep = message[m].ep
  BY <1>1 DEF MessageRecords
<1> HIDE DEF r
<1>4. QED
  BY <1>1, <1>2, <1>3

\* Deleting an endpoint takes its messages and no others.
LEMMA DeleteEndpointEffect ==
  ASSUME SendOK, NEW e \in Endpoints, DeleteEndpoint(e), NEW m \in Messages
  PROVE  /\ message'[m] \in MessageRecords
         /\ \/ /\ message[m].state \in {"queued", "dispatched"} /\ message[m].ep = e
               /\ message'[m].state = "gone"
            \/ /\ ~(message[m].state \in {"queued", "dispatched"} /\ message[m].ep = e)
               /\ message'[m] = message[m]
         /\ message'[m].body = message[m].body /\ message'[m].ep = message[m].ep
<1> DEFINE hit == message[m].state \in {"queued", "dispatched"} /\ message[m].ep = e
           r == [message[m] EXCEPT !.state = "gone"]
<1>1. message[m] \in MessageRecords
  BY DEF SendOK, MessagesOK
<1>2. message'[m] = IF hit THEN r ELSE message[m]
  BY DEF DeleteEndpoint
<1>3. r \in MessageRecords /\ r.state = "gone" /\ r.body = message[m].body /\ r.ep = message[m].ep
  BY <1>1 DEF MessageRecords
<1> HIDE DEF r
<1>4. QED
  BY <1>1, <1>2, <1>3

\* A message is never unmade and keeps the request it was made from.
MessagesKept == \A m, b : MadeFrom(m, b) => MadeFrom(m, b)'

\* No step unmakes a message.
LEMMA MessagesStay ==
  SendOK /\ Next => MessagesKept
<1> SUFFICES ASSUME SendOK, Next PROVE MessagesKept
  OBVIOUS
<1>1. ASSUME UNCHANGED message PROVE MessagesKept
  BY <1>1 DEF MessagesKept, MadeFrom
<1>CreateMessage. ASSUME NEW h \in Handlers, CreateMessage(h) PROVE MessagesKept
  <2>1. CASE UNCHANGED message
    BY <1>1, <2>1
  <2>2. CASE \E m \in Messages : message[m] = NoMessage /\ Committed(h, m)
    <3>1. PICK m \in Messages : message[m] = NoMessage /\ Committed(h, m)
      BY <2>2
    <3>2. message[m].state = "none"
      BY <3>1 DEF NoMessage
    <3>3. \A n \in Messages \ {m} : message'[n] = message[n]
      BY <1>CreateMessage, <3>1, CreateCases, CommitEffect
    <3>4. QED
      BY <3>2, <3>3 DEF MessagesKept, MadeFrom
  <2>3. QED
    BY <1>CreateMessage, <2>1, <2>2, CreateCases
<1>Dispatch. ASSUME NEW m \in Messages, Dispatch(m) PROVE MessagesKept
  BY <1>Dispatch, DispatchEffect DEF MessagesKept, MadeFrom
<1>DeleteEndpoint. ASSUME NEW e \in Endpoints, DeleteEndpoint(e) PROVE MessagesKept
  BY <1>DeleteEndpoint, DeleteEndpointEffect DEF MessagesKept, MadeFrom
<1>QED. QED
  BY <1>1, <1>CreateMessage, <1>Dispatch, <1>DeleteEndpoint DEF Next, SendNext, Media,
     Request, PickEndpoint, LookUpKey, CheckAttachments, Enqueue, ApiCrash, MediaApiCrash,
     ToggleEndpoint, Rest

\* A message that is queued or dispatched keeps an endpoint that exists.
LEMMA MessagesStep ==
  SendOK /\ Next => MessagesOK'
<1> SUFFICES ASSUME SendOK, Next PROVE MessagesOK'
  OBVIOUS
<1>1. ASSUME UNCHANGED <<line, message, sent>> PROVE MessagesOK'
  BY <1>1 DEF SendOK, MessagesOK
<1>CreateMessage. ASSUME NEW h \in Handlers, CreateMessage(h) PROVE MessagesOK'
  <2>1. CASE UNCHANGED message
    <3>1. UNCHANGED <<line, sent>>
      BY <1>CreateMessage DEF CreateMessage
    <3>2. QED
      BY <1>1, <2>1, <3>1
  <2>2. CASE \E m \in Messages : message[m] = NoMessage /\ Committed(h, m)
    <3>1. PICK m \in Messages : message[m] = NoMessage /\ Committed(h, m)
      BY <2>2
    <3>2. UNCHANGED <<line, sent>> /\ line[call[h].ep] # "gone"
      BY <1>CreateMessage, <3>1 DEF CreateMessage, Committed
    <3>3. QED
      BY <1>CreateMessage, <3>1, <3>2, CreateCases, CommitEffect DEF SendOK, MessagesOK
  <2>3. QED
    BY <1>CreateMessage, <2>1, <2>2, CreateCases
<1>Dispatch. ASSUME NEW m \in Messages, Dispatch(m) PROVE MessagesOK'
  <2>1. UNCHANGED line /\ sent' \in [Messages -> SUBSET Files]
    BY <1>Dispatch DEF Dispatch, LoadAttachments, SendOK, MessagesOK
  <2>2. /\ message' \in [Messages -> MessageRecords]
        /\ \A n \in Messages : \/ message'[n] = message[n]
                              \/ /\ message[n].state = "queued" /\ message'[n].state = "dispatched"
                                 /\ message'[n].ep = message[n].ep
    BY <1>Dispatch, DispatchEffect
  <2>3. QED
    BY <2>1, <2>2 DEF SendOK, MessagesOK
<1>ToggleEndpoint. ASSUME NEW e \in Endpoints, ToggleEndpoint(e) PROVE MessagesOK'
  BY <1>ToggleEndpoint DEF ToggleEndpoint, SendOK, MessagesOK
<1>DeleteEndpoint. ASSUME NEW e \in Endpoints, DeleteEndpoint(e) PROVE MessagesOK'
  <2>1. line' \in [Endpoints -> {"on", "off", "gone"}] /\ \A d \in Endpoints \ {e} : line'[d] = line[d]
    BY <1>DeleteEndpoint DEF DeleteEndpoint, SendOK, MessagesOK
  <2>2. message' \in [Messages -> MessageRecords]
    <3>1. message' = [m \in Messages |-> message'[m]]
      BY <1>DeleteEndpoint DEF DeleteEndpoint
    <3>2. \A m \in Messages : message'[m] \in MessageRecords
      BY <1>DeleteEndpoint, DeleteEndpointEffect
    <3>3. QED
      BY <3>1, <3>2
  <2>3. \A m \in Messages : message'[m].state = "none" => message'[m] = NoMessage
    BY <1>DeleteEndpoint, DeleteEndpointEffect DEF SendOK, MessagesOK
  <2>4. ASSUME NEW m \in Messages, message'[m].state \in {"queued", "dispatched"}
        PROVE  message'[m].ep \in Endpoints /\ line'[message'[m].ep] # "gone"
    <3>1. message'[m] = message[m] /\ message[m].ep # e
      BY <1>DeleteEndpoint, <2>4, DeleteEndpointEffect
    <3>2. QED
      BY <2>1, <2>4, <3>1 DEF SendOK, MessagesOK
  <2>5. sent' \in [Messages -> SUBSET Files]
    BY <1>DeleteEndpoint DEF DeleteEndpoint, SendOK, MessagesOK
  <2>6. QED
    BY <2>1, <2>2, <2>3, <2>4, <2>5 DEF MessagesOK
<1>QED. QED
  BY <1>1, <1>CreateMessage, <1>Dispatch, <1>ToggleEndpoint, <1>DeleteEndpoint DEF Next,
     SendNext, Media, Request, PickEndpoint, LookUpKey, CheckAttachments, Enqueue, ApiCrash,
     MediaApiCrash, Rest

\* A handler knows what its place in send needs: the endpoint, the key, the message.
LEMMA CallsStep ==
  SendOK /\ Next => CallsOK'
<1> SUFFICES ASSUME SendOK, Next PROVE CallsOK'
  OBVIOUS
<1> DEFINE Moved(h) == /\ call' \in [Handlers -> CallRecords] /\ CallOK(h)'
                       /\ \A g \in Handlers \ {h} : call'[g] = call[g]
<1>2. MessagesKept
  BY MessagesStay
<1>3. CallsOK
  BY DEF SendOK
<1>4. ASSUME NEW h \in Handlers, Moved(h) PROVE CallsOK'
  <2>1. ASSUME NEW g \in Handlers \ {h} PROVE CallOK(g)'
    BY <1>2, <1>3, <1>4 DEF CallsOK, CallOK, MessagesKept
  <2>2. QED
    BY <1>4, <2>1 DEF CallsOK
<1>1. ASSUME UNCHANGED <<call, message>> PROVE CallsOK'
  BY <1>1 DEF SendOK, CallsOK, CallOK, MadeFrom
<1>Request. ASSUME NEW h \in Handlers, Request(h) PROVE CallsOK'
  BY <1>Request, <1>3, <1>4, RequestEffect
<1>PickEndpoint. ASSUME NEW h \in Handlers, PickEndpoint(h) PROVE CallsOK'
  BY <1>PickEndpoint, <1>3, <1>4, PickEffect
<1>LookUpKey. ASSUME NEW h \in Handlers, LookUpKey(h) PROVE CallsOK'
  BY <1>LookUpKey, <1>4, LookUpEffect
<1>CheckAttachments. ASSUME NEW h \in Handlers, CheckAttachments(h) PROVE CallsOK'
  BY <1>CheckAttachments, <1>3, <1>4, MoveEffect, RefuseEffect DEF CheckAttachments
<1>CreateMessage. ASSUME NEW h \in Handlers, CreateMessage(h) PROVE CallsOK'
  BY <1>CreateMessage, <1>3, <1>4, CreateCases, CommitEffect, RefuseEffect
<1>Enqueue. ASSUME NEW h \in Handlers, Enqueue(h) PROVE CallsOK'
  BY <1>Enqueue, <1>3, <1>4, AnswerEffect, RefuseEffect DEF Enqueue
<1>ApiCrash. ASSUME ApiCrash PROVE CallsOK'
  <2>1. IdleCall \in CallRecords /\ IdleCall.pc = "idle"
    BY DEF IdleCall, CallRecords
  <2>2. call' = [h \in Handlers |-> IdleCall]
    BY <1>ApiCrash DEF ApiCrash
  <2>3. QED
    BY <2>1, <2>2 DEF CallsOK, CallOK
<1>Dispatch. ASSUME NEW m \in Messages, Dispatch(m) PROVE CallsOK'
  <2>1. UNCHANGED call
    BY <1>Dispatch DEF Dispatch
  <2>2. QED
    BY <1>2, <1>3, <2>1 DEF CallsOK, CallOK, MessagesKept
<1>DeleteEndpoint. ASSUME NEW e \in Endpoints, DeleteEndpoint(e) PROVE CallsOK'
  <2>1. UNCHANGED call
    BY <1>DeleteEndpoint DEF DeleteEndpoint
  <2>2. QED
    BY <1>2, <1>3, <2>1 DEF CallsOK, CallOK, MessagesKept
<1>QED. QED
  BY <1>1, <1>Request, <1>PickEndpoint, <1>LookUpKey, <1>CheckAttachments, <1>CreateMessage,
     <1>Enqueue, <1>ApiCrash, <1>Dispatch, <1>DeleteEndpoint DEF Next, SendNext, Media,
     ToggleEndpoint, Rest

\* A key is bound once, to one message and its request: the transaction takes a free key
\* only, and no other step writes the table.
LEMMA KeysStep ==
  SendOK /\ Next => KeysOK'
<1> SUFFICES ASSUME SendOK, Next PROVE KeysOK'
  OBVIOUS
<1>2. ASSUME NEW k \in Keys, NEW m \in Messages, KeyRow(k, m), message'[m].state # "none",
             message'[m].body = message[m].body, message'[m].ep = message[m].ep,
             idempotencyKey'[k] = idempotencyKey[k], made'[k] = made[k]
      PROVE  KeyRow(k, m)'
  BY <1>2 DEF KeyRow, HashRequest
<1>3. ASSUME UNCHANGED <<idempotencyKey, made>>,
             \A m \in Messages : message[m].state # "none" =>
               /\ message'[m].state # "none"
               /\ message'[m].body = message[m].body /\ message'[m].ep = message[m].ep
      PROVE  KeysOK'
  <2>1. ASSUME NEW k \in Keys
        PROVE  (idempotencyKey'[k] = NoKey /\ made'[k] = {}) \/ \E m \in Messages : KeyRow(k, m)'
    <3>1. ASSUME NEW m \in Messages, KeyRow(k, m) PROVE KeyRow(k, m)'
      <4>1. message[m].state # "none"
        BY <3>1 DEF KeyRow
      <4>2. QED
        BY <1>2, <1>3, <3>1, <4>1
    <3>2. QED
      BY <1>3, <3>1 DEF SendOK, KeysOK
  <2>2. QED
    BY <1>3, <2>1 DEF SendOK, KeysOK
<1>1. ASSUME UNCHANGED <<idempotencyKey, made, message>> PROVE KeysOK'
  BY <1>1 DEF SendOK, KeysOK, KeyRow
<1>CreateMessage. ASSUME NEW h \in Handlers, CreateMessage(h) PROVE KeysOK'
  <2>1. CASE UNCHANGED <<message, idempotencyKey, made>>
    BY <1>1, <2>1
  <2>2. CASE \E m \in Messages : message[m] = NoMessage /\ Committed(h, m)
    <3>1. PICK m \in Messages : message[m] = NoMessage /\ Committed(h, m)
      BY <2>2
    <3> DEFINE c == call[h]
               row == [hash |-> HashRequest(c.body, c.ep), ref |-> m]
    <3>2. /\ \A n \in Messages \ {m} : message'[n] = message[n]
          /\ message'[m].state = "queued" /\ message'[m].body = c.body /\ message'[m].ep = c.ep
          /\ c.body \in Bodies /\ c.ep \in Endpoints
      BY <1>CreateMessage, <3>1, CreateCases, CommitEffect
    <3>3. row \in KeyRecords
      BY <3>2 DEF KeyRecords, HashRequest
    <3>4. /\ idempotencyKey' = [k \in Keys |-> IF k = c.key THEN row ELSE idempotencyKey[k]]
          /\ made' = [k \in Keys |-> IF k = c.key THEN made[k] \cup {m} ELSE made[k]]
          /\ KeyMayBeMade(c.key)
      BY <3>1 DEF Committed
    <3>5. idempotencyKey' \in [Keys -> KeyRecords] /\ made' \in [Keys -> SUBSET Messages]
      <4> HIDE DEF row, c
      <4>1. QED
        BY <3>3, <3>4 DEF SendOK, KeysOK
    <3>6. message[m].state = "none"
      BY <3>1 DEF NoMessage
    <3>7. ASSUME NEW k \in Keys
          PROVE  (idempotencyKey'[k] = NoKey /\ made'[k] = {}) \/ \E n \in Messages : KeyRow(k, n)'
      <4>1. CASE k = c.key
        <5>1. idempotencyKey[k] = NoKey
          BY <3>4, <4>1 DEF KeyMayBeMade
        <5>2. made[k] = {}
          <6>1. ASSUME NEW n \in Messages, KeyRow(k, n) PROVE FALSE
            <7>1. idempotencyKey[k].ref = n
              BY <6>1 DEF KeyRow
            <7>2. idempotencyKey[k].ref = None
              BY <5>1 DEF NoKey
            <7>3. QED
              BY <7>1, <7>2
          <6>2. QED
            BY <6>1 DEF SendOK, KeysOK
        <5>3. idempotencyKey'[k] = row /\ made'[k] = {m}
          BY <3>4, <4>1, <5>2
        <5>4. KeyRow(k, m)'
          BY <3>2, <5>3 DEF KeyRow, HashRequest
        <5>5. QED
          BY <5>4
      <4>2. CASE k # c.key
        <5>1. idempotencyKey'[k] = idempotencyKey[k] /\ made'[k] = made[k]
          BY <3>4, <4>2
        <5>2. ASSUME NEW n \in Messages, KeyRow(k, n) PROVE KeyRow(k, n)'
          <6>1. n # m /\ message[n].state # "none"
            BY <3>6, <5>2 DEF KeyRow
          <6>2. QED
            BY <1>2, <3>2, <5>1, <5>2, <6>1
        <5>3. QED
          BY <5>1, <5>2 DEF SendOK, KeysOK
      <4>3. QED
        BY <4>1, <4>2
    <3>8. QED
      BY <3>5, <3>7 DEF KeysOK
  <2>3. QED
    BY <1>CreateMessage, <2>1, <2>2, CreateCases
<1>Dispatch. ASSUME NEW m \in Messages, Dispatch(m) PROVE KeysOK'
  <2>1. UNCHANGED <<idempotencyKey, made>>
    BY <1>Dispatch DEF Dispatch
  <2>2. QED
    BY <1>Dispatch, <1>3, <2>1, DispatchEffect
<1>DeleteEndpoint. ASSUME NEW e \in Endpoints, DeleteEndpoint(e) PROVE KeysOK'
  <2>1. UNCHANGED <<idempotencyKey, made>>
    BY <1>DeleteEndpoint DEF DeleteEndpoint
  <2>2. QED
    BY <1>DeleteEndpoint, <1>3, <2>1, DeleteEndpointEffect
<1>QED. QED
  BY <1>1, <1>CreateMessage, <1>Dispatch, <1>DeleteEndpoint DEF Next, SendNext, Media,
     Request, PickEndpoint, LookUpKey, CheckAttachments, Enqueue, ApiCrash, MediaApiCrash,
     ToggleEndpoint, Rest

\* Every answer given stays true of the message.
LEMMA AnswersStep ==
  SendOK /\ AnswersOK /\ Next => AnswersOK'
<1> SUFFICES ASSUME SendOK /\ AnswersOK, Next PROVE AnswersOK'
  OBVIOUS
<1>2. MessagesKept
  BY MessagesStay
<1>3. ASSUME answered' = answered PROVE AnswersOK'
  BY <1>2, <1>3 DEF AnswersOK, MessagesKept
<1>4. ASSUME NEW k, NEW b, NEW m, MadeFrom(m, b),
             answered' = answered \cup {[key |-> k, body |-> b, msg |-> m]}
      PROVE  AnswersOK'
  BY <1>2, <1>4 DEF AnswersOK, MessagesKept
<1>1. ASSUME UNCHANGED <<answered, message>> PROVE AnswersOK'
  BY <1>1 DEF AnswersOK, MadeFrom
<1>LookUpKey. ASSUME NEW h \in Handlers, LookUpKey(h) PROVE AnswersOK'
  BY <1>LookUpKey, <1>3, <1>4, LookUpEffect
<1>CreateMessage. ASSUME NEW h \in Handlers, CreateMessage(h) PROVE AnswersOK'
  BY <1>CreateMessage, <1>3 DEF CreateMessage
<1>Enqueue. ASSUME NEW h \in Handlers, Enqueue(h) PROVE AnswersOK'
  <2>1. MadeFrom(call[h].msg, call[h].body)
    BY <1>Enqueue DEF Enqueue, SendOK, CallsOK, CallOK
  <2>2. answered' = answered \cup {[key |-> call[h].key, body |-> call[h].body, msg |-> call[h].msg]}
    BY <1>Enqueue DEF Enqueue, Answer
  <2>3. QED
    BY <1>4, <2>1, <2>2
<1>Dispatch. ASSUME NEW m \in Messages, Dispatch(m) PROVE AnswersOK'
  BY <1>Dispatch, <1>3 DEF Dispatch
<1>DeleteEndpoint. ASSUME NEW e \in Endpoints, DeleteEndpoint(e) PROVE AnswersOK'
  BY <1>DeleteEndpoint, <1>3 DEF DeleteEndpoint
<1>QED. QED
  BY <1>1, <1>LookUpKey, <1>CreateMessage, <1>Enqueue, <1>Dispatch, <1>DeleteEndpoint DEF
     Next, SendNext, Media, Request, PickEndpoint, CheckAttachments, ApiCrash, MediaApiCrash,
     ToggleEndpoint, Rest

\* Every request uses up at most one id, and counts before it needs one.
LEMMA IdsStep ==
  SendOK /\ Next => IdsLeft'
<1> SUFFICES ASSUME SendOK, Next PROVE IdsLeft'
  OBVIOUS
<1>2. /\ count \in [requests : 0..MaxRequests, edits : 0..MaxEdits]
      /\ IsFiniteSet(Taken) /\ IsFiniteSet(Pending)
      /\ Cardinality(Taken) + Cardinality(Pending) <= count.requests
  BY DEF SendOK, IdsLeft
<1>3. ASSUME Taken' = Taken, Pending' \subseteq Pending,
             count' \in [requests : 0..MaxRequests, edits : 0..MaxEdits],
             count'.requests = count.requests
      PROVE  IdsLeft'
  <2>1. IsFiniteSet(Pending') /\ Cardinality(Pending') <= Cardinality(Pending)
    BY <1>2, <1>3, FS_Subset
  <2>2. Cardinality(Taken) \in Nat /\ Cardinality(Pending) \in Nat /\ Cardinality(Pending') \in Nat
    BY <1>2, <2>1, FS_CardinalityType
  <2>3. Cardinality(Taken) + Cardinality(Pending') <= count.requests
    BY <1>2, <2>1, <2>2
  <2>4. QED
    BY <1>2, <1>3, <2>1, <2>3 DEF IdsLeft
<1>4. ASSUME NEW h \in Handlers, call[h].pc \in {"pick", "look", "atts", "tx"},
             \A g \in Handlers \ {h} : call'[g] = call[g], UNCHANGED <<message, count>>
      PROVE  IdsLeft'
  <2>1. Taken' = Taken /\ Pending' \subseteq Pending
    BY <1>4 DEF Taken, Pending
  <2>2. QED
    BY <1>2, <1>3, <1>4, <2>1
<1>5. CallsOK
  BY DEF SendOK
<1>1. ASSUME UNCHANGED <<count, message, call>> PROVE IdsLeft'
  BY <1>1 DEF SendOK, IdsLeft, Taken, Pending
<1>Request. ASSUME NEW h \in Handlers, Request(h) PROVE IdsLeft'
  <2>1. Pending' = Pending \cup {h} /\ h \notin Pending
    BY <1>Request, <1>5, RequestEffect DEF Request, Pending
  <2>2. Taken' = Taken
    BY <1>Request DEF Request, Taken
  <2>3. IsFiniteSet(Pending') /\ Cardinality(Pending') = Cardinality(Pending) + 1
    BY <1>2, <2>1, FS_AddElement
  <2>4. /\ count' \in [requests : 0..MaxRequests, edits : 0..MaxEdits]
        /\ count'.requests = count.requests + 1
    BY <1>Request, <1>2 DEF Request, Use
  <2>5. Cardinality(Taken) \in Nat /\ Cardinality(Pending) \in Nat /\ count.requests \in Nat
    BY <1>2, FS_CardinalityType
  <2>6. Cardinality(Taken) + Cardinality(Pending') <= count'.requests
    BY <1>2, <2>3, <2>4, <2>5
  <2>7. QED
    BY <1>2, <2>2, <2>3, <2>4, <2>6 DEF IdsLeft
<1>PickEndpoint. ASSUME NEW h \in Handlers, PickEndpoint(h) PROVE IdsLeft'
  BY <1>PickEndpoint, <1>4, <1>5, PickEffect DEF PickEndpoint
<1>LookUpKey. ASSUME NEW h \in Handlers, LookUpKey(h) PROVE IdsLeft'
  BY <1>LookUpKey, <1>4, LookUpEffect DEF LookUpKey
<1>CheckAttachments. ASSUME NEW h \in Handlers, CheckAttachments(h) PROVE IdsLeft'
  BY <1>CheckAttachments, <1>4, <1>5, MoveEffect, RefuseEffect DEF CheckAttachments
<1>CreateMessage. ASSUME NEW h \in Handlers, CreateMessage(h) PROVE IdsLeft'
  <2>0. UNCHANGED count /\ call[h].pc = "tx"
    BY <1>CreateMessage DEF CreateMessage
  <2>1. CASE Refuse(h) /\ UNCHANGED message
    BY <1>4, <1>5, <2>0, <2>1, RefuseEffect
  <2>2. CASE \E m \in Messages : message[m] = NoMessage /\ Committed(h, m)
    <3>1. PICK m \in Messages : message[m] = NoMessage /\ Committed(h, m)
      BY <2>2
    <3>2. message[m].state = "none"
      BY <3>1 DEF NoMessage
    <3>3. /\ \A n \in Messages \ {m} : message'[n] = message[n]
          /\ message'[m].state = "queued" /\ call'[h].pc = "enqueue"
          /\ \A g \in Handlers \ {h} : call'[g] = call[g]
      BY <1>CreateMessage, <3>1, CreateCases, CommitEffect
    <3>4. Taken' = Taken \cup {m} /\ m \notin Taken
      BY <3>2, <3>3 DEF Taken
    <3>5. Pending' = Pending \ {h} /\ h \in Pending
      BY <2>0, <3>3 DEF Pending
    <3>6. IsFiniteSet(Taken') /\ Cardinality(Taken') = Cardinality(Taken) + 1
      BY <1>2, <3>4, FS_AddElement
    <3>7. IsFiniteSet(Pending') /\ Cardinality(Pending') = Cardinality(Pending) - 1
      BY <1>2, <3>5, FS_RemoveElement
    <3>8. Cardinality(Taken) \in Nat /\ Cardinality(Pending) \in Nat
      BY <1>2, FS_CardinalityType
    <3>9. Cardinality(Taken') + Cardinality(Pending') <= count.requests
      BY <1>2, <3>6, <3>7, <3>8
    <3>10. QED
      BY <1>2, <2>0, <3>6, <3>7, <3>9 DEF IdsLeft
  <2>3. QED
    BY <1>CreateMessage, <2>1, <2>2, CreateCases
<1>Enqueue. ASSUME NEW h \in Handlers, Enqueue(h) PROVE IdsLeft'
  <2>1. Pending' \subseteq Pending /\ Taken' = Taken /\ UNCHANGED count
    BY <1>Enqueue, <1>5, AnswerEffect, RefuseEffect DEF Enqueue, Pending, Taken
  <2>2. QED
    BY <1>2, <1>3, <2>1
<1>ApiCrash. ASSUME ApiCrash PROVE IdsLeft'
  <2>1. call' = [h \in Handlers |-> IdleCall] /\ UNCHANGED <<message, count>>
    BY <1>ApiCrash DEF ApiCrash
  <2>2. Pending' = {}
    BY <2>1 DEF Pending, IdleCall
  <2>3. Taken' = Taken
    BY <2>1 DEF Taken
  <2>4. QED
    BY <1>2, <1>3, <2>1, <2>2, <2>3
<1>Dispatch. ASSUME NEW m \in Messages, Dispatch(m) PROVE IdsLeft'
  <2>1. UNCHANGED <<call, count>>
    BY <1>Dispatch DEF Dispatch
  <2>2. Taken' = Taken
    BY <1>Dispatch, DispatchEffect DEF Taken
  <2>3. Pending' = Pending
    BY <2>1 DEF Pending
  <2>4. QED
    BY <1>2, <1>3, <2>1, <2>2, <2>3
<1>ToggleEndpoint. ASSUME NEW e \in Endpoints, ToggleEndpoint(e) PROVE IdsLeft'
  <2>1. UNCHANGED <<call, message>>
    BY <1>ToggleEndpoint DEF ToggleEndpoint
  <2>2. Taken' = Taken /\ Pending' = Pending
    BY <2>1 DEF Taken, Pending
  <2>3. /\ count' \in [requests : 0..MaxRequests, edits : 0..MaxEdits]
        /\ count'.requests = count.requests
    BY <1>ToggleEndpoint, <1>2 DEF ToggleEndpoint, Use
  <2>4. QED
    BY <1>3, <2>2, <2>3
<1>DeleteEndpoint. ASSUME NEW e \in Endpoints, DeleteEndpoint(e) PROVE IdsLeft'
  <2>1. UNCHANGED call
    BY <1>DeleteEndpoint DEF DeleteEndpoint
  <2>2. Taken' = Taken
    BY <1>DeleteEndpoint, DeleteEndpointEffect DEF Taken
  <2>3. Pending' = Pending
    BY <2>1 DEF Pending
  <2>4. /\ count' \in [requests : 0..MaxRequests, edits : 0..MaxEdits]
        /\ count'.requests = count.requests
    BY <1>DeleteEndpoint, <1>2 DEF DeleteEndpoint, Use
  <2>5. QED
    BY <1>3, <2>2, <2>3, <2>4
<1>QED. QED
  BY <1>1, <1>Request, <1>PickEndpoint, <1>LookUpKey, <1>CheckAttachments, <1>CreateMessage,
     <1>Enqueue, <1>ApiCrash, <1>Dispatch, <1>ToggleEndpoint, <1>DeleteEndpoint DEF Next,
     SendNext, Media, Rest

\* A file that has a row of a message had it before the step.
LEMMA MediaLinks ==
  ASSUME MediaOK, MediaNext, NEW f \in Files, RowExists(f)', att'[f].msg \in Messages
  PROVE  RowExists(f) /\ att'[f].msg = att[f].msg
<1>1. att \in [Files -> AttRecords]
  BY DEF MediaOK
<1>2. CASE UNCHANGED att
  BY <1>2 DEF RowExists
<1>3. ASSUME NEW g \in Files, NEW m \in {None, Received}, CreateRow(g, m)
      PROVE  RowExists(f) /\ att'[f].msg = att[f].msg
  <2>1. att'[g].msg = m /\ \A x \in Files \ {g} : att'[x] = att[x]
    BY <1>1, <1>3 DEF CreateRow
  <2>2. f # g
    BY <2>1
  <2>3. QED
    BY <2>1, <2>2 DEF RowExists
<1>4. ASSUME NEW g \in Files, NEW r, NEW s \in {"live", "marked", "gone"}, RowExists(g) \/ s = att[g].state,
             att' = [att EXCEPT ![g] = r], r.state = s, r.msg = att[g].msg
      PROVE  RowExists(f) /\ att'[f].msg = att[f].msg
  BY <1>1, <1>4 DEF RowExists
<1>5. ASSUME NEW g \in Files, Expire(g) PROVE RowExists(f) /\ att'[f].msg = att[f].msg
  <2> DEFINE r == [att[g] EXCEPT !.old = TRUE]
  <2>1. att' = [att EXCEPT ![g] = r] /\ att[g].state = "live"
    BY <1>5 DEF Expire, Live
  <2>2. r.state = att[g].state /\ r.msg = att[g].msg
    BY <1>1 DEF AttRecords
  <2> HIDE DEF r
  <2>3. QED
    BY <1>4, <2>1, <2>2
<1>6. ASSUME NEW d \in Deletes, DeleteRow(d) PROVE RowExists(f) /\ att'[f].msg = att[f].msg
  <2> DEFINE g == del[d].f
             r == [att[g] EXCEPT !.state = IF RowExists(g) THEN "gone" ELSE @]
  <2>1. Known(g)
    BY <1>6 DEF DeleteRow, MediaOK
  <2>2. att' = [att EXCEPT ![g] = r]
    BY <1>6, <1>1, <2>1 DEF DeleteRow, Known
  <2>3. r.state = (IF RowExists(g) THEN "gone" ELSE att[g].state) /\ r.msg = att[g].msg
    BY <1>1, <2>1 DEF AttRecords, Known
  <2>4. att[g].state \in {"live", "marked", "gone"} /\ g \in Files
    BY <1>1, <2>1 DEF AttRecords, Known
  <2> HIDE DEF r, g
  <2>5. QED
    BY <1>4, <2>2, <2>3, <2>4
<1>7. ASSUME RetentionMark, ~UNCHANGED att PROVE RowExists(f) /\ att'[f].msg = att[f].msg
  <2> DEFINE g == retention.f
             r == [att[g] EXCEPT !.state = "marked"]
  <2>1. Known(g)
    BY <1>7 DEF RetentionMark, MediaOK
  <2>2. att' = [att EXCEPT ![g] = r] /\ RowExists(g)
    BY <1>7 DEF RetentionMark
  <2>3. r.state = "marked" /\ r.msg = att[g].msg /\ g \in Files
    BY <1>1, <2>1 DEF AttRecords, Known
  <2> HIDE DEF r, g
  <2>4. QED
    BY <1>4, <2>2, <2>3
<1>8. QED
  BY <1>2, <1>3, <1>5, <1>6, <1>7 DEF MediaNext, HandlersNext, RetentionNext, Upload,
     UploadRow, StoreFor, StoreForRow, WriteFile, DeleteRead, DeleteUnlink, RetentionStart,
     RetentionUnlink, RetentionEmit, MediaWorkerCrash

\* What a send or a deletion of an endpoint may do to the attachments.
Steady ==
  /\ att' \in [Files -> AttRecords]
  /\ \A f \in Files :
       /\ att[f] = NoRow => att'[f] = NoRow
       /\ att'[f].old = att[f].old
       /\ att'[f].state = att[f].state \/ (att[f].state # "none" /\ att'[f].state = "gone")
  /\ UNCHANGED <<disk, upload, del, retention, announced, faults>>

\* The transaction moves attachments and changes nothing else of them.
LEMMA CommitAttachments ==
  ASSUME MediaOK, NEW h \in Handlers, NEW m \in Messages, Committed(h, m), NEW f \in Files
  PROVE  /\ att'[f] \in AttRecords /\ (att[f] = NoRow => att'[f] = NoRow)
         /\ att'[f].state = att[f].state /\ att'[f].old = att[f].old
         /\ att'[f] = att[f] \/ att'[f].msg = m
<1> DEFINE r == [att[f] EXCEPT !.msg = m]
           linked == f \in AttOf[call[h].body] /\ RowExists(f)
<1>1. att[f] \in AttRecords
  BY DEF MediaOK
<1>2. att'[f] = IF linked THEN r ELSE att[f]
  BY DEF Committed
<1>3. r \in AttRecords /\ r.msg = m /\ r.state = att[f].state
  BY <1>1 DEF AttRecords
<1>4. r.old = att[f].old
  BY <1>1 DEF AttRecords
<1>5. linked => att[f] # NoRow
  BY DEF RowExists, NoRow
<1> HIDE DEF r, linked
<1>6. QED
  BY <1>1, <1>2, <1>3, <1>4, <1>5

\* Deleting an endpoint deletes the attachment rows of its messages.
LEMMA DeletedAttachments ==
  ASSUME MediaOK, NEW e \in Endpoints, DeleteEndpoint(e), NEW f \in Files
  PROVE  /\ att'[f] \in AttRecords /\ (att[f] = NoRow => att'[f] = NoRow) /\ att'[f].old = att[f].old
         /\ \/ /\ att'[f] = att[f]
               /\ ~(/\ att[f].msg \in Messages
                    /\ message[att[f].msg].state \in {"queued", "dispatched"}
                    /\ message[att[f].msg].ep = e)
            \/ att[f].state # "none" /\ att'[f].state = "gone"
<1> DEFINE messages == {m \in Messages : message[m].state \in {"queued", "dispatched"} /\ message[m].ep = e}
           r == [att[f] EXCEPT !.state = "gone"]
<1>1. att[f] \in AttRecords
  BY DEF MediaOK
<1>2. att'[f] = IF att[f].msg \in messages THEN r ELSE att[f]
  BY DEF DeleteEndpoint, WithMessages
<1>3. r \in AttRecords /\ r.state = "gone"
  BY <1>1 DEF AttRecords
<1>4. r.old = att[f].old
  BY <1>1 DEF AttRecords
<1>5. att[f].msg \in messages => att[f].state # "none" /\ att[f] # NoRow
  BY DEF NoRow, MediaOK
<1> HIDE DEF r
<1>6. QED
  BY <1>1, <1>2, <1>3, <1>4, <1>5

\* Such a step keeps what holds of files and rows.
LEMMA SteadyKeeps ==
  ASSUME MediaOK, RowsMatchFiles, Steady
  PROVE  MediaOK' /\ RowsMatchFiles'
<1>1. \A f \in Files : Known(f) => Known(f)'
  BY DEF Known, Steady
<1>2. \A f \in Files : att'[f].old = att[f].old /\ (att[f] = NoRow => att'[f] = NoRow)
  BY DEF Steady
<1>3. att' \in [Files -> AttRecords] /\ UNCHANGED <<disk, upload, del, retention, announced, faults>>
  BY DEF Steady
<1>4. \A f \in Files : (Live(f)' => Live(f)) /\ (att'[f].state = "marked" => att[f].state = "marked")
  BY DEF Steady, Live
<1>5. \A d \in Deletes : del'[d].pc # "idle" => Known(del[d].f)'
  BY <1>1, <1>3 DEF MediaOK, Known
<1>6. \A f \in retention'.todo : Known(f)' /\ att'[f].old
  BY <1>1, <1>2, <1>3 DEF MediaOK, Known
<1>7. retention'.pc \in {"mark", "emit"} => Known(retention.f)' /\ att'[retention'.f].old
  BY <1>1, <1>2, <1>3 DEF MediaOK, Known
<1>8. \A f \in upload' : f \in disk' /\ att'[f] = NoRow
  BY <1>2, <1>3 DEF MediaOK
<1>a. \A f \in Files : att'[f].state = "none" => att'[f] = NoRow
  BY <1>2 DEF Steady, MediaOK
<1>9. MediaOK'
  BY <1>3, <1>5, <1>6, <1>7, <1>8, <1>a DEF MediaOK
<1>10. RowsMatchFiles'
  BY <1>3, <1>4 DEF RowsMatchFiles, OfferedIsThere, MarkedIsAnnounced, Following
<1>11. QED
  BY <1>9, <1>10

\* Every step keeps what holds of files and rows.
LEMMA AttachmentsStep ==
  MediaOK /\ RowsMatchFiles /\ SendOK /\ Next => (MediaOK /\ RowsMatchFiles)'
<1> SUFFICES ASSUME MediaOK /\ RowsMatchFiles /\ SendOK, Next PROVE (MediaOK /\ RowsMatchFiles)'
  OBVIOUS
<1>1. ASSUME UNCHANGED media PROVE (MediaOK /\ RowsMatchFiles)'
  BY <1>1 DEF media, MediaOK, Known, RowsMatchFiles, OfferedIsThere, MarkedIsAnnounced, Live,
     Following
<1>Request. ASSUME NEW h \in Handlers, Request(h) PROVE (MediaOK /\ RowsMatchFiles)'
  BY <1>Request, <1>1 DEF Request
<1>PickEndpoint. ASSUME NEW h \in Handlers, PickEndpoint(h) PROVE (MediaOK /\ RowsMatchFiles)'
  BY <1>PickEndpoint, <1>1 DEF PickEndpoint
<1>LookUpKey. ASSUME NEW h \in Handlers, LookUpKey(h) PROVE (MediaOK /\ RowsMatchFiles)'
  BY <1>LookUpKey, <1>1 DEF LookUpKey
<1>CheckAttachments. ASSUME NEW h \in Handlers, CheckAttachments(h)
                     PROVE  (MediaOK /\ RowsMatchFiles)'
  BY <1>CheckAttachments, <1>1 DEF CheckAttachments
<1>CreateMessage. ASSUME NEW h \in Handlers, CreateMessage(h) PROVE (MediaOK /\ RowsMatchFiles)'
  <2>1. UNCHANGED <<disk, upload, del, retention, announced, faults>>
    BY <1>CreateMessage DEF CreateMessage
  <2>2. CASE UNCHANGED att
    BY <1>1, <2>1, <2>2 DEF media
  <2>3. CASE \E m \in Messages : Committed(h, m)
    <3>1. PICK m \in Messages : Committed(h, m)
      BY <2>3
    <3>2. att' = [f \in Files |-> att'[f]]
      BY <3>1 DEF Committed
    <3>3. att' \in [Files -> AttRecords]
      BY <3>1, <3>2, CommitAttachments
    <3>a. \A f \in Files : (att[f] = NoRow => att'[f] = NoRow) /\ att'[f].old = att[f].old
      BY <3>1, CommitAttachments
    <3>b. \A f \in Files : att'[f].state = att[f].state
      BY <3>1, CommitAttachments
    <3>4. Steady
      BY <2>1, <3>3, <3>a, <3>b, Zenon DEF Steady
    <3>5. QED
      BY <3>4, SteadyKeeps
  <2>4. QED
    BY <1>CreateMessage, <2>2, <2>3, CreateCases
<1>Enqueue. ASSUME NEW h \in Handlers, Enqueue(h) PROVE (MediaOK /\ RowsMatchFiles)'
  BY <1>Enqueue, <1>1 DEF Enqueue
<1>ApiCrash. ASSUME ApiCrash PROVE (MediaOK /\ RowsMatchFiles)'
  <2>1. /\ faults' = faults + 1 /\ faults < MaxFaults /\ upload' = upload \cap Inbound
        /\ del' = [d \in Deletes |-> IdleDelete] /\ UNCHANGED <<disk, att, retention, announced>>
    BY <1>ApiCrash DEF ApiCrash, MediaApiCrash, MediaFault
  <2>2. IdleDelete \in DelRecords /\ IdleDelete.pc = "idle"
    BY DEF IdleDelete, DelRecords
  <2>3. MediaOK'
    BY <2>1, <2>2 DEF MediaOK, Known
  <2>4. faults' # 0
    BY <2>1 DEF MediaOK
  <2>5. RowsMatchFiles'
    BY <2>4 DEF RowsMatchFiles, OfferedIsThere, MarkedIsAnnounced
  <2>6. QED
    BY <2>3, <2>5
<1>Dispatch. ASSUME NEW m \in Messages, Dispatch(m) PROVE (MediaOK /\ RowsMatchFiles)'
  BY <1>Dispatch, <1>1 DEF Dispatch
<1>ToggleEndpoint. ASSUME NEW e \in Endpoints, ToggleEndpoint(e)
                   PROVE  (MediaOK /\ RowsMatchFiles)'
  BY <1>ToggleEndpoint, <1>1 DEF ToggleEndpoint
<1>DeleteEndpoint. ASSUME NEW e \in Endpoints, DeleteEndpoint(e)
                   PROVE  (MediaOK /\ RowsMatchFiles)'
  <2>1. UNCHANGED <<disk, upload, del, retention, announced, faults>>
    BY <1>DeleteEndpoint DEF DeleteEndpoint
  <2>2. att' = [f \in Files |-> att'[f]]
    BY <1>DeleteEndpoint DEF DeleteEndpoint
  <2>3. att' \in [Files -> AttRecords]
    BY <1>DeleteEndpoint, <2>2, DeletedAttachments
  <2>a. \A f \in Files : (att[f] = NoRow => att'[f] = NoRow) /\ att'[f].old = att[f].old
    BY <1>DeleteEndpoint, DeletedAttachments
  <2>b. ASSUME NEW f \in Files
        PROVE  att'[f].state = att[f].state \/ (att[f].state # "none" /\ att'[f].state = "gone")
    <3>1. att'[f] = att[f] \/ (att[f].state # "none" /\ att'[f].state = "gone")
      BY <1>DeleteEndpoint, DeletedAttachments
    <3>2. QED
      BY <3>1, Zenon
  <2>4. Steady
    BY <2>1, <2>3, <2>a, <2>b, Zenon DEF Steady
  <2>5. QED
    BY <2>4, SteadyKeeps
<1>Media. ASSUME Media PROVE (MediaOK /\ RowsMatchFiles)'
  BY <1>Media, MediaStep, RowsMatchFilesStep DEF Media
<1>QED. QED
  BY <1>Request, <1>PickEndpoint, <1>LookUpKey, <1>CheckAttachments, <1>CreateMessage,
     <1>Enqueue, <1>ApiCrash, <1>Dispatch, <1>ToggleEndpoint, <1>DeleteEndpoint, <1>Media DEF
     Next, SendNext, Media

\* Every step leaves an attachment with a message that exists, or with none.
LEMMA LinksStep ==
  MediaOK /\ SendOK /\ LinksOK /\ Next => LinksOK'
<1> SUFFICES ASSUME MediaOK /\ SendOK /\ LinksOK, Next PROVE LinksOK'
  OBVIOUS
<1>1. ASSUME UNCHANGED <<att, message>> PROVE LinksOK'
  BY <1>1 DEF LinksOK, RowExists
<1>CreateMessage. ASSUME NEW h \in Handlers, CreateMessage(h) PROVE LinksOK'
  <2>1. CASE UNCHANGED <<att, message>>
    BY <1>1, <2>1
  <2>2. CASE \E m \in Messages : message[m] = NoMessage /\ Committed(h, m)
    <3>1. PICK m \in Messages : message[m] = NoMessage /\ Committed(h, m)
      BY <2>2
    <3>2. message[m].state = "none"
      BY <3>1 DEF NoMessage
    <3>3. /\ \A n \in Messages \ {m} : message'[n] = message[n]
          /\ message'[m].state = "queued"
      BY <1>CreateMessage, <3>1, CreateCases, CommitEffect
    <3>4. \A f \in Files : att'[f] = att[f] \/ att'[f].msg = m
      BY <3>1, CommitAttachments
    <3>5. QED
      BY <3>2, <3>3, <3>4 DEF LinksOK, RowExists
  <2>3. QED
    BY <1>CreateMessage, <2>1, <2>2, CreateCases
<1>Dispatch. ASSUME NEW m \in Messages, Dispatch(m) PROVE LinksOK'
  <2>1. UNCHANGED att
    BY <1>Dispatch DEF Dispatch, media
  <2>2. QED
    BY <1>Dispatch, <2>1, DispatchEffect DEF LinksOK, RowExists
<1>DeleteEndpoint. ASSUME NEW e \in Endpoints, DeleteEndpoint(e) PROVE LinksOK'
  <2>1. ASSUME NEW f \in Files, RowExists(f)', att'[f].msg \in Messages
        PROVE  message'[att'[f].msg].state \in {"queued", "dispatched"}
    <3>1. /\ att'[f] = att[f]
          /\ ~(/\ message[att[f].msg].state \in {"queued", "dispatched"} /\ message[att[f].msg].ep = e)
      BY <1>DeleteEndpoint, <2>1, DeletedAttachments DEF RowExists
    <3>2. message[att[f].msg].state \in {"queued", "dispatched"}
      BY <2>1, <3>1 DEF LinksOK, RowExists
    <3>3. message'[att[f].msg] = message[att[f].msg]
      BY <1>DeleteEndpoint, <2>1, <3>1, DeleteEndpointEffect
    <3>4. QED
      BY <3>1, <3>2, <3>3
  <2>2. QED
    BY <2>1 DEF LinksOK
<1>Media. ASSUME Media PROVE LinksOK'
  <2>1. UNCHANGED message /\ MediaNext
    BY <1>Media DEF Media, Rest
  <2>2. QED
    BY <2>1, MediaLinks DEF LinksOK
<1>QED. QED
  BY <1>1, <1>CreateMessage, <1>Dispatch, <1>DeleteEndpoint, <1>Media DEF Next, SendNext,
     Media, Request, media, PickEndpoint, LookUpKey, CheckAttachments, Enqueue, ApiCrash,
     MediaApiCrash, ToggleEndpoint

-----------------------------------------------------------------------------
(* The theorems.                                                             *)

\* The empty database satisfies the invariant.
LEMMA InitIInv ==
  Init => IInv
<1> SUFFICES ASSUME Init PROVE IInv
  OBVIOUS
<1>1. /\ NoRow \in AttRecords /\ NoRow.state = "none"
      /\ IdleDelete \in DelRecords /\ IdleDelete.pc = "idle"
      /\ IdleRetention \in RetentionRecords /\ IdleRetention.pc = "idle" /\ IdleRetention.todo = {}
  BY DEF NoRow, AttRecords, IdleDelete, DelRecords, IdleRetention, RetentionRecords
<1>2. /\ NoMessage \in MessageRecords /\ NoMessage.state = "none"
      /\ IdleCall \in CallRecords /\ IdleCall.pc = "idle" /\ NoKey \in KeyRecords
  BY DEF NoMessage, MessageRecords, IdleCall, CallRecords, NoKey, KeyRecords
<1>3. MediaOK /\ RowsMatchFiles
  BY <1>1 DEF Init, MediaInit, MediaOK, RowsMatchFiles, OfferedIsThere, MarkedIsAnnounced, Live
<1>4. MessagesOK /\ CallsOK /\ KeysOK
  BY <1>2 DEF Init, MessagesOK, CallsOK, CallOK, KeysOK
<1>5. Taken = {} /\ Pending = {}
  BY <1>2 DEF Init, Taken, Pending
<1>6. IdsLeft
  BY <1>5, FS_EmptySet DEF Init, IdsLeft
<1>7. LinksOK /\ AnswersOK
  BY <1>1 DEF Init, MediaInit, LinksOK, AnswersOK, RowExists
<1>8. QED
  BY <1>3, <1>4, <1>6, <1>7 DEF IInv, SendOK

\* Every step keeps it.
LEMMA StepIInv ==
  IInv /\ [Next]_vars => IInv'
<1> SUFFICES ASSUME IInv, [Next]_vars PROVE IInv'
  OBVIOUS
<1>1. CASE Next
  <2>1. MediaOK' /\ RowsMatchFiles'
    BY <1>1, AttachmentsStep DEF IInv
  <2>2. SendOK'
    BY <1>1, MessagesStep, CallsStep, KeysStep, IdsStep DEF IInv, SendOK
  <2>3. LinksOK' /\ AnswersOK'
    BY <1>1, LinksStep, AnswersStep DEF IInv
  <2>4. QED
    BY <2>1, <2>2, <2>3 DEF IInv
<1>2. CASE UNCHANGED vars
  <2>1. MediaOK' /\ RowsMatchFiles'
    BY <1>2 DEF vars, media, IInv, MediaOK, Known, RowsMatchFiles, OfferedIsThere,
       MarkedIsAnnounced, Live, Following
  <2>2. MessagesOK' /\ CallsOK' /\ KeysOK' /\ IdsLeft'
    BY <1>2 DEF vars, IInv, SendOK, MessagesOK, CallsOK, CallOK, MadeFrom, KeysOK, KeyRow,
       IdsLeft, Taken, Pending
  <2>3. LinksOK' /\ AnswersOK'
    BY <1>2 DEF vars, media, IInv, LinksOK, RowExists, AnswersOK, MadeFrom
  <2>4. QED
    BY <2>1, <2>2, <2>3 DEF IInv, SendOK
<1>3. QED
  BY <1>1, <1>2

\* The invariant holds in every reachable state of requests, uploads, deletions,
\* retention runs and operators.
THEOREM Invariance == Spec => []IInv
BY InitIInv, StepIInv, PTL DEF Spec

\* The tables, files and requests have the values TypeOK lists.  It says more than
\* types: a message that is queued or dispatched has an endpoint that exists, and
\* an attachment a message that exists, as the foreign keys of the schema have it.
THEOREM TypeCorrect == Spec => []TypeOK
<1>1. IInv => TypeOK
  <2> SUFFICES ASSUME IInv PROVE TypeOK
    OBVIOUS
  <2>1. MediaOK => /\ disk \subseteq Files /\ upload \subseteq disk /\ announced \subseteq Files
                   /\ att \in [Files -> AttRecords] /\ del \in [Deletes -> DelRecords]
                   /\ retention.pc \in {"idle", "next", "mark", "emit"} /\ retention.todo \subseteq Files
    BY DEF MediaOK, RetentionRecords
  <2>2. MessagesOK => /\ line \in [Endpoints -> {"on", "off", "gone"}]
                      /\ \A m \in Messages :
                           /\ message[m].state \in {"none", "queued", "dispatched", "gone"}
                           /\ message[m].state \in {"queued", "dispatched"} => line[message[m].ep] # "gone"
    BY DEF MessagesOK, MessageRecords
  <2>3. QED
    BY <2>1, <2>2 DEF IInv, SendOK, CallsOK, KeysOK, LinksOK, TypeOK, AttRecords,
       DelRecords, CallRecords
<1>2. QED
  BY <1>1, Invariance, PTL

\* Whatever uploads, deletions, sends and retention runs overlap, without failures
\* a row that offers a file has it on the disk and every file the retention job
\* marked is announced (MediaService, MediaRetentionScheduler).
THEOREM RowsAndFilesAgree == Spec => []RowsMatchFiles
<1>1. IInv => RowsMatchFiles
  BY DEF IInv
<1>2. QED
  BY <1>1, Invariance, PTL

\* However many requests carry an Idempotency-Key and however they overlap, it
\* stands for one message, and whoever is answered with a message gets one made
\* from the very same request (MessagesService.send).
THEOREM KeysNameOneMessage == Spec => []KeyNamesOneMessage
<1>1. IInv => KeyNamesOneMessage
  <2> SUFFICES ASSUME IInv PROVE KeyNamesOneMessage
    OBVIOUS
  <2>1. ASSUME NEW k \in Keys PROVE Cardinality(made[k]) <= 1
    <3>1. made[k] = {} \/ \E m : made[k] = {m}
      BY DEF IInv, SendOK, KeysOK, KeyRow
    <3>2. Cardinality({}) = 0 /\ \A m : Cardinality({m}) = 1
      BY FS_EmptySet, FS_Singleton
    <3>3. Cardinality(made[k]) \in {0, 1}
      BY <3>1, <3>2, Zenon
    <3>4. QED
      BY <3>3
  <2>2. AnswersMatch
    BY DEF IInv, AnswersOK, MadeFrom, AnswersMatch
  <2>3. QED
    BY <2>1, <2>2 DEF KeyNamesOneMessage, OneMessagePerKey
<1>2. QED
  BY <1>1, Invariance, PTL

\* The worker hands a message over with every file it named, unless that expired,
\* was deleted, went to a later message, or something failed (loadAttachments).
THEOREM MessagesGoOutWhole == Spec => GoesOutWhole
<1> DEFINE Whole == \A m \in Messages :
       message[m].state = "queued" /\ message'[m].state = "dispatched" =>
         \A f \in message[m].atts :
           \/ f \in sent'[m]
           \/ ~Live(f) \/ att[f].old
           \/ att[f].msg # m
           \/ \E d \in Deletes : del[d].f = f
           \/ faults > 0
<1>1. IInv /\ [Next]_vars => [Whole]_vars
  <2> SUFFICES ASSUME IInv, Next, NEW m \in Messages,
                      message[m].state = "queued", message'[m].state = "dispatched",
                      NEW f \in message[m].atts, Live(f), ~att[f].old, att[f].msg = m,
                      ~\E d \in Deletes : del[d].f = f, ~(faults > 0)
               PROVE  f \in sent'[m]
    OBVIOUS
  <2>1. f \in Files /\ faults = 0
    BY DEF IInv, SendOK, MessagesOK, MessageRecords, MediaOK
  <2>2. f \in disk
    <3>1. ~Following(f)
      BY <2>1 DEF IInv, MediaOK, Following
    <3>2. QED
      BY <2>1, <3>1 DEF IInv, RowsMatchFiles, OfferedIsThere
  <2>3. Dispatch(m)
    <3>0. SendOK
      BY DEF IInv
    <3>1. CASE UNCHANGED message
      BY <3>1
    <3>2. ASSUME NEW h \in Handlers, CreateMessage(h), ~UNCHANGED message PROVE FALSE
      <4>1. PICK n \in Messages : message[n] = NoMessage /\ Committed(h, n)
        BY <3>0, <3>2, CreateCases
      <4>2. message[n].state = "none"
        BY <4>1 DEF NoMessage
      <4>3. m # n /\ message'[m] = message[m]
        BY <3>0, <3>2, <4>1, <4>2, CreateCases, CommitEffect
      <4>4. QED
        BY <4>3
    <3>3. ASSUME NEW n \in Messages, Dispatch(n) PROVE n = m
      BY <3>0, <3>3, DispatchEffect
    <3>4. ASSUME NEW e \in Endpoints, DeleteEndpoint(e) PROVE FALSE
      BY <3>0, <3>4, DeleteEndpointEffect
    <3>5. QED
      BY <3>1, <3>2, <3>3, <3>4 DEF Next, SendNext, Request, PickEndpoint, LookUpKey,
         CheckAttachments, Enqueue, ApiCrash, ToggleEndpoint, Rest
  <2>4. sent'[m] = LoadAttachments(m)
    BY <2>3 DEF Dispatch, IInv, SendOK, MessagesOK
  <2>5. QED
    BY <2>1, <2>2, <2>4 DEF LoadAttachments
<1>2. QED
  BY <1>1, Invariance, PTL DEF Spec, GoesOutWhole
=============================================================================
