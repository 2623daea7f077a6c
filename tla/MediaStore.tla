----------------------------- MODULE MediaStore -----------------------------
(***************************************************************************)
(* Files of messages: upload and delete of MediaService, InboundMedia-     *)
(* Service, which keeps what came with a received message, and the daily   *)
(* MediaRetentionScheduler.  The disk and the attachments table are        *)
(* changed in separate steps, in this order by everyone: a file is written *)
(* before its row and removed before it.                                   *)
(***************************************************************************)
EXTENDS Integers, FiniteSets

CONSTANTS
  Files,        \* attachment ids, each with its file
  Inbound,      \* the ones that came with received messages
  Deletes,      \* delete handlers that can run at once
  None,         \* no message, file or key
  Received,     \* the received message those belong to
  BATCH_LIMIT,  \* rows a run of the retention job takes
  MediaFaults,  \* kinds of failure that may happen
  MaxFaults     \* bound: failures

ASSUME MediaAssumption ==
  /\ BATCH_LIMIT \in Nat \ {0} /\ MaxFaults \in Nat
  /\ Inbound \subseteq Files /\ None # Received
  /\ MediaFaults \subseteq {"apiCrash", "workerCrash", "unlinkFails", "emitFails"}

VARIABLES
  disk,       \* files on the disk
  att,        \* rows of the attachments table
  upload,     \* uploads and fetches: the file is written, the row is not
  del,        \* delete handlers
  retention,  \* the retention job
  announced,  \* files that media.deleted was emitted for
  faults      \* failures so far

media == <<disk, att, upload, del, retention, announced, faults>>

NoRow == [state |-> "none", msg |-> None, old |-> FALSE]
IdleDelete == [pc |-> "idle", f |-> None]
IdleRetention == [pc |-> "idle", todo |-> {}, f |-> None]
Live(f) == att[f].state = "live"
RowExists(f) == att[f].state \in {"live", "marked"}

MediaInit ==
  /\ disk = {}
  /\ att = [f \in Files |-> NoRow]
  /\ upload = {}
  /\ del = [d \in Deletes |-> IdleDelete]
  /\ retention = IdleRetention
  /\ announced = {}
  /\ faults = 0

MediaFault(kind) == kind \in MediaFaults /\ faults < MaxFaults /\ faults' = faults + 1

-----------------------------------------------------------------------------
(* upload; storeFor and persist for a received message.                      *)

WriteFile(f) ==
  /\ att[f] = NoRow /\ f \notin disk
  /\ disk' = disk \cup {f}
  /\ upload' = upload \cup {f}
  /\ UNCHANGED <<att, del, retention, announced, faults>>

CreateRow(f, msg) ==
  /\ f \in upload
  /\ att' = [att EXCEPT ![f] = [state |-> "live", msg |-> msg, old |-> FALSE]]
  /\ upload' = upload \ {f}
  /\ UNCHANGED <<disk, del, retention, announced, faults>>

Upload(f) == f \notin Inbound /\ WriteFile(f)
UploadRow(f) == f \notin Inbound /\ CreateRow(f, None)

\* A fetch that fails is skipped: then nothing happens at all.
StoreFor(f) == f \in Inbound /\ WriteFile(f)
StoreForRow(f) == f \in Inbound /\ CreateRow(f, Received)

-----------------------------------------------------------------------------
(* delete.                                                                   *)

\* 404 without a row, 409 when it belongs to a message.
DeleteRead(d, f) ==
  /\ del[d].pc = "idle"
  /\ RowExists(f) /\ att[f].msg = None
  /\ del' = [del EXCEPT ![d] = [pc |-> "unlink", f |-> f]]
  /\ UNCHANGED <<disk, att, upload, retention, announced, faults>>

\* A file that is not there any more is fine.
DeleteUnlink(d) ==
  /\ del[d].pc = "unlink"
  /\ disk' = disk \ {del[d].f}
  /\ del' = [del EXCEPT ![d].pc = "row"]
  /\ UNCHANGED <<att, upload, retention, announced, faults>>

\* Mutant: the row is only marked as deleted if no message has it.
DeleteRowUnlinked(d) ==
  /\ del[d].pc = "row"
  /\ LET f == del[d].f
     IN  att' = [att EXCEPT ![f].state = IF RowExists(f) /\ att[f].msg = None THEN "gone" ELSE @]
  /\ del' = [del EXCEPT ![d] = IdleDelete]
  /\ UNCHANGED <<disk, upload, retention, announced, faults>>

\* Deletes the row whoever has it by now.
DeleteRow(d) ==
  /\ del[d].pc = "row"
  /\ LET f == del[d].f
     IN  att' = [att EXCEPT ![f].state = IF RowExists(f) THEN "gone" ELSE @]
  /\ del' = [del EXCEPT ![d] = IdleDelete]
  /\ UNCHANGED <<disk, upload, retention, announced, faults>>

-----------------------------------------------------------------------------
(* cleanupExpiredMedia, once a day.                                          *)

\* The retention window of the row passes.
Expire(f) ==
  /\ Live(f) /\ ~att[f].old
  /\ att' = [att EXCEPT ![f].old = TRUE]
  /\ UNCHANGED <<disk, upload, del, retention, announced, faults>>

\* Mutants: files of every age; rows whose file is there.
ExpiredAnyAge == {f \in Files : Live(f)}
ExpiredOnDisk == {f \in disk : Live(f) /\ att[f].old}

\* What findMany returns.
Expired == {f \in Files : Live(f) /\ att[f].old}

RetentionStart ==
  /\ retention.pc = "idle" /\ Expired # {}
  /\ \E batch \in SUBSET Expired :
       /\ Cardinality(batch) = IF Cardinality(Expired) < BATCH_LIMIT
                               THEN Cardinality(Expired) ELSE BATCH_LIMIT
       /\ retention' = [pc |-> "next", todo |-> batch, f |-> None]
  /\ UNCHANGED <<disk, att, upload, del, announced, faults>>

\* What becomes of the job after a file.
NextFile == IF retention.todo = {} THEN IdleRetention ELSE [retention EXCEPT !.pc = "next", !.f = None]

\* deleteFile; when it throws, the file waits for another day.
RetentionUnlink ==
  /\ retention.pc = "next"
  /\ \E f \in retention.todo :
       LET rest == retention.todo \ {f}
       IN  \/ /\ disk' = disk \ {f}
              /\ retention' = [pc |-> "mark", todo |-> rest, f |-> f]
              /\ UNCHANGED faults
           \/ /\ MediaFault("unlinkFails")
              /\ retention' = IF rest = {} THEN IdleRetention ELSE [retention EXCEPT !.todo = rest]
              /\ UNCHANGED disk
  /\ UNCHANGED <<att, upload, del, announced>>

\* Mutant: only what belongs to a message is announced.
RetentionMarkSilent ==
  /\ retention.pc = "mark"
  /\ LET f == retention.f
     IN  \/ /\ RowExists(f)
            /\ att' = [att EXCEPT ![f].state = "marked"]
            /\ retention' = IF att[f].msg = None THEN NextFile ELSE [retention EXCEPT !.pc = "emit"]
         \/ ~RowExists(f) /\ retention' = NextFile /\ UNCHANGED att
  /\ UNCHANGED <<disk, upload, del, announced, faults>>

\* Sets deletedAt; throws when the row was deleted meanwhile.
RetentionMark ==
  /\ retention.pc = "mark"
  /\ LET f == retention.f
     IN  \/ /\ RowExists(f)
            /\ att' = [att EXCEPT ![f].state = "marked"]
            /\ retention' = [retention EXCEPT !.pc = "emit"]
         \/ ~RowExists(f) /\ retention' = NextFile /\ UNCHANGED att
  /\ UNCHANGED <<disk, upload, del, announced, faults>>

RetentionEmit ==
  /\ retention.pc = "emit"
  /\ \/ announced' = announced \cup {retention.f} /\ UNCHANGED faults
     \/ MediaFault("emitFails") /\ UNCHANGED announced
  /\ retention' = NextFile
  /\ UNCHANGED <<disk, att, upload, del>>

-----------------------------------------------------------------------------
(* A process dies.                                                           *)

MediaApiCrash ==
  /\ upload' = upload \cap Inbound
  /\ del' = [d \in Deletes |-> IdleDelete]
  /\ UNCHANGED <<disk, att, retention, announced>>

MediaWorkerCrash ==
  /\ MediaFault("workerCrash")
  /\ upload \cap Inbound # {} \/ retention # IdleRetention
  /\ upload' = upload \ Inbound
  /\ retention' = IdleRetention
  /\ UNCHANGED <<disk, att, del, announced>>

HandlersNext ==
  \/ \E f \in Files : UploadRow(f) \/ StoreForRow(f)
  \/ \E d \in Deletes : DeleteUnlink(d) \/ DeleteRow(d)

RetentionNext == RetentionStart \/ RetentionUnlink \/ RetentionMark \/ RetentionEmit

MediaNext ==
  \/ \E f \in Files : Upload(f) \/ StoreFor(f) \/ Expire(f)
  \/ \E d \in Deletes, f \in Files : DeleteRead(d, f)
  \/ HandlersNext \/ RetentionNext
  \/ MediaWorkerCrash

-----------------------------------------------------------------------------
\* Whoever is about to take the row after its file.
Following(f) ==
  \/ \E d \in Deletes : del[d] = [pc |-> "row", f |-> f]
  \/ retention.pc = "mark" /\ retention.f = f

\* A row that offers a file has it, unless somebody is just removing both or a
\* process died in between (upload, delete, cleanupExpiredMedia).
OfferedIsThere ==
  faults = 0 => \A f \in Files : Live(f) => f \in disk \/ Following(f)

\* media.deleted is emitted for every file the retention job has marked, unless
\* emit failed or the worker died: it is never made up for.
MarkedIsAnnounced ==
  faults = 0 =>
    \A f \in Files : att[f].state = "marked" =>
      f \in announced \/ (retention.pc = "emit" /\ retention.f = f)

\* A row whose file is gone does not offer it for ever: what a crash has cut off,
\* the retention job finishes.
RowsFollow == \A f \in Files : (Live(f) /\ f \notin disk) ~> ~Live(f)

\* Without failures rows, files and media.deleted agree, whatever uploads,
\* deletions, sends and the retention job overlap.
RowsMatchFiles == OfferedIsThere /\ MarkedIsAnnounced
=============================================================================
