----------------------------- MODULE SmsConcat -----------------------------
(***************************************************************************)
(* Long SMS come in as separate segments, without numbers and in any       *)
(* order: bufferIfPart holds them back, flushSmsParts and storeParts, on   *)
(* the timer of SmsConcatScheduler, make messages of them.  One endpoint   *)
(* and one sender.  persist is one step here; InboundIngest opens it up.   *)
(*                                                                         *)
(* The age of a buffered row is "new", "quiet" (CONCAT_QUIET_MS have       *)
(* passed) or "old" (CONCAT_MAX_MS have).                                  *)
(***************************************************************************)
EXTENDS SmsText

CONSTANTS
  Scenes,      \* sets of webhooks the gateway posts, each a segment or several glued:
               \* id, text as posted (came) and as repaired (text), the SMS it is of
  Flushes,     \* ticks of the scheduler that could run at once
  MaxRepeats,  \* bound: webhooks that are posted again
  Faults,      \* kinds of failure that may happen
  MaxFaults    \* bound: failures

ASSUME ConcatAssumption ==
  /\ {MaxRepeats, MaxFaults} \subseteq Nat
  /\ Faults \subseteq {"persistFails", "workerCrash", "endpointGone"}
  /\ \A scene \in Scenes : \A v, w \in scene :
       /\ w.came \in Seq(Characters)
       /\ w = [id |-> w.id, text |-> w.came, came |-> w.came, of |-> w.of]
       /\ v.id = w.id => v = w

VARIABLES
  net,       \* webhooks to be processed, oldest anywhere
  arriving,  \* the ingest job being processed
  buffer,    \* SmsPartBuffer, in the order of arrival
  flush,     \* ticks of the scheduler
  running,   \* its flag
  rows,      \* messages stored
  endpoint,  \* the endpoint still exists
  serial,    \* rows of the buffer so far
  taken,     \* history: webhooks whose job has ended while the endpoint existed
  repeated,  \* history: webhooks posted again
  faults     \* failures so far

vars == <<net, arriving, buffer, flush, running, rows, endpoint, serial, taken, repeated, faults>>

NoJob == [pc |-> "idle", w |-> [id |-> 0, text |-> <<>>, came |-> <<>>, of |-> <<>>]]
NoFlush == [pc |-> "idle", parts |-> <<>>, todo |-> <<>>]

\* The type invariant.
TypeOK ==
  /\ arriving.pc \in {"idle", "read", "create", "store"}
  /\ \A i \in DOMAIN buffer : buffer[i].age \in {"new", "quiet", "old"} /\ buffer[i].row \in 1..serial
  /\ \A i, j \in DOMAIN buffer : i < j => buffer[i].row < buffer[j].row
  /\ \A i, j \in DOMAIN buffer : buffer[i].text = buffer[j].text => i = j
  /\ \A f \in Flushes : flush[f].pc \in {"idle", "store", "delete"}
  /\ \A r, q \in rows : r.id = q.id /\ r.concat = q.concat => r = q
  /\ {endpoint, running} \subseteq BOOLEAN
  /\ faults \in 0..MaxFaults

Init ==
  /\ net \in Scenes
  /\ arriving = NoJob
  /\ buffer = <<>> /\ serial = 0
  /\ flush = [f \in Flushes |-> NoFlush]
  /\ running = FALSE
  /\ rows = {}
  /\ endpoint = TRUE
  /\ taken = {} /\ repeated = {}
  /\ faults = 0

Fault(kind) == kind \in Faults /\ faults < MaxFaults /\ faults' = faults + 1

\* persist: an external id is stored once.  That of a set starts with "concat:".
Persisted(m) ==
  IF \E r \in rows : r.id = m.id /\ r.concat = m.concat THEN rows ELSE rows \cup {m}

Single(w) == [id |-> {w.id}, concat |-> FALSE, parts |-> <<w>>]

-----------------------------------------------------------------------------
(* bufferIfPart, in an ingest job.                                           *)

Repaired(w) == [w EXCEPT !.text = repairGluedParts(w.came)]

\* The job ends.
Done(w) ==
  /\ arriving' = NoJob
  /\ taken' = IF endpoint THEN taken \cup {w} ELSE taken

\* The next job starts; a vendor that gets no answer posts again.
Arrive(w) ==
  /\ arriving.pc = "idle"
  /\ \/ net' = net \ {w} /\ UNCHANGED repeated
     \/ /\ Cardinality(repeated) < MaxRepeats
        /\ repeated' = repeated \cup {w.id}
        /\ UNCHANGED net
  /\ arriving' = [pc |-> "read", w |-> Repaired(w)]
  /\ UNCHANGED <<buffer, flush, running, rows, endpoint, serial, taken, faults>>

Waits(text) == \E i \in DOMAIN buffer : buffer[i].text = text

\* Reads what waits: held if it fills its segments or others wait; a text that
\* waits already is a webhook posted again.  Without an endpoint nothing is kept.
ReadWaiting ==
  /\ arriving.pc = "read"
  /\ LET text == arriving.w.text
     IN  \/ /\ endpoint /\ ~Waits(text)
            /\ arriving' = [arriving EXCEPT
                              !.pc = IF buffer = <<>> /\ ~looksLikeIncompletePart(text)
                                     THEN "store" ELSE "create"]
            /\ UNCHANGED taken
         \/ (endpoint => Waits(text)) /\ Done(arriving.w)
  /\ UNCHANGED <<net, buffer, flush, running, rows, endpoint, serial, repeated, faults>>

Hold ==
  /\ arriving.pc = "create"
  /\ serial' = serial + 1
  /\ buffer' = Append(buffer, [row |-> serial + 1, text |-> arriving.w.text, w |-> arriving.w,
                               age |-> "new"])
  /\ Done(arriving.w)
  /\ UNCHANGED <<net, flush, running, rows, endpoint, repeated, faults>>

StoreAtOnce ==
  /\ arriving.pc = "store"
  /\ rows' = IF endpoint THEN Persisted(Single(arriving.w)) ELSE rows
  /\ Done(arriving.w)
  /\ UNCHANGED <<net, buffer, flush, running, endpoint, serial, repeated, faults>>

-----------------------------------------------------------------------------
(* flushSmsParts and storeParts.                                             *)

\* Mutant: a set without a final part waits for it.
ReadyIfFinal(parts) ==
  /\ \E i \in DOMAIN parts : ~looksLikeIncompletePart(parts[i].text)
  /\ parts[Len(parts)].age # "new"

\* Quiet for a while with a short part, or waiting for too long.
Ready(parts) ==
  /\ parts # <<>>
  /\ \/ /\ \E i \in DOMAIN parts : ~looksLikeIncompletePart(parts[i].text)
        /\ parts[Len(parts)].age # "new"
     \/ parts[1].age = "old"

\* The id of a combined message is made of those of its parts.
Messages(set) ==
  LET combined == IF set.combined = <<>> THEN <<>>
                  ELSE << [id |-> {set.combined[i].w.id : i \in DOMAIN set.combined}, concat |-> TRUE,
                           parts |-> [i \in DOMAIN set.combined |-> set.combined[i].w]] >>
  IN  combined \o [i \in DOMAIN set.leftovers |-> Single(set.leftovers[i].w)]

\* Mutant: a slow tick does not keep the next one from starting.
MayOverlap == TRUE

MayStart == ~running

Flush(f) ==
  /\ flush[f].pc = "idle" /\ MayStart
  /\ Ready(buffer)
  /\ running' = TRUE
  /\ \E set \in {assembleParts(buffer)} :
       flush' = [flush EXCEPT ![f] = [pc |-> IF endpoint THEN "store" ELSE "delete",
                                      parts |-> buffer, todo |-> Messages(set)]]
  /\ UNCHANGED <<net, arriving, buffer, rows, endpoint, serial, taken, repeated, faults>>

EndFlush(f) ==
  /\ flush' = [flush EXCEPT ![f] = NoFlush]
  /\ running' = FALSE

\* One message after another; a failure leaves the set for the next tick.
StorePart(f) ==
  /\ flush[f].pc = "store"
  /\ \/ /\ endpoint
        /\ rows' = Persisted(Head(flush[f].todo))
        /\ flush' = [flush EXCEPT ![f].todo = Tail(@),
                                  ![f].pc = IF Len(flush[f].todo) = 1 THEN "delete" ELSE "store"]
        /\ UNCHANGED <<running, faults>>
     \/ Fault("persistFails") /\ EndFlush(f) /\ UNCHANGED rows
     \/ ~endpoint /\ EndFlush(f) /\ UNCHANGED <<rows, faults>>
  /\ UNCHANGED <<net, arriving, buffer, endpoint, serial, taken, repeated>>

\* Mutant: everything from the sender is deleted.
NothingLeft(parts) == <<>>

\* deleteMany of the rows that were read.
Left(parts) == At(buffer, {i \in DOMAIN buffer : \A j \in DOMAIN parts : parts[j].row # buffer[i].row})

DeleteParts(f) ==
  /\ flush[f].pc = "delete"
  /\ buffer' = Left(flush[f].parts)
  /\ EndFlush(f)
  /\ UNCHANGED <<net, arriving, rows, endpoint, serial, taken, repeated, faults>>

-----------------------------------------------------------------------------
(* Time, crashes and operators.                                              *)

\* CONCAT_QUIET_MS or CONCAT_MAX_MS go by.
TimePasses ==
  /\ \E age \in {"quiet", "old"} :
       /\ \E i \in DOMAIN buffer : buffer[i].age \notin {age, "old"}
       /\ buffer' = [i \in DOMAIN buffer |->
                       [buffer[i] EXCEPT !.age = IF age = "old" \/ @ = "new" THEN age ELSE @]]
  /\ UNCHANGED <<net, arriving, flush, running, rows, endpoint, serial, taken, repeated, faults>>

\* The job of the process that died is run again.
WorkerCrash ==
  /\ Fault("workerCrash")
  /\ arriving.pc # "idle" \/ running
  /\ net' = IF arriving.pc = "idle" THEN net ELSE net \cup {[arriving.w EXCEPT !.text = arriving.w.came]}
  /\ arriving' = NoJob
  /\ flush' = [f \in Flushes |-> NoFlush]
  /\ running' = FALSE
  /\ UNCHANGED <<buffer, rows, endpoint, serial, taken, repeated>>

\* deleteEndpoint with force takes the messages too.
DeleteEndpoint ==
  /\ Fault("endpointGone")
  /\ endpoint
  /\ endpoint' = FALSE
  /\ rows' = {}
  /\ UNCHANGED <<net, arriving, buffer, flush, running, serial, taken, repeated>>

Next ==
  \/ \E w \in net : Arrive(w)
  \/ ReadWaiting \/ Hold \/ StoreAtOnce
  \/ \E f \in Flushes : Flush(f) \/ StorePart(f) \/ DeleteParts(f)
  \/ TimePasses \/ WorkerCrash \/ DeleteEndpoint

Spec == Init /\ [][Next]_vars

\* Jobs are processed, the scheduler ticks, its ticks end, and time passes.
Fairness ==
  /\ WF_vars((\E w \in net : Arrive(w)) \/ ReadWaiting \/ Hold \/ StoreAtOnce)
  /\ WF_vars(\E f \in Flushes : Flush(f) \/ StorePart(f) \/ DeleteParts(f))
  /\ WF_vars(TimePasses)

FairSpec == Spec /\ Fairness

-----------------------------------------------------------------------------
Held == {buffer[i].w.id : i \in DOMAIN buffer}
StoredIds == UNION {r.id : r \in rows}

\* A text the gateway has acknowledged is in the buffer or in a message, while
\* segments arrive between the read of a set and its deletion, ticks fail half
\* way and the worker dies (bufferIfPart, storeParts).
NothingLost == endpoint => \A w \in taken : w.id \in Held \cup StoredIds

\* No segment ends up in two messages, unless the vendor posted it again or a tick
\* was cut off between storing and deleting: then the late segments give the set
\* another id.  Ticks do not overlap (SmsConcatScheduler.flush).
StoredOnce ==
  faults = 0 =>
    \A r, q \in rows : r # q => r.id \cap q.id \subseteq repeated

\* Whether nothing in the text looks like a mis-join.
Clean(text) ==
  \A i \in 1..Len(text) - 1 :
    ~suspicious(SubSeq(text, 1, i), SubSeq(text, i + 1, Len(text)))

\* Glued into the second slot, a last segment that begins with a slash may make a
\* "//" with the end of the first one.  When it is one unit short of a full segment,
\* the first slot is then the one that looks wrong.
SlashesMeet(text) ==
  LET part == PartSize(text)
  IN  /\ Units(text, Len(text)) % part = part - 1
      /\ \E i \in unitToCharIndex(text, part) \ {0, Len(text)} : text[i] = "/" /\ text[i + 1] = "/"

\* A long SMS whose full and short segment are put together on their own reads as
\* it was written whichever came first; and a well-formed one that the gateway
\* glued reads as written or as it came: no third text is made up, unless slashes
\* meet, and one that came in order is left alone (repairGluedParts, assembleParts).
ReadsAsWritten ==
  \A r \in rows :
    /\ Len(r.parts) = 2 /\ r.parts[1].of = r.parts[2].of =>
         LET text == r.parts[1].text \o r.parts[2].text
         IN  Len(text) = Len(r.parts[1].of) => text = r.parts[1].of
    /\ \A i \in DOMAIN r.parts :
         LET w == r.parts[i]
         IN  Len(w.came) = Len(w.of) /\ Clean(w.of) /\ ~SlashesMeet(w.came) => w.text \in {w.of, w.came}

\* What the gateway is expected to post, as far as a property depends on it: no text
\* twice in a scene; an SMS in two segments as a full one and a short one; an SMS in
\* one piece with its short segment in one of the slots.
TextsDiffer ==
  \A scene \in Scenes : \A v, w \in scene : Repaired(v).text = Repaired(w).text => v.id = w.id

SplitInTwo ==
  \A scene \in Scenes : \A v, w \in {Repaired(u) : u \in scene} :
    /\ v.of = w.of /\ v.text # w.text
    /\ Len(v.text \o w.text) = Len(w.of)
    => \/ v.of = v.text \o w.text /\ ~looksLikeIncompletePart(w.text)
       \/ v.of = w.text \o v.text /\ ~looksLikeIncompletePart(v.text)

Slotted(came, of) ==
  LET part == PartSize(came)
      short == Units(came, Len(came)) % part
  IN  \E k \in 0..Len(came) :
        \E i \in unitToCharIndex(came, k * part), j \in unitToCharIndex(came, k * part + short) :
          of = Moved(came, i, j)

GluedInSlots ==
  \A scene \in Scenes : \A w \in scene : Len(w.came) = Len(w.of) => Slotted(w.came, w.of)

Ids == UNION {{w.id : w \in scene} : scene \in Scenes}

\* What is held back becomes a message, also when its final segment never comes.
HeldIsStored == \A i \in Ids : (i \in Held) ~> (i \in StoredIds \/ ~endpoint)
============================================================================
