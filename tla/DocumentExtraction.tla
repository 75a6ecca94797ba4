-------------------------- MODULE DocumentExtraction --------------------------
(***************************************************************************)
(* One document of a user: its row, its object in the storage bucket, and  *)
(* the extraction of its text (documents.service.ts).  An extraction is a  *)
(* promise in the memory of one API instance, at most one per document;    *)
(* the lease in the row keeps the instances apart.  A handler stops at     *)
(* each statement it awaits, so what it read may be stale when it writes.  *)
(***************************************************************************)
EXTENDS Naturals

CONSTANTS
  Instances,   \* API processes, each with its extractionQueue
  Calls,       \* requests that may be handled at the same time, again and again
  At,          \* the instance that handles each call
  Kinds,       \* the operations of each call
  MayCrash     \* the instances that restart once

DocumentExtractionAssumption ==
  /\ At \in [Calls -> Instances]
  /\ Kinds \in [Calls -> SUBSET {"confirm", "extract", "remove", "sync"}]
  /\ MayCrash \subseteq Instances

ASSUME DocumentExtractionAssumption

VARIABLES
  row,      \* the row of the document
  created,  \* createUploadUrl has given the document its id
  object,   \* the file is in the bucket
  task,     \* the entry of the document in the extractionQueue of each instance
  call,     \* where each request is
  crashed,  \* instances that have restarted
  overlap,  \* a lease ran out, or a request came, during an extraction (history)
  lost,     \* the last request was swallowed, crashed or never queued (history)
  torn      \* the object was deleted, but the row kept, or inserted after that (history)

vars == <<row, created, object, task, call, crashed, overlap, lost, torn>>

-----------------------------------------------------------------------------

Row == [status : {"none", "PENDING", "READY", "FAILED"},
        uploaded : BOOLEAN, lease : {"none", "live", "expired"}]

NoRow == [status |-> "none", uploaded |-> FALSE, lease |-> "none"]

Exists == row.status # "none"

\* What a sync found: the object in its listing, the row in its query.
Requests == [pc : {"idle", "confirm", "mark", "reset", "queue", "unlink", "delete",
                   "rows", "metadata", "insert", "repair", "purge"},
             listed : BOOLEAN]

TypeOK ==
  /\ row \in Row
  /\ created \in BOOLEAN
  /\ object \in BOOLEAN
  /\ task \in [Instances -> {"idle", "queued", "working", "fetched", "closing"}]
  /\ call \in [Calls -> Requests]
  /\ crashed \subseteq MayCrash
  /\ overlap \in BOOLEAN
  /\ lost \in BOOLEAN
  /\ torn \in BOOLEAN

Init ==
  /\ row = NoRow
  /\ created = FALSE
  /\ object = FALSE
  /\ task = [i \in Instances |-> "idle"]
  /\ call = [c \in Calls |-> [pc |-> "idle", listed |-> FALSE]]
  /\ crashed = {}
  /\ overlap = FALSE
  /\ lost = FALSE
  /\ torn = FALSE

-----------------------------------------------------------------------------
(* Helpers                                                                 *)

Goto(c, pc) == call' = [call EXCEPT ![c].pc = pc]

Done(c) == call' = [call EXCEPT ![c] = [pc |-> "idle", listed |-> FALSE]]

Step(i, pc) == task' = [task EXCEPT ![i] = pc]

\* The tasks that are going to write an outcome.
Busy == {i \in Instances : task[i] \in {"working", "fetched"}}

\* The row is queued anew: what a task in flight writes counts for the new request too.
Renew(uploaded) ==
  /\ row' = [status |-> "PENDING", uploaded |-> uploaded, lease |-> "none"]
  /\ overlap' = (Busy # {})

-----------------------------------------------------------------------------
(* Upload                                                                  *)

\* The row comes first; when the URL cannot be signed the client has nothing to put.
CreateUploadUrl ==
  /\ ~created
  /\ Renew(FALSE)
  /\ created' = TRUE
  /\ UNCHANGED <<object, task, call, crashed, lost, torn>>

\* The client puts the file; its URL outlives the row.
Upload ==
  /\ created
  /\ object' = TRUE
  /\ UNCHANGED <<row, created, task, call, crashed, overlap, lost, torn>>

BeginConfirm(c) ==
  /\ "confirm" \in Kinds[c]
  /\ call[c].pc = "idle"
  /\ Exists
  /\ Goto(c, "confirm")
  /\ UNCHANGED <<row, created, object, task, crashed, overlap, lost, torn>>

\* Variant: the bucket is not asked.
CheckObjectTrusting(c) ==
  /\ call[c].pc = "confirm"
  /\ Goto(c, "mark")
  /\ UNCHANGED <<row, created, object, task, crashed, overlap, lost, torn>>

CheckObject(c) ==
  /\ call[c].pc = "confirm"
  /\ IF object THEN Goto(c, "mark") ELSE Done(c)
  /\ UNCHANGED <<row, created, object, task, crashed, overlap, lost, torn>>

\* uploadedAt is set by id.  A row that is gone makes the handler throw.
MarkUploaded(c) ==
  /\ call[c].pc = "mark"
  /\ IF Exists
     THEN /\ row' = [row EXCEPT !.uploaded = TRUE]
          /\ IF row.status = "PENDING" THEN Goto(c, "queue") ELSE Done(c)
     ELSE Done(c) /\ UNCHANGED row
  /\ UNCHANGED <<created, object, task, crashed, overlap, lost, torn>>

-----------------------------------------------------------------------------
(* Requests for an extraction                                              *)

\* extractText and retryExtraction read the document whatever its status; of the
\* documents that retryFailedExtractions selects it reads each one again.
BeginExtract(c) ==
  /\ "extract" \in Kinds[c]
  /\ call[c].pc = "idle"
  /\ Exists /\ row.uploaded
  /\ Goto(c, "reset")
  /\ UNCHANGED <<row, created, object, task, crashed, overlap, lost, torn>>

\* Variant: the lease is left as it is.
ResetKeepingLease(c) ==
  /\ call[c].pc = "reset"
  /\ IF Exists
     THEN /\ row' = [row EXCEPT !.status = "PENDING"]
          /\ overlap' = (Busy # {})
          /\ lost' = FALSE
     ELSE UNCHANGED <<row, overlap, lost>>
  /\ Goto(c, "queue")
  /\ UNCHANGED <<created, object, task, crashed, torn>>

\* The row is PENDING again and without a lease, whoever is at work on it.
Reset(c) ==
  /\ call[c].pc = "reset"
  /\ IF Exists
     THEN Renew(row.uploaded) /\ lost' = FALSE
     ELSE UNCHANGED <<row, overlap, lost>>
  /\ Goto(c, "queue")
  /\ UNCHANGED <<created, object, task, crashed, torn>>

\* ensureExtractionQueued: an entry in the map swallows the request, also the entry of
\* a task that has written its outcome and only records the event.
Queue(c) ==
  /\ call[c].pc = "queue"
  /\ IF task[At[c]] = "idle"
     THEN Step(At[c], "queued") /\ UNCHANGED lost
     ELSE lost' = (lost \/ task[At[c]] = "closing") /\ UNCHANGED task
  /\ Done(c)
  /\ UNCHANGED <<row, created, object, crashed, overlap, torn>>

-----------------------------------------------------------------------------
(* processQueuedExtraction                                                 *)

\* Variant: a live lease is not respected.
ClaimAnyLease(i) ==
  /\ task[i] = "queued"
  /\ IF row.status = "PENDING"
     THEN /\ row' = [row EXCEPT !.lease = "live"]
          /\ Step(i, IF row.uploaded THEN "working" ELSE "idle")
     ELSE Step(i, "idle") /\ UNCHANGED row
  /\ UNCHANGED <<created, object, call, crashed, overlap, lost, torn>>

\* One conditional update; a task that does not get the row ends without a trace.
Claim(i) ==
  /\ task[i] = "queued"
  /\ IF row.status = "PENDING" /\ row.lease # "live"
     THEN /\ row' = [row EXCEPT !.lease = "live"]
          /\ Step(i, IF row.uploaded THEN "working" ELSE "idle")
     ELSE Step(i, "idle") /\ UNCHANGED row
  /\ UNCHANGED <<created, object, call, crashed, overlap, lost, torn>>

Download(i) ==
  /\ task[i] = "working"
  /\ object
  /\ Step(i, "fetched")
  /\ UNCHANGED <<row, created, object, call, crashed, overlap, lost, torn>>

\* The text or, from failExtraction, the error is written by id: neither the status
\* nor the lease is looked at again.
Settle(i, outcome) ==
  /\ task[i] = "fetched" \/ (task[i] = "working" /\ outcome = "FAILED")
  /\ row' = IF Exists THEN [row EXCEPT !.status = outcome, !.lease = "none"] ELSE row
  /\ Step(i, "closing")
  /\ UNCHANGED <<created, object, call, crashed, overlap, lost, torn>>

\* Variant: the entry stays in the map.
CloseKeepingEntry(i) ==
  /\ task[i] = "closing"
  /\ UNCHANGED vars

\* The event is recorded, then the entry leaves the map.
Close(i) ==
  /\ task[i] = "closing"
  /\ Step(i, "idle")
  /\ UNCHANGED <<row, created, object, call, crashed, overlap, lost, torn>>

LeaseExpires ==
  /\ row.lease = "live"
  /\ row' = [row EXCEPT !.lease = "expired"]
  /\ overlap' = (overlap \/ Busy # {})
  /\ UNCHANGED <<created, object, task, call, crashed, lost, torn>>

\* The instance restarts: its map and its requests are gone.  A task that throws does
\* the same, because nobody handles the rejection.
Restart(i) ==
  /\ i \in MayCrash \ crashed
  /\ crashed' = crashed \cup {i}
  /\ Step(i, "idle")
  /\ call' = [c \in Calls |-> IF At[c] = i THEN [pc |-> "idle", listed |-> FALSE]
                              ELSE call[c]]
  /\ lost' = TRUE
  /\ torn' = (torn \/ \E c \in Calls : At[c] = i /\ call[c].pc = "delete")
  /\ UNCHANGED <<row, created, object, overlap>>

-----------------------------------------------------------------------------
(* remove                                                                  *)

BeginRemove(c) ==
  /\ "remove" \in Kinds[c]
  /\ call[c].pc = "idle"
  /\ Exists
  /\ Goto(c, "unlink")
  /\ UNCHANGED <<row, created, object, task, crashed, overlap, lost, torn>>

DeleteObject(c) ==
  /\ call[c].pc = "unlink"
  /\ object' = FALSE
  /\ Goto(c, "delete")
  /\ UNCHANGED <<row, created, task, crashed, overlap, lost, torn>>

\* Variant: the row is only marked as deleted.
DeleteRowSoftly(c) ==
  /\ call[c].pc = "delete"
  /\ row' = [row EXCEPT !.status = "DELETED"]
  /\ torn' = FALSE
  /\ Done(c)
  /\ UNCHANGED <<created, object, task, crashed, overlap, lost>>

DeleteRow(c) ==
  /\ call[c].pc = "delete"
  /\ row' = NoRow
  /\ torn' = FALSE
  /\ Done(c)
  /\ UNCHANGED <<created, object, task, crashed, overlap, lost>>

-----------------------------------------------------------------------------
(* syncWithStorage                                                         *)

\* The listing comes first ...
BeginSync(c) ==
  /\ "sync" \in Kinds[c]
  /\ call[c].pc = "idle"
  /\ call' = [call EXCEPT ![c] = [pc |-> "rows", listed |-> object]]
  /\ UNCHANGED <<row, created, object, task, crashed, overlap, lost, torn>>

\* ... then the rows; what is missing on either side is dealt with, and an object
\* whose row has no uploadedAt.
ReadRows(c) ==
  /\ call[c].pc = "rows"
  /\ IF call[c].listed
     THEN IF ~Exists THEN Goto(c, "metadata")
          ELSE IF ~row.uploaded THEN Goto(c, "repair") ELSE Done(c)
     ELSE IF Exists THEN Goto(c, "purge") ELSE Done(c)
  /\ UNCHANGED <<row, created, object, task, crashed, overlap, lost, torn>>

\* An object that has gone since has no metadata, and the sync fails.
ReadMetadata(c) ==
  /\ call[c].pc = "metadata"
  /\ IF object THEN Goto(c, "insert") ELSE Done(c)
  /\ UNCHANGED <<row, created, object, task, crashed, overlap, lost, torn>>

\* A row that has come since makes the insert fail.  The new row is PENDING, but
\* nothing queues it.
InsertMissing(c) ==
  /\ call[c].pc = "insert"
  /\ IF Exists THEN UNCHANGED <<row, overlap, lost, torn>>
     ELSE Renew(TRUE) /\ lost' = TRUE /\ torn' = ~object
  /\ Done(c)
  /\ UNCHANGED <<created, object, task, crashed>>

RepairUploaded(c) ==
  /\ call[c].pc = "repair"
  /\ IF Exists THEN row' = [row EXCEPT !.uploaded = TRUE] /\ lost' = TRUE
     ELSE UNCHANGED <<row, lost>>
  /\ Done(c)
  /\ UNCHANGED <<created, object, task, crashed, overlap, torn>>

\* deleteMissing takes the row away when it was past its grace period.
PurgeMissing(c) ==
  /\ call[c].pc = "purge"
  /\ \/ UNCHANGED <<row, torn>>
     \/ row' = NoRow /\ torn' = FALSE
  /\ Done(c)
  /\ UNCHANGED <<created, object, task, crashed, overlap, lost>>

-----------------------------------------------------------------------------

Handle(c) ==
  \/ CheckObject(c) \/ MarkUploaded(c) \/ Reset(c) \/ Queue(c)
  \/ DeleteObject(c) \/ DeleteRow(c)
  \/ ReadRows(c) \/ ReadMetadata(c) \/ InsertMissing(c) \/ RepairUploaded(c)
  \/ PurgeMissing(c)

Work(i) == Claim(i) \/ Download(i) \/ Close(i)
           \/ \E outcome \in {"READY", "FAILED"} : Settle(i, outcome)

Next ==
  \/ CreateUploadUrl \/ Upload \/ LeaseExpires
  \/ \E i \in Instances : Work(i) \/ Restart(i)
  \/ \E c \in Calls : \/ BeginConfirm(c) \/ BeginExtract(c) \/ BeginRemove(c)
                      \/ BeginSync(c) \/ Handle(c)

Spec == Init /\ [][Next]_vars

\* Tasks and handlers go on, and a user who sees the document unfinished presses
\* "Retry extract" again and again.
Fairness ==
  /\ \A i \in Instances : WF_vars(Work(i))
  /\ \A c \in Calls : WF_vars(Handle(c))
  /\ SF_vars(row.status = "PENDING" /\ \E c \in Calls : BeginExtract(c))

FairSpec == Spec /\ Fairness

-----------------------------------------------------------------------------
(* Properties                                                              *)

Job == INSTANCE LeasedJob WITH Workers <- Instances, status <- row.status, busy <- Busy

\* The extraction does what LeasedJob says: a request is answered once, by one task,
\* unless a lease ran out or another request came during an extraction.
OneOutcomePerRequest == Job!Spec

\* A document that waits for its extraction has a task, or a request on its way to the
\* map, unless the request was lost: to a restart, to a sync, which queues nothing, or
\* to the map entry of a task that was through with the document.
RequestIsServed ==
  row.status = "PENDING" /\ row.uploaded /\ ~lost =>
    \/ \E i \in Instances : task[i] \in {"queued", "working", "fetched"}
    \/ \E c \in Calls : call[c].pc = "queue"

UploadedHasObject ==
  Exists /\ row.uploaded /\ ~object => torn \/ \E c \in Calls : call[c].pc = "delete"

\* Whatever is lost, an uploaded document is settled, or removed, as long as the user
\* keeps asking.
RequestIsSettled ==
  row.status = "PENDING" /\ row.uploaded ~> row.status # "PENDING"

=============================================================================
