------------------------------ MODULE ScrapeRun ------------------------------
(***************************************************************************)
(* One scrape run as the API sees it: its row of job_source_runs, the      *)
(* offers and notebook links it produces, its callback events and the      *)
(* schedule it may belong to.  Every handler that writes the row is here,  *)
(* broken into the database statements it awaits one after the other:      *)
(*   - the dispatcher that inserted the run (enqueueScrape) and the        *)
(*     schedule trigger that called it;                                    *)
(*   - the worker's calls: heartbeat, offer ingest, completion callback;   *)
(*   - the watchdogs: the lazy reconciliation in the read paths and the    *)
(*     reconciliation endpoints of the ops service.                        *)
(* A handler keeps the row it read first (seen) and uses it to the end;    *)
(* other handlers run between any two of its statements.                   *)
(***************************************************************************)
EXTENDS Naturals

CONSTANTS
  Callers,     \* concurrent calls of the worker, each handled once
  Watchdogs,   \* periodic reconcilers, each runs again and again
  Offers,      \* the job offers this run may produce
  Callbacks,   \* the completion callbacks that may arrive
  Kinds,       \* the kinds of handler and of fault that occur
  Scheduled    \* whether a schedule triggered the run

ScrapeRunAssumption ==
  /\ Callers \cap Watchdogs = {}
  /\ Callbacks \subseteq [id : STRING, attempt : Nat \ {0},
                          status : {"COMPLETED", "FAILED"}, jobs : SUBSET Offers]
  /\ \A c \in Callbacks : c.status = "FAILED" => c.jobs = {}
  /\ Kinds \subseteq {"heartbeat", "ingest", "callback", "watchdog", "ops",
                       "crash", "degraded"}
  /\ Scheduled \in BOOLEAN

ASSUME ScrapeRunAssumption

VARIABLES
  row,         \* the run's row
  offers,      \* job_offers whose run_id is this run
  linked,      \* offers in the user's notebook (user_job_offers)
  events,      \* job_source_callback_events of the run
  aged,        \* the row is older than SCRAPE_STALE_PENDING_MINUTES
  disp,        \* control point of the dispatcher and of the trigger around it
  schedule,    \* [last : scrape_schedules.last_run_status, tied : the
               \*  schedule_enqueue_succeeded event of this run exists]
  req          \* the handlers in progress
\* Histories, read by the properties only:
VARIABLES
  crashed,     \* some handler died half-way
  raced        \* a finalisation found the status moved on, or a write that does not
               \*  compare the status hit a finalised run

history == <<crashed, raced>>
vars == <<row, offers, linked, events, aged, disp, schedule, req, history>>

-----------------------------------------------------------------------------

Procs == Callers \cup Watchdogs

Statuses == {"PENDING", "RUNNING", "COMPLETED", "FAILED"}
Terminal == {"COMPLETED", "FAILED"}

\* What the error column tells apart: no error, a failed dispatch, the worker's
\* own error, the watchdog's prefix and the ops endpoint's prefix.
Errors == {"none", "dispatch", "worker", "watchdog", "ops"}

\* The progress column: candidateOffers > 0, userInsertedOffers > 0, and
\* matchingState, where "owed" stands for its values deferred and skipped.
Progress == [candidates : BOOLEAN, inserted : BOOLEAN,
             matching : {"none", "pending", "completed", "owed"}]

NoProgress == [candidates |-> FALSE, inserted |-> FALSE, matching |-> "none"]

\* A row; fresh: the last heartbeat (or the start) is within
\* SCRAPE_STALE_RUNNING_MINUTES.
Rows == [status : Statuses, error : Errors, fresh : BOOLEAN, progress : Progress]

NewRow == [status |-> "PENDING", error |-> "none", fresh |-> TRUE,
           progress |-> NoProgress]

\* A registered callback event.
CallbackEvents == [id : STRING, attempt : Nat]

NoCallback == [id |-> "", attempt |-> 0, status |-> "", jobs |-> {}]

\* What a handler keeps of the row it read; the progress is then its own copy.
Snapshots == [status : Statuses, progress : Progress]
Snapshot == [status |-> row.status, progress |-> row.progress]

\* A handler: its control point, what it read, the offers it works on, the
\* callback it serves and the outcome (status and error) it is to write.
Points == {"new", "heartbeat", "persist", "ingest", "check", "insert",
           "persistJobs", "promote", "finalize", "opsWrite", "sync", "select",
           "writePending", "link", "writeProgress", "done"}

Handlers == [pc : Points, seen : Snapshots, ids : SUBSET Offers,
             cb : Callbacks \cup {NoCallback}, to : Statuses, error : Errors]

Idle == [pc |-> "new", seen |-> [status |-> "PENDING", progress |-> NoProgress],
         ids |-> {}, cb |-> NoCallback, to |-> "PENDING", error |-> "none"]

TypeOK ==
  /\ row \in Rows
  /\ offers \subseteq Offers
  /\ linked \subseteq Offers
  /\ events \subseteq CallbackEvents
  /\ aged \in BOOLEAN
  /\ disp \in {"dispatching", "enqueued", "enqueueFailed", "tie", "done"}
  /\ schedule \in [last : {"", "ENQUEUED", "ENQUEUE_FAILED", "COMPLETED", "FAILED"},
                   tied : BOOLEAN]
  /\ req \in [Procs -> Handlers]
  /\ crashed \in BOOLEAN
  /\ raced \in BOOLEAN

Init ==
  /\ row = NewRow
  /\ offers = {} /\ linked = {} /\ events = {}
  /\ aged = FALSE
  /\ disp = "dispatching"
  /\ schedule = [last |-> "", tied |-> FALSE]
  /\ req = [p \in Procs |-> Idle]
  /\ crashed = FALSE
  /\ raced = FALSE

-----------------------------------------------------------------------------
(* Shared steps                                                            *)

\* A handler goes on to control point pc with the fields it changed.
Goto(p, handler, pc) == req' = [req EXCEPT ![p] = [handler EXCEPT !.pc = pc]]

\* A call is answered once, keeping only which callback it served; a watchdog
\* starts over.
Ended(p, cb) == IF p \in Watchdogs THEN Idle ELSE [Idle EXCEPT !.pc = "done", !.cb = cb]

Finish(p) == req' = [req EXCEPT ![p] = Ended(p, @.cb)]

\* Variant: the WHERE names the run only.
TransitionAnyStatus(from, to, error) ==
  row' = [row EXCEPT !.status = to, !.error = error]

\* Variant: completing a run leaves its error column alone.
TransitionKeepsError(from, to, error) ==
  row' = IF row.status # from THEN row
         ELSE [row EXCEPT !.status = to, !.error = IF to = "COMPLETED" THEN @ ELSE error]

\* transitionRunStatus: UPDATE ... WHERE id = ? AND status = from.  No row
\* matches when the status has moved on.
Transition(from, to, error) ==
  row' = IF row.status = from THEN [row EXCEPT !.status = to, !.error = error]
                              ELSE row

RacedIf(condition) == raced' = (raced \/ condition)

\* heartbeat and ingest promote a pending run and write back any other status.
Promoted(status) == IF status = "PENDING" THEN "RUNNING" ELSE status

-----------------------------------------------------------------------------
(* The dispatcher (enqueueScrape after the insert) and its caller          *)

\* The worker or Cloud Tasks took the task, or the call timed out: markRunRunning.
DispatchAccepted ==
  /\ disp = "dispatching"
  /\ Transition("PENDING", "RUNNING", "none")
  /\ disp' = IF Scheduled THEN "enqueued" ELSE "done"
  /\ UNCHANGED <<offers, linked, events, aged, schedule, req, history>>

\* No worker URL, payload too large, or the worker refused: markRunFailed, throw.
\* Its sync of the schedule finds no event: the run is not tied yet.
DispatchRejected ==
  /\ disp = "dispatching"
  /\ Transition("PENDING", "FAILED", "dispatch")
  /\ disp' = IF Scheduled THEN "enqueueFailed" ELSE "done"
  /\ UNCHANGED <<offers, linked, events, aged, schedule, req, history>>

\* Any other dispatch error is rethrown and leaves the run PENDING.
DispatchError ==
  /\ disp = "dispatching"
  /\ disp' = IF Scheduled THEN "enqueueFailed" ELSE "done"
  /\ UNCHANGED <<row, offers, linked, events, aged, schedule, req, history>>

\* Variant: a failed enqueue is recorded with the status of the run.
MarkScheduleWithRunStatus ==
  /\ disp \in {"enqueued", "enqueueFailed"}
  /\ schedule' = [schedule EXCEPT !.last = IF disp = "enqueued" THEN "ENQUEUED"
                                                               ELSE row.status]
  /\ disp' = IF disp = "enqueued" THEN "tie" ELSE "done"
  /\ UNCHANGED <<row, offers, linked, events, aged, req, history>>

\* triggerSchedules records what became of the enqueue ...
MarkSchedule ==
  /\ disp \in {"enqueued", "enqueueFailed"}
  /\ schedule' = [schedule EXCEPT !.last = IF disp = "enqueued" THEN "ENQUEUED"
                                                               ELSE "ENQUEUE_FAILED"]
  /\ disp' = IF disp = "enqueued" THEN "tie" ELSE "done"
  /\ UNCHANGED <<row, offers, linked, events, aged, req, history>>

\* Variant: the event may be appended before the schedule is updated.
TieScheduleEarly ==
  /\ disp \in {"enqueued", "tie"}
  /\ schedule' = [schedule EXCEPT !.tied = TRUE]
  /\ disp' = IF disp = "tie" THEN "done" ELSE disp
  /\ UNCHANGED <<row, offers, linked, events, aged, req, history>>

\* ... and then appends the event that ties the run to its schedule.
TieSchedule ==
  /\ disp = "tie"
  /\ schedule' = [schedule EXCEPT !.tied = TRUE]
  /\ disp' = "done"
  /\ UNCHANGED <<row, offers, linked, events, aged, req, history>>

-----------------------------------------------------------------------------
(* Heartbeat                                                               *)

\* heartbeatRun reads the row; a finalised run ignores the heartbeat.
BeginHeartbeat(p) ==
  /\ "heartbeat" \in Kinds /\ p \in Callers /\ req[p].pc = "new"
  /\ IF row.status \in Terminal THEN Finish(p)
     ELSE Goto(p, [req[p] EXCEPT !.seen = Snapshot], "heartbeat")
  /\ UNCHANGED <<row, offers, linked, events, aged, disp, schedule, history>>

\* ... and writes status, time and a whole new progress, whatever the row is now.
WriteHeartbeat(p) ==
  /\ req[p].pc = "heartbeat"
  /\ row' = [row EXCEPT !.status = Promoted(req[p].seen.status),
                        !.fresh = TRUE, !.progress = NoProgress]
  /\ Finish(p)
  /\ RacedIf(row.status \in Terminal)
  /\ UNCHANGED <<offers, linked, events, aged, disp, schedule, crashed>>

-----------------------------------------------------------------------------
(* Incremental ingest                                                      *)

BeginIngest(p) ==
  /\ "ingest" \in Kinds /\ p \in Callers /\ req[p].pc = "new"
  /\ \E jobs \in SUBSET Offers :
       IF row.status \in Terminal \/ jobs = {} THEN Finish(p)
       ELSE Goto(p, [req[p] EXCEPT !.seen = Snapshot, !.ids = jobs], "persist")
  /\ UNCHANGED <<row, offers, linked, events, aged, disp, schedule, history>>

\* persistAcceptedJobsForRun: upsert by identity key, run_id set to this run.
PersistOffers(p) ==
  /\ req[p].pc \in {"persist", "persistJobs"}
  /\ offers' = offers \cup (IF req[p].pc = "persist" THEN req[p].ids ELSE req[p].cb.jobs)
  /\ Goto(p, req[p], IF req[p].pc = "persist" THEN "ingest"
                     ELSE IF req[p].seen.status = "PENDING" THEN "promote"
                     ELSE "finalize")
  /\ UNCHANGED <<row, linked, events, aged, disp, schedule, history>>

\* The row is written from what was read before the upsert.
WriteIngest(p) ==
  /\ req[p].pc = "ingest"
  /\ LET progress == [req[p].seen.progress EXCEPT !.candidates = TRUE] IN
       /\ row' = [row EXCEPT !.status = Promoted(req[p].seen.status),
                             !.fresh = TRUE, !.progress = progress]
       /\ Goto(p, [req[p] EXCEPT !.seen.progress = progress], "link")
  /\ RacedIf(row.status \in Terminal)
  /\ UNCHANGED <<offers, linked, events, aged, disp, schedule, crashed>>

-----------------------------------------------------------------------------
(* Completion callback                                                     *)

\* completeScrape reads the row it will decide on ...
BeginCallback(p) ==
  /\ "callback" \in Kinds /\ p \in Callers /\ req[p].pc = "new"
  /\ \E cb \in Callbacks : Goto(p, [req[p] EXCEPT !.seen = Snapshot, !.cb = cb], "check")
  /\ UNCHANGED <<row, offers, linked, events, aged, disp, schedule, history>>

Registered(id) == \E e \in events : e.id = id

\* The attempt contract: a retry is neither older than the latest attempt nor
\* skips one.
AttemptInOrder(attempt) ==
  attempt > 1 => /\ \A e \in events : attempt >= e.attempt
                 /\ events # {} => \E e \in events : attempt <= e.attempt + 1

\* ... registerCallbackEvent looks for the event and the latest attempt ...
Check(p) ==
  /\ req[p].pc = "check"
  /\ IF Registered(req[p].cb.id) \/ ~AttemptInOrder(req[p].cb.attempt)
     THEN req' = [req EXCEPT ![p] = Ended(p, NoCallback)]
     ELSE Goto(p, req[p], "insert")
  /\ UNCHANGED <<row, offers, linked, events, aged, disp, schedule, history>>

\* Variant: a pending run is completed without being promoted first.
AcceptWithoutPromotion(p, h) ==
  IF h.seen.status \in Terminal THEN req' = [req EXCEPT ![p] = Ended(p, h.cb)]
  ELSE Goto(p, [h EXCEPT !.to = h.cb.status,
                         !.error = IF h.cb.status = "FAILED" THEN "worker" ELSE "none"],
            "finalize")

\* Variant: a finalised run takes the outcome of another callback.
AcceptAnyStatus(p, h) ==
  Goto(p, [h EXCEPT !.to = h.cb.status,
                    !.error = IF h.cb.status = "FAILED" THEN "worker" ELSE "none"],
       "finalize")

\* What an accepted callback does is decided by the status read at the start.
AcceptCallback(p, h) ==
  CASE h.seen.status \in Terminal -> req' = [req EXCEPT ![p] = Ended(p, h.cb)]
    [] h.cb.status = "FAILED" /\ h.seen.status \notin Terminal ->
         Goto(p, [h EXCEPT !.to = "FAILED", !.error = "worker"], "finalize")
    [] h.cb.status = "COMPLETED" /\ h.seen.status \notin Terminal ->
         Goto(p, [h EXCEPT !.to = "COMPLETED"],
              IF h.cb.jobs # {} THEN "persistJobs"
              ELSE IF h.seen.status = "PENDING" THEN "promote" ELSE "finalize")

\* Variant: the insert has no unique key to run into.
InsertAlways(p) ==
  /\ req[p].pc = "insert"
  /\ events' = events \cup {[id |-> req[p].cb.id, attempt |-> req[p].cb.attempt]}
  /\ AcceptCallback(p, req[p])
  /\ UNCHANGED <<row, offers, linked, aged, disp, schedule, history>>

\* ... and inserts it; the unique key (run, event id) makes the second a duplicate.
Insert(p) ==
  /\ req[p].pc = "insert"
  /\ IF Registered(req[p].cb.id)
     THEN /\ req' = [req EXCEPT ![p] = Ended(p, NoCallback)]
          /\ UNCHANGED events
     ELSE /\ events' = events \cup {[id |-> req[p].cb.id, attempt |-> req[p].cb.attempt]}
          /\ AcceptCallback(p, req[p])
  /\ UNCHANGED <<row, offers, linked, aged, disp, schedule, history>>

\* A completed run must have been running.  The promotion sets started_at.
Promote(p) ==
  /\ req[p].pc = "promote"
  /\ row' = IF row.status = "PENDING"
            THEN [row EXCEPT !.status = "RUNNING", !.error = "none", !.fresh = TRUE]
            ELSE row
  /\ Goto(p, [req[p] EXCEPT !.seen.status = "RUNNING"], "finalize")
  /\ UNCHANGED <<offers, linked, events, aged, disp, schedule, history>>

-----------------------------------------------------------------------------
(* Finalisation, shared by the callback and the watchdog                   *)

\* Whether the handler goes on to link the offers the run left in the catalog.
Relinks(p) ==
  CASE p \in Watchdogs             -> req[p].seen.status = "RUNNING"
    [] req[p].to = "COMPLETED"     -> TRUE
    [] OTHER -> req[p].seen.progress.candidates \/ req[p].seen.progress.inserted

Continue(p) == IF Relinks(p) THEN Goto(p, req[p], "select") ELSE Finish(p)

\* transitionRunStatus of a final status.  The result of the awaited update says
\* nothing of the rows it matched, so whether the status had moved on or not the
\* schedule is synced and the handler goes on.
Finalize(p) ==
  /\ req[p].pc = "finalize"
  /\ Transition(req[p].seen.status, req[p].to, req[p].error)
  /\ Goto(p, req[p], "sync")
  /\ RacedIf(row.status # req[p].seen.status)
  /\ UNCHANGED <<offers, linked, events, aged, disp, schedule, crashed>>

\* syncScheduleRunTerminalState: the owning schedule is found by its event.  An
\* error is logged and dropped.
SyncSchedule(p) ==
  /\ req[p].pc = "sync"
  /\ \/ schedule' = IF schedule.tied THEN [schedule EXCEPT !.last = req[p].to] ELSE schedule
     \/ "crash" \in Kinds /\ UNCHANGED schedule
  /\ Continue(p)
  /\ UNCHANGED <<row, offers, linked, events, aged, disp, history>>

\* The offers of the run, with the progress that will be written next.
SelectOffers(p) ==
  /\ req[p].pc = "select"
  /\ LET h == [req[p] EXCEPT !.ids = offers]
         candidates == offers # {} \/ (p \in Watchdogs /\ h.seen.progress.candidates)
         Progressing(matching) == [h EXCEPT !.seen.progress.candidates = candidates,
                                            !.seen.progress.matching = matching]
     IN CASE offers = {} /\ p \in Watchdogs     -> Finish(p)
          [] offers = {} /\ h.to = "COMPLETED"  ->
               Goto(p, Progressing("completed"), "writeProgress")
          [] OTHER -> Goto(p, Progressing("pending"), "writePending")
  /\ UNCHANGED <<row, offers, linked, events, aged, disp, schedule, history>>

\* Variant: nothing to link ends the handler here.
WritePendingAndStop(p) ==
  /\ req[p].pc = "writePending"
  /\ row' = [row EXCEPT !.progress = req[p].seen.progress]
  /\ IF req[p].ids = {} THEN Finish(p) ELSE Goto(p, req[p], "link")
  /\ UNCHANGED <<offers, linked, events, aged, disp, schedule, history>>

\* updateRunProgress writes the handler's copy of the progress.
WritePending(p) ==
  /\ req[p].pc = "writePending"
  /\ row' = [row EXCEPT !.progress = req[p].seen.progress]
  /\ Goto(p, req[p], "link")
  /\ UNCHANGED <<offers, linked, events, aged, disp, schedule, history>>

\* attemptPostPersistLinking: the notebook takes the offers, the attempt throws (even
\* after the insert) or the career profile is gone, or the catalog query fails and
\* its caller goes on with no candidates.
Link(p) ==
  /\ req[p].pc = "link"
  /\ \E outcome \in {"completed", "owed", "degraded"} :
       /\ req[p].ids = {} => outcome = "completed"
       /\ outcome = "degraded" => "degraded" \in Kinds
       /\ linked' \in {linked, linked \cup req[p].ids}
       /\ outcome = "completed" => linked' = linked \cup req[p].ids
       /\ outcome = "degraded" => linked' = linked
       /\ Goto(p, [req[p] EXCEPT
                     !.seen.progress.candidates = @ \/ req[p].ids # {},
                     !.seen.progress.inserted =
                         IF outcome \in {"completed", "degraded"} /\ req[p].ids # {}
                         THEN linked' # {} ELSE @,
                     !.seen.progress.matching =
                         IF outcome = "degraded" THEN "completed" ELSE outcome],
               "writeProgress")
  /\ UNCHANGED <<row, offers, events, aged, disp, schedule, history>>

WriteProgress(p) ==
  /\ req[p].pc = "writeProgress"
  /\ row' = [row EXCEPT !.progress = req[p].seen.progress]
  /\ Finish(p)
  /\ UNCHANGED <<offers, linked, events, aged, disp, schedule, history>>

-----------------------------------------------------------------------------
(* Watchdogs                                                               *)

\* Variant: the cutoff is compared the wrong way round.
StalePendingInverted == row.status = "PENDING" /\ ~aged

StalePending == row.status = "PENDING" /\ aged
StaleRunning == row.status = "RUNNING" /\ ~row.fresh

\* reconcileStaleRuns of the job-sources service, run by the read paths.
BeginWatchdog(p) ==
  /\ "watchdog" \in Kinds /\ p \in Watchdogs /\ req[p].pc = "new"
  /\ StalePending \/ StaleRunning
  /\ Goto(p, [req[p] EXCEPT !.seen = Snapshot, !.to = "FAILED", !.error = "watchdog"],
          "finalize")
  /\ UNCHANGED <<row, offers, linked, events, aged, disp, schedule, history>>

\* reconcileRun and reconcileStaleRuns of the ops service select the run ...
BeginOps(p) ==
  /\ "ops" \in Kinds /\ p \in Watchdogs /\ req[p].pc = "new"
  /\ \/ StalePending \/ StaleRunning
     \/ row.status \notin Terminal /\ ~row.fresh
  /\ Goto(p, [req[p] EXCEPT !.seen = Snapshot], "opsWrite")
  /\ UNCHANGED <<row, offers, linked, events, aged, disp, schedule, history>>

\* ... and fail it by its id.
WriteOps(p) ==
  /\ req[p].pc = "opsWrite"
  /\ row' = [row EXCEPT !.status = "FAILED", !.error = "ops"]
  /\ Finish(p)
  /\ RacedIf(row.status \in Terminal)
  /\ UNCHANGED <<offers, linked, events, aged, disp, schedule, crashed>>

-----------------------------------------------------------------------------
(* Time, other runs, failures                                              *)

\* SCRAPE_STALE_RUNNING_MINUTES pass without a heartbeat.
Silence ==
  /\ row.fresh
  /\ row' = [row EXCEPT !.fresh = FALSE]
  /\ UNCHANGED <<offers, linked, events, aged, disp, schedule, req, history>>

\* SCRAPE_STALE_PENDING_MINUTES pass since the insert.
Age ==
  /\ ~aged
  /\ aged' = TRUE
  /\ UNCHANGED <<row, offers, linked, events, disp, schedule, req, history>>

\* Another run finds the same offer: its upsert takes run_id over.
Takeover ==
  /\ \E o \in offers : offers' = offers \ {o}
  /\ UNCHANGED <<row, linked, events, aged, disp, schedule, req, history>>

\* A statement of the handler throws, or the process dies under it.
Abort(p) ==
  /\ "crash" \in Kinds /\ req[p].pc \notin {"new", "done"}
  /\ req' = [req EXCEPT ![p] = Ended(p, IF @.pc \in {"check", "insert"} THEN NoCallback
                                        ELSE @.cb)]
  /\ crashed' = TRUE
  /\ UNCHANGED <<row, offers, linked, events, aged, disp, schedule, raced>>

-----------------------------------------------------------------------------

Dispatcher == DispatchAccepted \/ DispatchRejected \/ DispatchError
              \/ MarkSchedule \/ TieSchedule

Begin(p) == BeginHeartbeat(p) \/ BeginIngest(p) \/ BeginCallback(p)
            \/ BeginWatchdog(p) \/ BeginOps(p)

\* The next statement of a handler in progress.
Step(p) == \/ WriteHeartbeat(p) \/ PersistOffers(p) \/ WriteIngest(p)
           \/ Check(p) \/ Insert(p) \/ Promote(p)
           \/ Finalize(p) \/ SyncSchedule(p) \/ SelectOffers(p)
           \/ WritePending(p) \/ Link(p) \/ WriteProgress(p) \/ WriteOps(p)

Environment == Silence \/ Age \/ Takeover

Next == \/ Dispatcher
        \/ \E p \in Procs : Begin(p) \/ Step(p) \/ Abort(p)
        \/ Environment

Spec == Init /\ [][Next]_vars

\* A request runs to its end unless it dies; time passes; the read paths come
\* back, and not every one of their reconciliations dies before its update.
Fairness ==
  /\ WF_vars(Dispatcher)
  /\ WF_vars(Silence)
  /\ WF_vars(Age)
  /\ \A p \in Procs : WF_vars(Step(p))
  /\ \A p \in Watchdogs : WF_vars(BeginWatchdog(p)) /\ SF_vars(Finalize(p))

FairSpec == Spec /\ Fairness

-----------------------------------------------------------------------------
(* Properties                                                              *)

\* What each control point knows of its handler: which kind of handler it is, that
\* the row was not final when a blind write read it, and that the outcome to write
\* fits the status it is written over.
HandlerOK(h) ==
  /\ h.pc = "heartbeat" => "heartbeat" \in Kinds
  /\ h.pc \in {"persist", "ingest"} => "ingest" \in Kinds
  /\ h.pc = "opsWrite" => "ops" \in Kinds
  /\ h.pc = "new" => h.cb = NoCallback
  /\ h.pc = "writeProgress" => h.seen.progress.matching # "pending"
  /\ h.pc \in {"heartbeat", "persist", "ingest", "opsWrite", "persistJobs"} =>
       h.seen.status \notin Terminal
  /\ h.pc \in {"check", "insert"} => h.cb \in Callbacks
  /\ h.pc \in {"new", "check", "insert", "persistJobs", "promote"} => h.error = "none"
  /\ h.pc \in {"persistJobs", "promote"} => h.to = "COMPLETED"
  /\ h.pc = "promote" => h.seen.status = "PENDING"
  /\ h.pc = "finalize" => /\ h.seen.status \notin Terminal
                          /\ h.to = "COMPLETED" => h.seen.status = "RUNNING"
  /\ h.pc \in {"finalize", "sync"} =>
       \/ h.to = "COMPLETED" /\ h.error = "none"
       \/ h.to = "FAILED" /\ h.error \in {"worker", "watchdog"}

HandlersOK == \A p \in Procs : HandlerOK(req[p])

\* The statements that write the status column without comparing it first.
BlindWrites == {"heartbeat", "ingest", "opsWrite"}

\* A run leaves a terminal status only by the unguarded UPDATE of a heartbeat, an
\* ingest or an ops reconciliation that had read the run before it was finalised:
\* every callback, dispatcher and watchdog is stopped by the status in its WHERE.
ReopenedOnlyByBlindWrite ==
  [][row.status \in Terminal /\ row'.status # row.status =>
       \E p \in Procs : /\ req[p].pc \in BlindWrites
                        /\ req[p].seen.status \notin Terminal
                        /\ req'[p] # req[p]]_vars

\* Whatever interleaving finalised the run, and however often it was reopened
\* before, a completed run carries no error and a failed one carries one.
ErrorMatchesOutcome ==
  /\ row.status = "COMPLETED" => row.error = "none"
  /\ row.status = "FAILED" => row.error # "none"

Accepted(p) == req[p].cb # NoCallback /\ req[p].pc \notin {"check", "insert"}

\* Two deliveries of one callback event never both get past the registration,
\* even when both looked the event up before either inserted it.
EventProcessedOnce ==
  \A p, q \in Callers :
    p # q /\ Accepted(p) /\ Accepted(q) => req[p].cb.id # req[q].cb.id

\* A run is not left in matchingState "pending": some handler is about to replace
\* it, unless a handler died between the two writes of the progress column.
MatchingSettles ==
  row.progress.matching = "pending" =>
    crashed \/ \E p \in Procs : req[p].pc \in {"link", "writeProgress"}

\* A schedule that shows an outcome shows the one its run has, unless two handlers
\* wrote outcomes of the run: the loser of a race to finalise it stamps the schedule
\* with its own, and a blind write leaves the schedule behind.
ScheduleShowsOutcome ==
  schedule.last \in Terminal /\ ~raced => schedule.last = row.status

\* Once a schedule shows the outcome of its run, recording the enqueue of that run
\* does not take it back (the run is tied to the schedule after ENQUEUED is written),
\* and only where handlers raced does another outcome replace it.
ScheduleKeepsOutcome ==
  [][schedule.last \in Terminal =>
       \/ schedule'.last = schedule.last
       \/ schedule'.last \in Terminal /\ raced]_vars

\* The statuses of a run follow ALLOWED_STATUS_TRANSITIONS, whoever writes them.
Lifecycle == INSTANCE RunLifecycle WITH status <- row.status
FollowsLifecycle == Lifecycle!LifecycleSpec

\* Every run is finalised for good, by its callback or by a watchdog.
EventuallyFinal == Lifecycle!EventuallyFinal

=============================================================================
