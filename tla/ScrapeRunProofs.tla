-------------------------- MODULE ScrapeRunProofs --------------------------
(***************************************************************************)
(* Theorems about ScrapeRun for any number of calls, watchdogs, offers and *)
(* callbacks, and for any choice of the kinds of handler that occur.       *)
(***************************************************************************)
EXTENDS ScrapeRun, TLAPS

\* The histories are carried along by every action.
USE DEF history, RacedIf

-----------------------------------------------------------------------------
(* Typing                                                                  *)

LEMMA IdleType == Idle \in Handlers
  BY DEF Idle, Handlers, Points, Snapshots, Statuses, Progress, NoProgress, Errors,
         NoCallback

LEMMA EndedType ==
  ASSUME NEW p, NEW cb \in Callbacks \cup {NoCallback}
  PROVE  Ended(p, cb) \in Handlers
  <1>1. Idle.seen \in Snapshots /\ Idle.ids \subseteq Offers /\ Idle.to \in Statuses
          /\ Idle.error \in Errors
    BY IdleType DEF Handlers
  <1>2. [Idle EXCEPT !.pc = "done", !.cb = cb] \in Handlers
    BY <1>1 DEF Idle, Handlers, Points
  <1> QED
    BY <1>2, IdleType DEF Ended

\* A handler that moves to another control point keeps its type.
LEMMA GotoType ==
  ASSUME req \in [Procs -> Handlers], NEW p \in Procs, NEW h \in Handlers,
         NEW pc \in Points, Goto(p, h, pc)
  PROVE  req' \in [Procs -> Handlers]
  <1>1. [h EXCEPT !.pc = pc] \in Handlers
    BY DEF Handlers
  <1> QED
    BY <1>1 DEF Goto

LEMMA EndType ==
  ASSUME req \in [Procs -> Handlers], NEW p \in Procs,
         NEW cb \in Callbacks \cup {NoCallback},
         req' = [req EXCEPT ![p] = Ended(p, cb)]
  PROVE  req' \in [Procs -> Handlers]
  BY EndedType

LEMMA FinishType ==
  ASSUME req \in [Procs -> Handlers], NEW p \in Procs, Finish(p)
  PROVE  req' \in [Procs -> Handlers]
  <1>1. req[p].cb \in Callbacks \cup {NoCallback}
    BY DEF Handlers
  <1>2. req' = [req EXCEPT ![p] = Ended(p, req[p].cb)]
    BY DEF Finish
  <1> QED
    BY <1>1, <1>2, EndType

LEMMA SnapshotType == row \in Rows => Snapshot \in Snapshots
  BY DEF Rows, Snapshot, Snapshots

LEMMA TransitionType ==
  ASSUME row \in Rows, NEW from, NEW to \in Statuses, NEW error \in Errors,
         Transition(from, to, error)
  PROVE  row' \in Rows
  BY DEF Transition, Rows

LEMMA TypeInit == Init => TypeOK
  <1> SUFFICES ASSUME Init PROVE TypeOK
    OBVIOUS
  <1>1. row \in Rows
    BY DEF Init, NewRow, Rows, Statuses, Errors, Progress, NoProgress
  <1>2. req \in [Procs -> Handlers]
    BY IdleType DEF Init
  <1> QED
    BY <1>1, <1>2 DEF Init, TypeOK

\* The dispatcher and the environment.
LEMMA TypeDispatcher == TypeOK /\ Dispatcher => TypeOK'
  <1> SUFFICES ASSUME TypeOK, Dispatcher PROVE TypeOK'
    OBVIOUS
  <1> USE DEF TypeOK
  <1>1. CASE DispatchAccepted
    <2>1. row' \in Rows
      BY <1>1, TransitionType DEF DispatchAccepted, Statuses, Errors
    <2> QED
      BY <1>1, <2>1 DEF DispatchAccepted
  <1>2. CASE DispatchRejected
    <2>1. row' \in Rows
      BY <1>2, TransitionType DEF DispatchRejected, Statuses, Errors
    <2> QED
      BY <1>2, <2>1 DEF DispatchRejected
  <1>3. CASE DispatchError
    BY <1>3 DEF DispatchError
  <1>4. CASE MarkSchedule
    BY <1>4 DEF MarkSchedule
  <1>5. CASE TieSchedule
    BY <1>5 DEF TieSchedule
  <1> QED
    BY <1>1, <1>2, <1>3, <1>4, <1>5 DEF Dispatcher

LEMMA TypeEnvironment == TypeOK /\ Environment => TypeOK'
  <1> SUFFICES ASSUME TypeOK, Environment PROVE TypeOK'
    OBVIOUS
  <1>1. CASE Silence
    BY <1>1 DEF Silence, TypeOK, Rows
  <1>2. CASE Age
    BY <1>2 DEF Age, TypeOK
  <1>3. CASE Takeover
    BY <1>3 DEF Takeover, TypeOK
  <1> QED
    BY <1>1, <1>2, <1>3 DEF Environment

\* The first statement of each handler.
LEMMA TypeBegin ==
  ASSUME TypeOK, NEW p \in Procs, Begin(p)
  PROVE  TypeOK'
  <1> USE DEF TypeOK
  <1> DEFINE h == req[p]
  <1>0. h \in Handlers /\ [h EXCEPT !.seen = Snapshot] \in Handlers
    BY SnapshotType DEF Handlers
  <1>1. CASE BeginHeartbeat(p)
    <2>1. CASE Finish(p)
      BY <1>1, <2>1, FinishType DEF BeginHeartbeat
    <2>2. CASE Goto(p, [h EXCEPT !.seen = Snapshot], "heartbeat")
      <3>1. req' \in [Procs -> Handlers]
        BY <1>0, <2>2, GotoType DEF Points
      <3> QED
        BY <1>1, <3>1 DEF BeginHeartbeat
    <2> QED
      BY <1>1, <2>1, <2>2 DEF BeginHeartbeat
  <1>2. CASE BeginIngest(p)
    <2>1. CASE Finish(p)
      BY <1>2, <2>1, FinishType DEF BeginIngest
    <2>2. ASSUME NEW jobs \in SUBSET Offers,
                 Goto(p, [h EXCEPT !.seen = Snapshot, !.ids = jobs], "persist")
          PROVE  TypeOK'
      <3>0. [h EXCEPT !.seen = Snapshot, !.ids = jobs] \in Handlers
        BY <1>0 DEF Handlers
      <3>1. req' \in [Procs -> Handlers]
        BY <3>0, <2>2, GotoType DEF Points
      <3> QED
        BY <1>2, <3>1 DEF BeginIngest
    <2> QED
      BY <1>2, <2>1, <2>2 DEF BeginIngest
  <1>3. CASE BeginCallback(p)
    <2>1. PICK cb \in Callbacks : Goto(p, [h EXCEPT !.seen = Snapshot, !.cb = cb], "check")
      BY <1>3 DEF BeginCallback
    <2>2. [h EXCEPT !.seen = Snapshot, !.cb = cb] \in Handlers
      BY <1>0 DEF Handlers
    <2>3. req' \in [Procs -> Handlers]
      BY <2>1, <2>2, GotoType DEF Points
    <2> QED
      BY <1>3, <2>3 DEF BeginCallback
  <1>4. CASE BeginWatchdog(p)
    <2>1. [h EXCEPT !.seen = Snapshot, !.to = "FAILED", !.error = "watchdog"] \in Handlers
      BY <1>0 DEF Handlers, Statuses, Errors
    <2>2. req' \in [Procs -> Handlers]
      BY <1>4, <2>1, GotoType DEF BeginWatchdog, Points
    <2> QED
      BY <1>4, <2>2 DEF BeginWatchdog
  <1>5. CASE BeginOps(p)
    <2>1. req' \in [Procs -> Handlers]
      BY <1>5, <1>0, GotoType DEF BeginOps, Points
    <2> QED
      BY <1>5, <2>1 DEF BeginOps
  <1> QED
    BY <1>1, <1>2, <1>3, <1>4, <1>5 DEF Begin

\* The rows and handlers that the later statements of a handler produce.
LEMMA PartsType ==
  ASSUME TypeOK, NEW p \in Procs
  PROVE  /\ req[p] \in Handlers /\ req[p].seen \in Snapshots
         /\ req[p].seen.status \in Statuses /\ req[p].seen.progress \in Progress
         /\ req[p].cb \in Callbacks \cup {NoCallback} /\ req[p].ids \subseteq Offers
         /\ req[p].to \in Statuses /\ req[p].error \in Errors
  BY DEF TypeOK, Handlers, Snapshots

LEMMA CallbackType ==
  ASSUME NEW cb \in Callbacks
  PROVE  /\ [id |-> cb.id, attempt |-> cb.attempt] \in CallbackEvents
         /\ cb.status \in {"COMPLETED", "FAILED"} /\ cb.jobs \subseteq Offers
  BY ScrapeRunAssumption DEF ScrapeRunAssumption, CallbackEvents

LEMMA JobsType ==
  ASSUME NEW cb \in Callbacks \cup {NoCallback}
  PROVE  cb.jobs \subseteq Offers
  <1>1. NoCallback.jobs = {}
    BY DEF NoCallback
  <1>2. CASE cb \in Callbacks
    BY <1>2, CallbackType
  <1>3. CASE cb = NoCallback
    BY <1>1, <1>3
  <1> QED
    BY <1>2, <1>3

LEMMA TypeBlindWrites ==
  ASSUME TypeOK, NEW p \in Procs, WriteHeartbeat(p) \/ WriteIngest(p) \/ WriteOps(p)
  PROVE  TypeOK'
  <1> USE DEF TypeOK
  <1> DEFINE h == req[p]
             progress == [h.seen.progress EXCEPT !.candidates = TRUE]
  <1>0. /\ Promoted(h.seen.status) \in Statuses /\ NoProgress \in Progress
        /\ progress \in Progress
    BY PartsType DEF Promoted, Statuses, NoProgress, Progress
  <1>1. CASE WriteHeartbeat(p)
    <2>1. row' \in Rows
      BY <1>0, <1>1 DEF WriteHeartbeat, Rows
    <2>2. req' \in [Procs -> Handlers]
      BY <1>1, FinishType DEF WriteHeartbeat
    <2> QED
      BY <1>1, <2>1, <2>2 DEF WriteHeartbeat
  <1>2. CASE WriteIngest(p)
    <2>1. row' \in Rows
      BY <1>0, <1>2 DEF WriteIngest, Rows
    <2>2. [h EXCEPT !.seen.progress = progress] \in Handlers
      BY <1>0 DEF Handlers, Snapshots
    <2>3. req' \in [Procs -> Handlers]
      BY <1>2, <2>2, GotoType DEF WriteIngest, Points
    <2> QED
      BY <1>2, <2>1, <2>3 DEF WriteIngest
  <1>3. CASE WriteOps(p)
    <2>1. row' \in Rows
      BY <1>3 DEF WriteOps, Rows, Statuses, Errors
    <2>2. req' \in [Procs -> Handlers]
      BY <1>3, FinishType DEF WriteOps
    <2> QED
      BY <1>3, <2>1, <2>2 DEF WriteOps
  <1> QED
    BY <1>1, <1>2, <1>3

LEMMA TypeAccept ==
  ASSUME req \in [Procs -> Handlers], NEW p \in Procs, AcceptCallback(p, req[p]),
         req[p].cb \in Callbacks
  PROVE  req' \in [Procs -> Handlers]
  <1> DEFINE h == req[p]
  <1>0. h \in Handlers /\ h.cb \in Callbacks \cup {NoCallback}
    BY DEF Handlers
  <1>a. [h EXCEPT !.to = "FAILED", !.error = "worker"] \in Handlers
    BY <1>0 DEF Handlers, Statuses, Errors
  <1>b. [h EXCEPT !.to = "COMPLETED"] \in Handlers
    BY <1>0 DEF Handlers, Statuses
  <1>c. h.cb.status \in {"COMPLETED", "FAILED"}
    BY CallbackType
  <1>1. CASE h.seen.status \in Terminal
    <2>1. req' = [req EXCEPT ![p] = Ended(p, h.cb)]
      BY <1>1 DEF AcceptCallback
    <2> QED
      BY <1>0, <2>1, EndType
  <1>2. CASE h.cb.status = "FAILED" /\ h.seen.status \notin Terminal
    <2>1. Goto(p, [h EXCEPT !.to = "FAILED", !.error = "worker"], "finalize")
      BY <1>2 DEF AcceptCallback
    <2> QED
      BY <1>a, <2>1, GotoType DEF Points
  <1>3. CASE h.cb.status = "COMPLETED" /\ h.seen.status \notin Terminal
    <2>1. \E pc \in {"persistJobs", "promote", "finalize"} :
             Goto(p, [h EXCEPT !.to = "COMPLETED"], pc)
      BY <1>3 DEF AcceptCallback
    <2> QED
      BY <1>b, <2>1, GotoType DEF Points
  <1> QED
    BY <1>1, <1>2, <1>3, <1>c

LEMMA TypeCallback ==
  ASSUME TypeOK, NEW p \in Procs, HandlerOK(req[p]),
         Check(p) \/ Insert(p) \/ Promote(p) \/ PersistOffers(p)
  PROVE  TypeOK'
  <1> USE DEF TypeOK
  <1> DEFINE h == req[p]
  <1>0. h \in Handlers
    BY PartsType
  <1>1. CASE Check(p)
    <2>1. CASE req' = [req EXCEPT ![p] = Ended(p, NoCallback)]
      BY <1>1, <2>1, EndType DEF Check
    <2>2. CASE Goto(p, h, "insert")
      <3>1. req' \in [Procs -> Handlers]
        BY <1>0, <2>2, GotoType DEF Points
      <3> QED
        BY <1>1, <3>1 DEF Check
    <2> QED
      BY <1>1, <2>1, <2>2 DEF Check
  <1>2. CASE Insert(p)
    <2>1. CASE Registered(h.cb.id)
      <3>1. req' = [req EXCEPT ![p] = Ended(p, NoCallback)] /\ events' = events
        BY <1>2, <2>1 DEF Insert
      <3>2. req' \in [Procs -> Handlers]
        BY <3>1, EndType
      <3> QED
        BY <1>2, <3>1, <3>2 DEF Insert
    <2>2. CASE ~Registered(h.cb.id)
      <3>1. h.cb \in Callbacks
        BY <1>2 DEF Insert, HandlerOK
      <3>2. events' = events \cup {[id |-> h.cb.id, attempt |-> h.cb.attempt]}
              /\ AcceptCallback(p, h)
        BY <1>2, <2>2 DEF Insert
      <3>3. events' \subseteq CallbackEvents
        BY <3>1, <3>2, CallbackType
      <3>4. req' \in [Procs -> Handlers]
        BY <3>1, <3>2, TypeAccept
      <3>5. UNCHANGED <<row, offers, linked, aged, disp, schedule, history>>
        BY <1>2 DEF Insert
      <3> QED
        BY <3>3, <3>4, <3>5
    <2> QED
      BY <2>1, <2>2
  <1>3. CASE Promote(p)
    <2>1. row' \in Rows
      BY <1>3 DEF Promote, Rows, Statuses, Errors
    <2>2. [h EXCEPT !.seen.status = "RUNNING"] \in Handlers
      BY <1>0 DEF Handlers, Snapshots, Statuses
    <2>3. req' \in [Procs -> Handlers]
      BY <1>3, <2>2, GotoType DEF Promote, Points
    <2> QED
      BY <1>3, <2>1, <2>3 DEF Promote
  <1>4. CASE PersistOffers(p)
    <2>a. h.cb \in Callbacks \cup {NoCallback} /\ h.ids \subseteq Offers
      BY <1>0 DEF Handlers
    <2>1. h.cb.jobs \subseteq Offers
      BY <2>a, JobsType
    <2>2. CASE h.pc = "persist"
      <3>1. Goto(p, h, "ingest") /\ offers' = offers \cup h.ids
        BY <1>4, <2>2 DEF PersistOffers
      <3>2. req' \in [Procs -> Handlers]
        BY <1>0, <3>1, GotoType DEF Points
      <3>3. UNCHANGED <<row, linked, events, aged, disp, schedule, history>>
        BY <1>4 DEF PersistOffers
      <3> QED
        BY <2>a, <3>1, <3>2, <3>3
    <2>3. CASE h.pc = "persistJobs"
      <3>1. /\ Goto(p, h, "promote") \/ Goto(p, h, "finalize")
            /\ offers' = offers \cup h.cb.jobs
        BY <1>4, <2>3 DEF PersistOffers
      <3>2. req' \in [Procs -> Handlers]
        BY <1>0, <3>1, GotoType DEF Points
      <3>3. UNCHANGED <<row, linked, events, aged, disp, schedule, history>>
        BY <1>4 DEF PersistOffers
      <3> QED
        BY <2>1, <3>1, <3>2, <3>3
    <2> QED
      BY <1>4, <2>2, <2>3 DEF PersistOffers
  <1> QED
    BY <1>1, <1>2, <1>3, <1>4

\* Where the two statements of a finalisation leave their handler.
LEMMA FinalizationMoves ==
  ASSUME NEW p \in Procs
  PROVE  /\ Finalize(p) => Goto(p, req[p], "sync")
         /\ SyncSchedule(p) => Goto(p, req[p], "select") \/ Finish(p)
  BY DEF Finalize, SyncSchedule, Continue

LEMMA TypeFinalization ==
  ASSUME TypeOK, NEW p \in Procs, HandlerOK(req[p]), Finalize(p) \/ SyncSchedule(p)
  PROVE  TypeOK'
  <1> USE DEF TypeOK
  <1> DEFINE h == req[p]
  <1>0. h \in Handlers /\ h.to \in Statuses /\ h.error \in Errors
    BY DEF Handlers
  <1>1. CASE Finalize(p)
    <2>1. row' \in Rows
      BY <1>0, <1>1, TransitionType DEF Finalize
    <2>2. req' \in [Procs -> Handlers]
      <3>1. Goto(p, h, "sync")
        BY <1>1, FinalizationMoves
      <3> QED
        BY <1>0, <3>1, GotoType, FinishType DEF Points
    <2> QED
      BY <1>1, <2>1, <2>2 DEF Finalize
  <1>2. CASE SyncSchedule(p)
    <2>0. h.to \in {"COMPLETED", "FAILED"}
      BY <1>2 DEF SyncSchedule, HandlerOK
    <2>1. schedule' \in [last : {"", "ENQUEUED", "ENQUEUE_FAILED", "COMPLETED", "FAILED"},
                         tied : BOOLEAN]
      BY <1>2, <2>0 DEF SyncSchedule
    <2>2. req' \in [Procs -> Handlers]
      <3>1. Goto(p, h, "select") \/ Finish(p)
        BY <1>2, FinalizationMoves
      <3> QED
        BY <1>0, <3>1, GotoType, FinishType DEF Points
    <2> QED
      BY <1>2, <2>1, <2>2 DEF SyncSchedule
  <1> QED
    BY <1>1, <1>2

LEMMA TypeLinking ==
  ASSUME TypeOK, NEW p \in Procs,
         SelectOffers(p) \/ WritePending(p) \/ Link(p) \/ WriteProgress(p)
  PROVE  TypeOK'
  <1> USE DEF TypeOK
  <1> DEFINE h == req[p]
  <1>0. h \in Handlers /\ h.seen.progress \in Progress /\ h.ids \subseteq Offers
    BY DEF Handlers, Snapshots
  <1>1. CASE SelectOffers(p)
    <2> DEFINE g == [h EXCEPT !.ids = offers]
               candidates == offers # {} \/ (p \in Watchdogs /\ g.seen.progress.candidates)
               Progressing(matching) == [g EXCEPT !.seen.progress.candidates = candidates,
                                                  !.seen.progress.matching = matching]
    <2>1. \/ Finish(p)
          \/ Goto(p, Progressing("completed"), "writeProgress")
          \/ Goto(p, Progressing("pending"), "writePending")
      BY <1>1 DEF SelectOffers
    <2>2. g \in Handlers /\ candidates \in BOOLEAN
      BY <1>0 DEF Handlers, Snapshots, Progress
    <2>3. Progressing("completed") \in Handlers /\ Progressing("pending") \in Handlers
      BY <2>2 DEF Handlers, Snapshots, Progress
    <2>4. req' \in [Procs -> Handlers]
      BY <2>1, <2>3, GotoType, FinishType DEF Points
    <2> QED
      BY <1>1, <2>4 DEF SelectOffers
  <1>2. CASE WritePending(p)
    <2>1. row' \in Rows
      BY <1>0, <1>2 DEF WritePending, Rows
    <2>2. req' \in [Procs -> Handlers]
      BY <1>0, <1>2, GotoType DEF WritePending, Points
    <2> QED
      BY <1>2, <2>1, <2>2 DEF WritePending
  <1>3. CASE Link(p)
    <2>1. PICK outcome \in {"completed", "owed", "degraded"} :
            /\ linked' \in {linked, linked \cup h.ids}
            /\ Goto(p, [h EXCEPT
                          !.seen.progress.candidates = @ \/ h.ids # {},
                          !.seen.progress.inserted =
                              IF outcome \in {"completed", "degraded"} /\ h.ids # {}
                              THEN linked' # {} ELSE @,
                          !.seen.progress.matching =
                              IF outcome = "degraded" THEN "completed" ELSE outcome],
                    "writeProgress")
      BY <1>3 DEF Link
    <2>2. linked' \subseteq Offers
      BY <1>0, <2>1
    <2>3. [h EXCEPT
             !.seen.progress.candidates = @ \/ h.ids # {},
             !.seen.progress.inserted =
                 IF outcome \in {"completed", "degraded"} /\ h.ids # {}
                 THEN linked' # {} ELSE @,
             !.seen.progress.matching =
                 IF outcome = "degraded" THEN "completed" ELSE outcome] \in Handlers
      BY <1>0 DEF Handlers, Snapshots, Progress
    <2>4. req' \in [Procs -> Handlers]
      BY <2>1, <2>3, GotoType DEF Points
    <2> QED
      BY <1>3, <2>2, <2>4 DEF Link
  <1>4. CASE WriteProgress(p)
    <2>1. row' \in Rows
      BY <1>0, <1>4 DEF WriteProgress, Rows
    <2>2. req' \in [Procs -> Handlers]
      BY <1>4, FinishType DEF WriteProgress
    <2> QED
      BY <1>4, <2>1, <2>2 DEF WriteProgress
  <1> QED
    BY <1>1, <1>2, <1>3, <1>4

LEMMA TypeAbort ==
  ASSUME TypeOK, NEW p \in Procs, Abort(p)
  PROVE  TypeOK'
  <1> USE DEF TypeOK
  <1>1. \E cb \in Callbacks \cup {NoCallback} : req' = [req EXCEPT ![p] = Ended(p, cb)]
    <2>1. req[p].cb \in Callbacks \cup {NoCallback}
      BY PartsType
    <2> QED
      BY <2>1 DEF Abort
  <1>2. req' \in [Procs -> Handlers]
    BY <1>1, EndType
  <1> QED
    BY <1>2 DEF Abort

LEMMA TypeStep == TypeOK /\ HandlersOK /\ [Next]_vars => TypeOK'
  <1> SUFFICES ASSUME TypeOK, HandlersOK, [Next]_vars PROVE TypeOK'
    OBVIOUS
  <1>1. CASE Dispatcher
    BY <1>1, TypeDispatcher
  <1>2. CASE Environment
    BY <1>2, TypeEnvironment
  <1>3. ASSUME NEW p \in Procs, Begin(p) PROVE TypeOK'
    BY <1>3, TypeBegin
  <1>4. ASSUME NEW p \in Procs, Abort(p) PROVE TypeOK'
    BY <1>4, TypeAbort
  <1>5. ASSUME NEW p \in Procs, Step(p) PROVE TypeOK'
    <2>1. HandlerOK(req[p])
      BY DEF HandlersOK
    <2> QED
      BY <1>5, <2>1, TypeBlindWrites, TypeCallback, TypeFinalization, TypeLinking DEF Step
  <1>6. CASE UNCHANGED vars
    BY <1>6 DEF vars, TypeOK
  <1> QED
    BY <1>1, <1>2, <1>3, <1>4, <1>5, <1>6 DEF Next

-----------------------------------------------------------------------------
(* What the control points know                                            *)

LEMMA IdleOK == HandlerOK(Idle)
  BY DEF HandlerOK, Idle

LEMMA EndedOK ==
  ASSUME NEW p, NEW cb
  PROVE  HandlerOK(Ended(p, cb))
  <1>1. HandlerOK([Idle EXCEPT !.pc = "done", !.cb = cb])
    BY DEF HandlerOK, Idle
  <1> QED
    BY <1>1, IdleOK DEF Ended

\* A step of one handler leaves the others as they were.
LEMMA OneHandlerOK ==
  ASSUME TypeOK, HandlersOK, NEW p \in Procs, NEW h,
         req' = [req EXCEPT ![p] = h], HandlerOK(h)
  PROVE  HandlersOK'
  BY DEF TypeOK, HandlersOK

LEMMA FinishOK ==
  ASSUME TypeOK, HandlersOK, NEW p \in Procs, Finish(p)
  PROVE  HandlersOK'
  BY EndedOK, OneHandlerOK DEF Finish

LEMMA BeginOK ==
  ASSUME TypeOK, HandlersOK, NEW p \in Procs, Begin(p)
  PROVE  HandlersOK'
  <1> DEFINE h == req[p]
  <1>0. h \in Handlers
    BY PartsType
  <1>1. CASE BeginHeartbeat(p)
    <2>1. CASE row.status \in Terminal
      BY <1>1, <2>1, FinishOK DEF BeginHeartbeat
    <2>2. CASE row.status \notin Terminal
      <3> DEFINE g == [[h EXCEPT !.seen = Snapshot] EXCEPT !.pc = "heartbeat"]
      <3>1. req' = [req EXCEPT ![p] = g]
        BY <1>1, <2>2 DEF BeginHeartbeat, Goto
      <3>2. HandlerOK(g)
        BY <1>0, <1>1, <2>2 DEF BeginHeartbeat, HandlerOK, Handlers, Snapshot
      <3> QED
        BY <3>1, <3>2, OneHandlerOK
    <2> QED
      BY <2>1, <2>2
  <1>2. CASE BeginIngest(p)
    <2>1. CASE Finish(p)
      BY <2>1, FinishOK
    <2>2. CASE ~Finish(p)
      <3>1. PICK jobs \in SUBSET Offers :
              /\ row.status \notin Terminal
              /\ Goto(p, [h EXCEPT !.seen = Snapshot, !.ids = jobs], "persist")
        BY <1>2, <2>2 DEF BeginIngest
      <3> DEFINE g == [[h EXCEPT !.seen = Snapshot, !.ids = jobs] EXCEPT !.pc = "persist"]
      <3>2. req' = [req EXCEPT ![p] = g]
        BY <3>1 DEF Goto
      <3>3. HandlerOK(g)
        BY <1>0, <1>2, <3>1 DEF BeginIngest, HandlerOK, Handlers, Snapshot
      <3> QED
        BY <3>2, <3>3, OneHandlerOK
    <2> QED
      BY <2>1, <2>2
  <1>3. CASE BeginCallback(p)
    <2>1. PICK cb \in Callbacks : Goto(p, [h EXCEPT !.seen = Snapshot, !.cb = cb], "check")
      BY <1>3 DEF BeginCallback
    <2> DEFINE g == [[h EXCEPT !.seen = Snapshot, !.cb = cb] EXCEPT !.pc = "check"]
    <2>2. req' = [req EXCEPT ![p] = g]
      BY <2>1 DEF Goto
    <2>3. h.error = "none"
      BY <1>3 DEF BeginCallback, HandlersOK, HandlerOK
    <2>4. HandlerOK(g)
      BY <1>0, <2>3 DEF HandlerOK, Handlers
    <2> QED
      BY <2>2, <2>4, OneHandlerOK
  <1>4. CASE BeginWatchdog(p)
    <2> DEFINE g == [[h EXCEPT !.seen = Snapshot, !.to = "FAILED", !.error = "watchdog"]
                       EXCEPT !.pc = "finalize"]
    <2>1. req' = [req EXCEPT ![p] = g]
      BY <1>4 DEF BeginWatchdog, Goto
    <2>2. HandlerOK(g)
      BY <1>0, <1>4 DEF BeginWatchdog, StalePending, StaleRunning, HandlerOK, Handlers,
                        Snapshot, Terminal
    <2> QED
      BY <2>1, <2>2, OneHandlerOK
  <1>5. CASE BeginOps(p)
    <2> DEFINE g == [[h EXCEPT !.seen = Snapshot] EXCEPT !.pc = "opsWrite"]
    <2>1. req' = [req EXCEPT ![p] = g]
      BY <1>5 DEF BeginOps, Goto
    <2>2. HandlerOK(g)
      BY <1>0, <1>5 DEF BeginOps, StalePending, StaleRunning, HandlerOK, Handlers,
                        Snapshot, Terminal
    <2> QED
      BY <2>1, <2>2, OneHandlerOK
  <1> QED
    BY <1>1, <1>2, <1>3, <1>4, <1>5 DEF Begin

LEMMA CallbackOK ==
  ASSUME TypeOK, HandlersOK, NEW p \in Procs,
         Check(p) \/ Insert(p) \/ Promote(p) \/ PersistOffers(p)
  PROVE  HandlersOK'
  <1> DEFINE h == req[p]
             At(pc) == [h EXCEPT !.pc = pc]
  <1>0. h \in Handlers /\ HandlerOK(h)
    BY PartsType DEF HandlersOK
  <1>1. CASE Check(p)
    <2>1. CASE req' = [req EXCEPT ![p] = Ended(p, NoCallback)]
      BY <2>1, EndedOK, OneHandlerOK
    <2>2. CASE Goto(p, h, "insert")
      <3>1. HandlerOK(At("insert"))
        BY <1>0, <1>1 DEF Check, HandlerOK, Handlers
      <3> QED
        BY <2>2, <3>1, OneHandlerOK DEF Goto
    <2> QED
      BY <1>1, <2>1, <2>2 DEF Check
  <1>2. CASE Insert(p)
    <2>1. CASE req' = [req EXCEPT ![p] = Ended(p, NoCallback)]
      BY <2>1, EndedOK, OneHandlerOK
    <2>2. CASE AcceptCallback(p, h)
      <3>0. h.error = "none" /\ h.cb.status \in {"COMPLETED", "FAILED"}
              /\ h.seen.status \in Statuses
        BY <1>0, <1>2, CallbackType, PartsType DEF Insert, HandlerOK
      <3>1. CASE h.seen.status \in Terminal
        BY <2>2, <3>1, EndedOK, OneHandlerOK DEF AcceptCallback
      <3>2. CASE h.cb.status = "FAILED" /\ h.seen.status \notin Terminal
        <4> DEFINE g == [[h EXCEPT !.to = "FAILED", !.error = "worker"]
                           EXCEPT !.pc = "finalize"]
        <4>1. req' = [req EXCEPT ![p] = g]
          BY <2>2, <3>2 DEF AcceptCallback, Goto
        <4>2. HandlerOK(g)
          BY <1>0, <3>2 DEF HandlerOK, Handlers
        <4> QED
          BY <4>1, <4>2, OneHandlerOK
      <3>3. CASE h.cb.status = "COMPLETED" /\ h.seen.status \notin Terminal
        <4> DEFINE g(pc) == [[h EXCEPT !.to = "COMPLETED"] EXCEPT !.pc = pc]
        <4>1. CASE h.cb.jobs # {}
          <5>1. req' = [req EXCEPT ![p] = g("persistJobs")]
            BY <2>2, <3>3, <4>1 DEF AcceptCallback, Goto
          <5>2. HandlerOK(g("persistJobs"))
            BY <1>0, <3>0, <3>3 DEF HandlerOK, Handlers
          <5> QED
            BY <5>1, <5>2, OneHandlerOK
        <4>2. CASE h.cb.jobs = {} /\ h.seen.status = "PENDING"
          <5>1. req' = [req EXCEPT ![p] = g("promote")]
            BY <2>2, <3>3, <4>2 DEF AcceptCallback, Goto
          <5>2. HandlerOK(g("promote"))
            BY <1>0, <3>0, <4>2 DEF HandlerOK, Handlers
          <5> QED
            BY <5>1, <5>2, OneHandlerOK
        <4>3. CASE h.cb.jobs = {} /\ h.seen.status # "PENDING"
          <5>1. req' = [req EXCEPT ![p] = g("finalize")]
            BY <2>2, <3>3, <4>3 DEF AcceptCallback, Goto
          <5>2. HandlerOK(g("finalize"))
            BY <1>0, <3>0, <3>3, <4>3 DEF HandlerOK, Handlers, Statuses, Terminal
          <5> QED
            BY <5>1, <5>2, OneHandlerOK
        <4> QED
          BY <4>1, <4>2, <4>3
      <3> QED
        BY <3>0, <3>1, <3>2, <3>3
    <2> QED
      BY <1>2, <2>1, <2>2 DEF Insert
  <1>3. CASE Promote(p)
    <2> DEFINE g == [[h EXCEPT !.seen.status = "RUNNING"] EXCEPT !.pc = "finalize"]
    <2>1. req' = [req EXCEPT ![p] = g]
      BY <1>3 DEF Promote, Goto
    <2>2. HandlerOK(g)
      BY <1>0, <1>3 DEF Promote, HandlerOK, Handlers, Snapshots, Terminal
    <2> QED
      BY <2>1, <2>2, OneHandlerOK
  <1>4. CASE PersistOffers(p)
    <2>0. h.seen.status \in Statuses
      BY PartsType
    <2>1. CASE h.pc = "persist"
      <3>1. Goto(p, h, "ingest")
        BY <1>4, <2>1 DEF PersistOffers
      <3>2. HandlerOK(At("ingest"))
        BY <1>0, <2>1 DEF HandlerOK, Handlers
      <3> QED
        BY <3>1, <3>2, OneHandlerOK DEF Goto
    <2>2. CASE h.pc = "persistJobs" /\ h.seen.status = "PENDING"
      <3>1. Goto(p, h, "promote")
        BY <1>4, <2>2 DEF PersistOffers
      <3>2. HandlerOK(At("promote"))
        BY <1>0, <2>2 DEF HandlerOK, Handlers
      <3> QED
        BY <3>1, <3>2, OneHandlerOK DEF Goto
    <2>3. CASE h.pc = "persistJobs" /\ h.seen.status # "PENDING"
      <3>1. Goto(p, h, "finalize")
        BY <1>4, <2>3 DEF PersistOffers
      <3>2. HandlerOK(At("finalize"))
        BY <1>0, <2>0, <2>3 DEF HandlerOK, Handlers, Statuses, Terminal
      <3> QED
        BY <3>1, <3>2, OneHandlerOK DEF Goto
    <2> QED
      BY <1>4, <2>1, <2>2, <2>3 DEF PersistOffers
  <1> QED
    BY <1>1, <1>2, <1>3, <1>4

\* The other statements move to control points that ask little of the handler.
LEMMA OtherStepsOK ==
  ASSUME TypeOK, HandlersOK, NEW p \in Procs,
         \/ WriteHeartbeat(p) \/ WriteIngest(p) \/ WriteOps(p) \/ WriteProgress(p)
         \/ Finalize(p) \/ SyncSchedule(p) \/ SelectOffers(p) \/ WritePending(p) \/ Link(p)
  PROVE  HandlersOK'
  <1> DEFINE h == req[p]
  <1>0. h \in Handlers /\ HandlerOK(h)
    BY PartsType DEF HandlersOK
  <1>1. CASE WriteHeartbeat(p) \/ WriteOps(p) \/ WriteProgress(p)
    BY <1>1, FinishOK DEF WriteHeartbeat, WriteOps, WriteProgress
  <1>2. ASSUME NEW g \in Handlers, NEW pc \in {"select", "link"}, Goto(p, g, pc)
        PROVE  HandlersOK'
    <2>1. HandlerOK([g EXCEPT !.pc = pc])
      BY <1>2 DEF HandlerOK, Handlers
    <2> QED
      BY <1>2, <2>1, OneHandlerOK DEF Goto
  <1>3. CASE Finalize(p)
    <2>1. HandlerOK([h EXCEPT !.pc = "sync"])
      BY <1>0, <1>3 DEF Finalize, HandlerOK, Handlers
    <2>2. CASE Goto(p, h, "sync")
      BY <2>1, <2>2, OneHandlerOK DEF Goto
    <2> QED
      BY <1>0, <1>2, <1>3, <2>2, FinalizationMoves, FinishOK
  <1>4. CASE SyncSchedule(p)
    <2>1. Goto(p, h, "select") \/ Finish(p)
      BY <1>4, FinalizationMoves
    <2> QED
      BY <1>0, <1>2, <2>1, FinishOK
  <1>5. CASE WritePending(p)
    BY <1>0, <1>2, <1>5 DEF WritePending
  <1>6. ASSUME NEW g, DOMAIN g = DOMAIN h, TypeOK',
               NEW pc \in {"writePending", "link", "writeProgress"}, Goto(p, g, pc),
               pc = "writeProgress" => req'[p].seen.progress.matching # "pending"
        PROVE  HandlersOK'
    <2>1. "pc" \in DOMAIN g
      BY <1>0, <1>6 DEF Handlers
    <2>2. req'[p] = [g EXCEPT !.pc = pc]
      BY <1>6 DEF TypeOK, Goto
    <2>3. HandlerOK([g EXCEPT !.pc = pc])
      BY <2>1, <2>2, <1>6 DEF HandlerOK
    <2> QED
      BY <1>6, <2>3, OneHandlerOK DEF Goto
  <1>7. CASE WriteIngest(p) \/ SelectOffers(p) \/ Link(p)
    <2>1. TypeOK'
      BY <1>7, TypeBlindWrites, TypeLinking
    <2>2. CASE WriteIngest(p)
      <3> DEFINE g == [h EXCEPT !.seen.progress = [h.seen.progress EXCEPT !.candidates = TRUE]]
      <3>1. Goto(p, g, "link") /\ DOMAIN g = DOMAIN h
        BY <2>2 DEF WriteIngest
      <3> QED
        BY <1>6, <2>1, <3>1
    <2>3. CASE SelectOffers(p)
      <3> DEFINE g(matching) ==
                   [[h EXCEPT !.ids = offers] EXCEPT
                      !.seen.progress.candidates =
                          offers # {} \/ (p \in Watchdogs /\ [h EXCEPT !.ids = offers].seen.progress.candidates),
                      !.seen.progress.matching = matching]
      <3>1. \/ Finish(p)
            \/ Goto(p, g("completed"), "writeProgress")
            \/ Goto(p, g("pending"), "writePending")
        BY <2>3 DEF SelectOffers
      <3>2. DOMAIN g("completed") = DOMAIN h /\ DOMAIN g("pending") = DOMAIN h
        OBVIOUS
      <3>3. g("completed").seen.progress.matching = "completed" /\ "pc" \in DOMAIN g("completed")
        BY <1>0 DEF Handlers, Snapshots, Progress
      <3>4. CASE Goto(p, g("completed"), "writeProgress")
        <4>1. req'[p] = [g("completed") EXCEPT !.pc = "writeProgress"]
          BY <3>4 DEF TypeOK, Goto
        <4>2. req'[p].seen = g("completed").seen
          BY <3>2, <4>1
        <4> QED
          BY <1>6, <2>1, <3>2, <3>3, <3>4, <4>2
      <3>5. CASE Goto(p, g("pending"), "writePending")
        BY <1>6, <2>1, <3>2, <3>5
      <3> QED
        BY <3>1, <3>4, <3>5, FinishOK
    <2>4. CASE Link(p)
      <3> DEFINE g(outcome) ==
                   [h EXCEPT
                      !.seen.progress.candidates = @ \/ h.ids # {},
                      !.seen.progress.inserted =
                          IF outcome \in {"completed", "degraded"} /\ h.ids # {}
                          THEN linked' # {} ELSE @,
                      !.seen.progress.matching =
                          IF outcome = "degraded" THEN "completed" ELSE outcome]
      <3>1. PICK outcome \in {"completed", "owed", "degraded"} :
              Goto(p, g(outcome), "writeProgress")
        BY <2>4 DEF Link
      <3>2. DOMAIN g(outcome) = DOMAIN h
        OBVIOUS
      <3>3. g(outcome).seen.progress.matching # "pending"
        BY <1>0 DEF Handlers, Snapshots, Progress
      <3>4. req'[p] = [g(outcome) EXCEPT !.pc = "writeProgress"]
        BY <3>1 DEF TypeOK, Goto
      <3>5. req'[p].seen = g(outcome).seen
        BY <3>2, <3>4
      <3> QED
        BY <1>6, <2>1, <3>1, <3>2, <3>3, <3>5
    <2> QED
      BY <1>7, <2>2, <2>3, <2>4
  <1> QED
    BY <1>1, <1>3, <1>4, <1>5, <1>7

LEMMA AbortOK ==
  ASSUME TypeOK, HandlersOK, NEW p \in Procs, Abort(p)
  PROVE  HandlersOK'
  BY EndedOK, OneHandlerOK DEF Abort

LEMMA HandlersStep == TypeOK /\ HandlersOK /\ [Next]_vars => HandlersOK'
  <1> SUFFICES ASSUME TypeOK, HandlersOK, [Next]_vars PROVE HandlersOK'
    OBVIOUS
  <1>1. CASE Dispatcher
    BY <1>1 DEF Dispatcher, DispatchAccepted, DispatchRejected, DispatchError,
                MarkSchedule, TieSchedule, HandlersOK
  <1>2. CASE Environment
    BY <1>2 DEF Environment, Silence, Age, Takeover, HandlersOK
  <1>3. ASSUME NEW p \in Procs, Begin(p) \/ Step(p) \/ Abort(p) PROVE HandlersOK'
    BY <1>3, BeginOK, CallbackOK, OtherStepsOK, AbortOK DEF Step
  <1>4. CASE UNCHANGED vars
    BY <1>4 DEF vars, HandlersOK
  <1> QED
    BY <1>1, <1>2, <1>3, <1>4 DEF Next

-----------------------------------------------------------------------------
(* The theorems                                                            *)

\* Every variable keeps its type, and every handler knows what its control point
\* says it knows, in every reachable state.
THEOREM TypeCorrect == Spec => [](TypeOK /\ HandlersOK)
  <1>1. Init => TypeOK /\ HandlersOK
    <2>1. Init => HandlersOK
      BY IdleOK DEF Init, HandlersOK
    <2> QED
      BY <2>1, TypeInit
  <1>2. TypeOK /\ HandlersOK /\ [Next]_vars => (TypeOK /\ HandlersOK)'
    BY TypeStep, HandlersStep
  <1> QED
    BY <1>1, <1>2, PTL DEF Spec

StatusKept == row'.status = row.status /\ row'.error = row.error

\* An unguarded write of the status by p, which had read an open run.
Blind(p) ==
  /\ req[p].pc \in BlindWrites /\ req[p].seen.status \notin Terminal /\ req'[p] # req[p]
  /\ raced' = (raced \/ row.status \in Terminal)
  /\ \/ req[p].pc # "opsWrite" /\ row'.status = "RUNNING" /\ row'.error = row.error
     \/ req[p].pc = "opsWrite" /\ row'.status = "FAILED" /\ row'.error = "ops"

\* A guarded write of the final status by p.
Finalizes(p) ==
  /\ req[p].pc = "finalize" /\ row.status = req[p].seen.status
  /\ row'.status = req[p].to /\ row'.error = req[p].error

\* All the ways in which one step can write the status column.
LEMMA StatusWrites ==
  ASSUME TypeOK, HandlersOK, [Next]_vars
  PROVE  \/ StatusKept
         \/ row.status = "PENDING" /\ row'.status = "RUNNING" /\ row'.error = "none"
         \/ row.status = "PENDING" /\ row'.status = "FAILED" /\ row'.error = "dispatch"
         \/ \E p \in Procs : Blind(p) \/ Finalizes(p)
  <1>0. row \in Rows
    BY DEF TypeOK
  <1>1. CASE Dispatcher
    BY <1>0, <1>1 DEF Dispatcher, DispatchAccepted, DispatchRejected, DispatchError,
         MarkSchedule, TieSchedule, Transition, Rows, StatusKept
  <1>2. CASE Environment
    BY <1>0, <1>2 DEF Environment, Silence, Age, Takeover, Rows, StatusKept
  <1>3. ASSUME NEW p \in Procs, Begin(p) \/ Abort(p) PROVE StatusKept
    BY <1>3 DEF Begin, BeginHeartbeat, BeginIngest, BeginCallback, BeginWatchdog, BeginOps,
         Abort, StatusKept
  <1>4. ASSUME NEW p \in Procs, WriteHeartbeat(p) \/ WriteIngest(p) \/ WriteOps(p)
        PROVE  Blind(p)
    <2>0. req[p] \in Handlers /\ HandlerOK(req[p]) /\ req[p].seen.status \in Statuses
            /\ req \in [Procs -> Handlers]
      BY PartsType DEF HandlersOK, TypeOK
    <2>1. req[p].pc \in BlindWrites /\ req[p].seen.status \notin Terminal
      BY <1>4, <2>0 DEF WriteHeartbeat, WriteIngest, WriteOps, BlindWrites, HandlerOK
    <2>2. Promoted(req[p].seen.status) = "RUNNING"
      BY <2>0, <2>1 DEF Promoted, Statuses, Terminal
    <2>3. req'[p].pc # req[p].pc
      <3>1. Ended(p, req[p].cb).pc \in {"new", "done"}
        <4>1. Idle.pc = "new" /\ [Idle EXCEPT !.pc = "done", !.cb = req[p].cb].pc = "done"
          BY DEF Idle
        <4> QED
          BY <4>1 DEF Ended
      <3>2. CASE WriteHeartbeat(p) \/ WriteOps(p)
        BY <2>0, <3>1, <3>2 DEF WriteHeartbeat, WriteOps, Finish
      <3>3. CASE WriteIngest(p)
        <4> DEFINE g == [req[p] EXCEPT !.seen.progress =
                           [req[p].seen.progress EXCEPT !.candidates = TRUE]]
        <4>1. req' = [req EXCEPT ![p] = [g EXCEPT !.pc = "link"]]
          BY <3>3 DEF WriteIngest, Goto
        <4>2. "pc" \in DOMAIN g
          BY <2>0 DEF Handlers
        <4> QED
          BY <2>0, <3>3, <4>1, <4>2 DEF WriteIngest
      <3> QED
        BY <1>4, <3>2, <3>3
    <2>4. \/ req[p].pc # "opsWrite" /\ row'.status = "RUNNING" /\ row'.error = row.error
          \/ req[p].pc = "opsWrite" /\ row'.status = "FAILED" /\ row'.error = "ops"
      BY <1>0, <1>4, <2>2 DEF WriteHeartbeat, WriteIngest, WriteOps, Rows
    <2>5. raced' = (raced \/ row.status \in Terminal)
      BY <1>4 DEF WriteHeartbeat, WriteIngest, WriteOps
    <2> QED
      BY <2>1, <2>3, <2>4, <2>5 DEF Blind
  <1>5. ASSUME NEW p \in Procs, Finalize(p) PROVE Finalizes(p) \/ StatusKept
    BY <1>0, <1>5 DEF Finalize, Transition, Finalizes, StatusKept, Rows
  <1>6. ASSUME NEW p \in Procs, Promote(p)
        PROVE  \/ StatusKept
               \/ row.status = "PENDING" /\ row'.status = "RUNNING" /\ row'.error = "none"
    BY <1>0, <1>6 DEF Promote, StatusKept, Rows
  <1>7. ASSUME NEW p \in Procs,
               \/ PersistOffers(p) \/ Check(p) \/ Insert(p) \/ SyncSchedule(p)
               \/ SelectOffers(p) \/ WritePending(p) \/ Link(p) \/ WriteProgress(p)
        PROVE  StatusKept
    BY <1>0, <1>7 DEF PersistOffers, Check, Insert, SyncSchedule, SelectOffers, WritePending,
         Link, WriteProgress, StatusKept, Rows
  <1>8. CASE UNCHANGED vars
    BY <1>8 DEF vars, StatusKept
  <1> QED
    BY <1>1, <1>2, <1>3, <1>4, <1>5, <1>6, <1>7, <1>8 DEF Next, Step

\* However its handlers interleave, a completed run carries no error and a failed
\* run carries one.
THEOREM ErrorsMatch == Spec => []ErrorMatchesOutcome
  <1>1. Init => ErrorMatchesOutcome
    <2>1. NewRow.status = "PENDING"
      BY DEF NewRow
    <2> QED
      BY <2>1 DEF Init, ErrorMatchesOutcome
  <1>2. TypeOK /\ HandlersOK /\ ErrorMatchesOutcome /\ [Next]_vars => ErrorMatchesOutcome'
    <2> SUFFICES ASSUME TypeOK, HandlersOK, ErrorMatchesOutcome, [Next]_vars
                 PROVE  ErrorMatchesOutcome'
      OBVIOUS
    <2>1. CASE StatusKept
      BY <2>1 DEF StatusKept, ErrorMatchesOutcome
    <2>2. ASSUME NEW p \in Procs, Blind(p) PROVE ErrorMatchesOutcome'
      BY <2>2 DEF Blind, ErrorMatchesOutcome
    <2>3. ASSUME NEW p \in Procs, Finalizes(p) PROVE ErrorMatchesOutcome'
      BY <2>3 DEF Finalizes, HandlersOK, HandlerOK, ErrorMatchesOutcome
    <2> QED
      BY <2>1, <2>2, <2>3, StatusWrites DEF ErrorMatchesOutcome
  <1> QED
    BY <1>1, <1>2, TypeCorrect, PTL DEF Spec

\* Only the unguarded updates ever reopen a run, and only with a stale reading.
THEOREM OnlyBlindWritesReopen == Spec => ReopenedOnlyByBlindWrite
  <1>1. TypeOK /\ HandlersOK /\ [Next]_vars =>
          [row.status \in Terminal /\ row'.status # row.status =>
             \E p \in Procs : /\ req[p].pc \in BlindWrites
                              /\ req[p].seen.status \notin Terminal
                              /\ req'[p] # req[p]]_vars
    <2> SUFFICES ASSUME TypeOK, HandlersOK, [Next]_vars,
                        row.status \in Terminal, row'.status # row.status
                 PROVE  \E p \in Procs : Blind(p)
      BY DEF Blind
    <2>1. ASSUME NEW p \in Procs, Finalizes(p) PROVE FALSE
      BY <2>1 DEF Finalizes, HandlersOK, HandlerOK
    <2> QED
      BY <2>1, StatusWrites DEF StatusKept, Terminal
  <1> QED
    BY <1>1, TypeCorrect, PTL DEF Spec, ReopenedOnlyByBlindWrite

\* Where only callbacks, watchdogs and dispatchers write the run, its statuses follow
\* the table of transitions: the run implements RunLifecycle.
THEOREM GuardedRunsFollowLifecycle ==
  ASSUME Kinds \cap {"heartbeat", "ingest", "ops"} = {}
  PROVE  Spec => FollowsLifecycle
  <1>1. Init => Lifecycle!LifecycleInit
    <2>1. NewRow.status = "PENDING"
      BY DEF NewRow
    <2> QED
      BY <2>1 DEF Init, Lifecycle!LifecycleInit
  <1>2. TypeOK /\ HandlersOK /\ [Next]_vars => [Lifecycle!LifecycleNext]_(row.status)
    <2> SUFFICES ASSUME TypeOK, HandlersOK, [Next]_vars
                 PROVE  [Lifecycle!LifecycleNext]_(row.status)
      OBVIOUS
    <2> USE DEF Lifecycle!LifecycleNext, Lifecycle!Allowed, Lifecycle!Statuses
    <2>1. CASE StatusKept
      BY <2>1 DEF StatusKept
    <2>2. ASSUME NEW p \in Procs, Blind(p) PROVE FALSE
      BY <2>2 DEF Blind, BlindWrites, HandlersOK, HandlerOK
    <2>3. ASSUME NEW p \in Procs, Finalizes(p) PROVE Lifecycle!LifecycleNext
      <3>1. req[p].seen.status \in {"PENDING", "RUNNING"}
        BY <2>3, PartsType DEF Finalizes, HandlersOK, HandlerOK, Statuses, Terminal
      <3> QED
        BY <2>3, <3>1 DEF Finalizes, HandlersOK, HandlerOK
    <2> QED
      BY <2>1, <2>2, <2>3, StatusWrites
  <1> QED
    BY <1>1, <1>2, TypeCorrect, PTL DEF Spec, FollowsLifecycle, Lifecycle!LifecycleSpec

-----------------------------------------------------------------------------
(* Callback events                                                         *)

\* No handler gets past the registration in this step, and none changes callback.
NothingAccepted ==
  /\ events' = events
  /\ \A q \in Procs : Accepted(q)' => Accepted(q) /\ req'[q].cb = req[q].cb

\* p registers its event, which was unknown.
Registers(p) ==
  /\ ~Registered(req[p].cb.id)
  /\ events' = events \cup {[id |-> req[p].cb.id, attempt |-> req[p].cb.attempt]}
  /\ req'[p].cb \in {req[p].cb, NoCallback}
  /\ \A q \in Procs \ {p} : req'[q] = req[q]

LEMMA OneNotAccepted ==
  ASSUME TypeOK, NEW p \in Procs, NEW g, req' = [req EXCEPT ![p] = g], events' = events,
         g.cb # NoCallback /\ g.pc \notin {"check", "insert"} =>
           Accepted(p) /\ g.cb = req[p].cb
  PROVE  NothingAccepted
  BY DEF TypeOK, NothingAccepted, Accepted

LEMMA EndedParts ==
  ASSUME NEW p, NEW cb
  PROVE  Ended(p, cb).cb \in {cb, NoCallback}
  <1>1. Idle.cb = NoCallback /\ [Idle EXCEPT !.pc = "done", !.cb = cb].cb = cb
    BY DEF Idle
  <1> QED
    BY <1>1 DEF Ended

LEMMA EventSteps ==
  ASSUME TypeOK, HandlersOK, [Next]_vars
  PROVE  NothingAccepted \/ \E p \in Procs : Registers(p)
  <1>1. CASE UNCHANGED <<req, events>>
    BY <1>1 DEF NothingAccepted, Accepted
  <1>2. ASSUME NEW p \in Procs, Begin(p) PROVE NothingAccepted
    <2> DEFINE h == req[p]
    <2>0. h \in Handlers /\ h.cb = NoCallback /\ events' = events
      BY <1>2, PartsType DEF HandlersOK, HandlerOK, Begin, BeginHeartbeat, BeginIngest,
         BeginCallback, BeginWatchdog, BeginOps
    <2>1. ASSUME NEW g \in Handlers, NEW pc \in Points, Goto(p, g, pc),
                 g.cb = NoCallback \/ pc = "check"
          PROVE  NothingAccepted
      <3>1. [g EXCEPT !.pc = pc].cb = g.cb /\ [g EXCEPT !.pc = pc].pc = pc
        BY DEF Handlers
      <3> QED
        BY <2>0, <2>1, <3>1, OneNotAccepted DEF Goto
    <2>2. CASE Finish(p)
      BY <2>0, <2>2, EndedParts, OneNotAccepted DEF Finish
    <2>3. [h EXCEPT !.seen = Snapshot] \in Handlers
      BY <2>0, SnapshotType DEF Handlers, TypeOK
    <2>4. CASE BeginHeartbeat(p)
      <3>1. [h EXCEPT !.seen = Snapshot].cb = NoCallback
        BY <2>0 DEF Handlers
      <3> QED
        BY <2>1, <2>2, <2>3, <2>4, <3>1 DEF BeginHeartbeat, Points
    <2>5. CASE BeginIngest(p) /\ ~Finish(p)
      <3>1. PICK jobs \in SUBSET Offers :
              Goto(p, [h EXCEPT !.seen = Snapshot, !.ids = jobs], "persist")
        BY <2>5 DEF BeginIngest
      <3>2. [h EXCEPT !.seen = Snapshot, !.ids = jobs] \in Handlers
              /\ [h EXCEPT !.seen = Snapshot, !.ids = jobs].cb = NoCallback
        BY <2>0, <2>3 DEF Handlers
      <3> QED
        BY <2>1, <3>1, <3>2 DEF Points
    <2>6. CASE BeginCallback(p)
      <3>1. PICK cb \in Callbacks : Goto(p, [h EXCEPT !.seen = Snapshot, !.cb = cb], "check")
        BY <2>6 DEF BeginCallback
      <3>2. [h EXCEPT !.seen = Snapshot, !.cb = cb] \in Handlers
        BY <2>3 DEF Handlers
      <3> QED
        BY <2>1, <3>1, <3>2 DEF Points
    <2>7. CASE BeginWatchdog(p)
      <3> DEFINE g == [h EXCEPT !.seen = Snapshot, !.to = "FAILED", !.error = "watchdog"]
      <3>1. g \in Handlers /\ g.cb = NoCallback
        BY <2>0, <2>3 DEF Handlers, Statuses, Errors
      <3> QED
        BY <2>1, <2>7, <3>1 DEF BeginWatchdog, Points
    <2>8. CASE BeginOps(p)
      <3>1. [h EXCEPT !.seen = Snapshot].cb = NoCallback
        BY <2>0 DEF Handlers
      <3> QED
        BY <2>1, <2>3, <2>8, <3>1 DEF BeginOps, Points
    <2> QED
      BY <1>2, <2>2, <2>4, <2>5, <2>6, <2>7, <2>8 DEF Begin
  <1>3. ASSUME NEW p \in Procs, Abort(p) PROVE NothingAccepted
    <2>1. CASE req[p].pc \in {"check", "insert"}
      BY <1>3, <2>1, EndedParts, OneNotAccepted DEF Abort
    <2>2. CASE req[p].pc \notin {"check", "insert"}
      <3>1. req' = [req EXCEPT ![p] = Ended(p, req[p].cb)] /\ events' = events
        BY <1>3, <2>2 DEF Abort, TypeOK
      <3> QED
        BY <2>2, <3>1, EndedParts, OneNotAccepted DEF Accepted
    <2> QED
      BY <2>1, <2>2
  <1>4. ASSUME NEW p \in Procs, Insert(p)
        PROVE  NothingAccepted \/ Registers(p)
    <2> DEFINE h == req[p]
    <2>0. h \in Handlers
      BY PartsType
    <2>1. CASE Registered(h.cb.id)
      <3>1. req' = [req EXCEPT ![p] = Ended(p, NoCallback)] /\ events' = events
        BY <1>4, <2>1 DEF Insert
      <3> QED
        BY <3>1, EndedParts, OneNotAccepted
    <2>2. CASE ~Registered(h.cb.id)
      <3>1. /\ AcceptCallback(p, h)
            /\ events' = events \cup {[id |-> h.cb.id, attempt |-> h.cb.attempt]}
        BY <1>4, <2>2 DEF Insert
      <3>2. ASSUME NEW g, req' = [req EXCEPT ![p] = g], g.cb \in {h.cb, NoCallback}
            PROVE  Registers(p)
        BY <2>2, <3>1, <3>2 DEF Registers, TypeOK
      <3>3. CASE h.seen.status \in Terminal
        BY <3>1, <3>2, <3>3, EndedParts DEF AcceptCallback
      <3>4. CASE h.cb.status = "FAILED" /\ h.seen.status \notin Terminal
        <4> DEFINE g == [[h EXCEPT !.to = "FAILED", !.error = "worker"] EXCEPT !.pc = "finalize"]
        <4>1. req' = [req EXCEPT ![p] = g]
          BY <3>1, <3>4 DEF AcceptCallback, Goto
        <4>2. g.cb = h.cb
          BY <2>0 DEF Handlers
        <4> QED
          BY <3>2, <4>1, <4>2
      <3>5. CASE h.cb.status = "COMPLETED" /\ h.seen.status \notin Terminal
        <4> DEFINE g(pc) == [[h EXCEPT !.to = "COMPLETED"] EXCEPT !.pc = pc]
        <4>1. PICK pc : req' = [req EXCEPT ![p] = g(pc)]
          BY <3>1, <3>5 DEF AcceptCallback, Goto
        <4>2. g(pc).cb = h.cb
          BY <2>0 DEF Handlers
        <4> QED
          BY <3>2, <4>1, <4>2
      <3>6. h.cb.status \in {"COMPLETED", "FAILED"}
        BY <1>4, CallbackType DEF Insert, HandlersOK, HandlerOK
      <3> QED
        BY <3>3, <3>4, <3>5, <3>6
    <2> QED
      BY <2>1, <2>2
  <1>5. ASSUME NEW p \in Procs, Check(p) PROVE NothingAccepted
    <2>1. CASE req' = [req EXCEPT ![p] = Ended(p, NoCallback)]
      BY <1>5, <2>1, EndedParts, OneNotAccepted DEF Check
    <2>2. CASE Goto(p, req[p], "insert")
      <3>1. [req[p] EXCEPT !.pc = "insert"].pc = "insert"
        BY PartsType DEF Handlers
      <3> QED
        BY <1>5, <2>2, <3>1, OneNotAccepted DEF Goto, Check
    <2> QED
      BY <1>5, <2>1, <2>2 DEF Check
  \* The statements after the registration keep the callback or drop it at the end.
  <1>6. ASSUME NEW p \in Procs, Step(p), ~Check(p), ~Insert(p)
        PROVE  NothingAccepted
    <2> DEFINE h == req[p]
    <2>0. h \in Handlers /\ h.pc \notin {"check", "insert"} /\ events' = events
      BY <1>6, PartsType DEF Step, WriteHeartbeat, PersistOffers, WriteIngest, Promote, Finalize,
         SyncSchedule, SelectOffers, WritePending, Link, WriteProgress, WriteOps
    <2>1. ASSUME NEW g, NEW pc, Goto(p, g, pc), g.cb = h.cb, DOMAIN g = DOMAIN h
          PROVE  NothingAccepted
      <3>1. [g EXCEPT !.pc = pc].cb = h.cb
        BY <2>1
      <3> QED
        BY <2>0, <2>1, <3>1, OneNotAccepted DEF Goto, Accepted
    <2>2. CASE Finish(p)
      BY <2>0, <2>2, EndedParts, OneNotAccepted DEF Finish, Accepted
    <2>3. CASE \/ WriteHeartbeat(p) \/ PersistOffers(p) \/ Finalize(p) \/ SyncSchedule(p)
               \/ WritePending(p) \/ WriteProgress(p) \/ WriteOps(p)
      <3>1. Finish(p) \/ \E pc : Goto(p, h, pc)
        BY <2>3, FinalizationMoves DEF WriteHeartbeat, PersistOffers, WritePending,
           WriteProgress, WriteOps
      <3> QED
        BY <2>1, <2>2, <3>1
    <2>4. CASE WriteIngest(p)
      <3> DEFINE g == [h EXCEPT !.seen.progress = [h.seen.progress EXCEPT !.candidates = TRUE]]
      <3>1. Goto(p, g, "link") /\ g.cb = h.cb /\ DOMAIN g = DOMAIN h
        BY <2>0, <2>4 DEF WriteIngest, Handlers
      <3> QED
        BY <2>1, <3>1
    <2>5. CASE Promote(p)
      <3> DEFINE g == [h EXCEPT !.seen.status = "RUNNING"]
      <3>1. Goto(p, g, "finalize") /\ g.cb = h.cb /\ DOMAIN g = DOMAIN h
        BY <2>0, <2>5 DEF Promote, Handlers
      <3> QED
        BY <2>1, <3>1
    <2>6. CASE SelectOffers(p)
      <3> DEFINE g(matching) ==
                   [[h EXCEPT !.ids = offers] EXCEPT
                      !.seen.progress.candidates =
                          offers # {} \/ (p \in Watchdogs /\ [h EXCEPT !.ids = offers].seen.progress.candidates),
                      !.seen.progress.matching = matching]
      <3>1. \/ Finish(p)
            \/ Goto(p, g("completed"), "writeProgress")
            \/ Goto(p, g("pending"), "writePending")
        BY <2>6 DEF SelectOffers
      <3>2. DOMAIN g("completed") = DOMAIN h /\ DOMAIN g("pending") = DOMAIN h
        OBVIOUS
      <3>3. g("completed").cb = h.cb /\ g("pending").cb = h.cb
        BY <2>0 DEF Handlers
      <3> QED
        BY <2>1, <2>2, <3>1, <3>2, <3>3
    <2>7. CASE Link(p)
      <3> DEFINE g(outcome) ==
                   [h EXCEPT
                      !.seen.progress.candidates = @ \/ h.ids # {},
                      !.seen.progress.inserted =
                          IF outcome \in {"completed", "degraded"} /\ h.ids # {}
                          THEN linked' # {} ELSE @,
                      !.seen.progress.matching =
                          IF outcome = "degraded" THEN "completed" ELSE outcome]
      <3>1. PICK outcome : Goto(p, g(outcome), "writeProgress")
        BY <2>7 DEF Link
      <3>2. DOMAIN g(outcome) = DOMAIN h
        OBVIOUS
      <3>3. g(outcome).cb = h.cb
        BY <2>0 DEF Handlers
      <3> QED
        BY <2>1, <3>1, <3>2, <3>3
    <2> QED
      BY <1>6, <2>3, <2>4, <2>5, <2>6, <2>7 DEF Step
  <1>7. Dispatcher \/ Environment \/ UNCHANGED vars => UNCHANGED <<req, events>>
    BY DEF Dispatcher, DispatchAccepted, DispatchRejected, DispatchError, MarkSchedule,
       TieSchedule, Environment, Silence, Age, Takeover, vars
  <1> QED
    BY <1>1, <1>2, <1>3, <1>4, <1>5, <1>6, <1>7 DEF Next

\* A handler past the registration holds a registered event, and no other handler
\* holds the same one: a callback event is processed once, whatever is delivered how
\* often and however the deliveries interleave.
AcceptedRegistered == \A p \in Procs : Accepted(p) => Registered(req[p].cb.id)

THEOREM EventsProcessedOnce == Spec => []EventProcessedOnce
  <1> DEFINE Inv == AcceptedRegistered /\ EventProcessedOnce
  <1>1. Init => Inv
    <2>1. Idle.cb = NoCallback
      BY DEF Idle
    <2> QED
      BY <2>1 DEF Init, AcceptedRegistered, EventProcessedOnce, Accepted, Procs
  <1>2. TypeOK /\ HandlersOK /\ Inv /\ [Next]_vars => Inv'
    <2> SUFFICES ASSUME TypeOK, HandlersOK, Inv, [Next]_vars PROVE Inv'
      OBVIOUS
    <2>1. CASE NothingAccepted
      BY <2>1 DEF NothingAccepted, AcceptedRegistered, EventProcessedOnce, Registered, Procs
    <2>2. ASSUME NEW p \in Procs, Registers(p) PROVE Inv'
      <3>1. Accepted(p)' => req'[p].cb = req[p].cb
        BY <2>2 DEF Registers, Accepted
      <3>2. \A q \in Procs \ {p} : req'[q].cb = req[q].cb /\ (Accepted(q)' => Accepted(q))
        BY <2>2 DEF Registers, Accepted
      <3>3. events \subseteq events' /\ \E e \in events' : e.id = req[p].cb.id
        <4> DEFINE e == [id |-> req[p].cb.id, attempt |-> req[p].cb.attempt]
        <4>1. events' = events \cup {e}
          BY <2>2 DEF Registers
        <4>2. e \in events' /\ e.id = req[p].cb.id
          BY <4>1
        <4> QED
          BY <4>1, <4>2
      <3>4. AcceptedRegistered'
        BY <3>1, <3>2, <3>3 DEF AcceptedRegistered, Registered
      <3>5. \A q \in Procs \ {p} : Accepted(q) => req[q].cb.id # req[p].cb.id
        BY <2>2 DEF Registers, AcceptedRegistered
      <3>6. EventProcessedOnce'
        BY <3>1, <3>2, <3>5 DEF EventProcessedOnce, Procs
      <3> QED
        BY <3>4, <3>6
    <2> QED
      BY <2>1, <2>2, EventSteps
  <1> QED
    BY <1>1, <1>2, TypeCorrect, PTL DEF Spec

-----------------------------------------------------------------------------
(* The schedule and the linking state                                      *)

\* The statements that write the schedule.
LEMMA ScheduleWrites ==
  ASSUME [Next]_vars
  PROVE  \/ schedule' = schedule /\ (disp = "done" => disp' = "done")
         \/ MarkSchedule \/ TieSchedule \/ \E p \in Procs : SyncSchedule(p)
  <1>1. CASE Dispatcher \/ Environment \/ UNCHANGED vars
    BY <1>1 DEF Dispatcher, DispatchAccepted, DispatchRejected, DispatchError,
       Environment, Silence, Age, Takeover, vars
  <1>2. ASSUME NEW p \in Procs, Begin(p) \/ Step(p) \/ Abort(p), ~SyncSchedule(p)
        PROVE  schedule' = schedule /\ disp' = disp
    BY <1>2 DEF Begin, BeginHeartbeat, BeginIngest, BeginCallback, BeginWatchdog, BeginOps,
       Abort, Step, WriteHeartbeat, PersistOffers, WriteIngest, Check, Insert, Promote,
       Finalize, SelectOffers, WritePending, Link, WriteProgress, WriteOps
  <1> QED
    BY <1>1, <1>2 DEF Next

\* No step but Finalize takes a handler to the sync of the schedule.
NoneToSync == \A q \in Procs : req'[q].pc = "sync" => req'[q] = req[q]

\* Moving one handler anywhere else.
LEMMA MovesElsewhere ==
  ASSUME TypeOK, NEW p \in Procs, NEW g, DOMAIN g = DOMAIN req[p],
         NEW pc, pc # "sync", Goto(p, g, pc)
  PROVE  NoneToSync
  <1>1. req \in [Procs -> Handlers]
    BY DEF TypeOK
  <1>2. [g EXCEPT !.pc = pc].pc = pc
    BY <1>1 DEF Handlers
  <1> QED
    BY <1>1, <1>2 DEF Goto, NoneToSync

LEMMA EndsElsewhere ==
  ASSUME TypeOK, NEW p \in Procs, NEW cb, req' = [req EXCEPT ![p] = Ended(p, cb)]
  PROVE  NoneToSync
  <1>1. Ended(p, cb).pc \in {"new", "done"}
    <2>1. Idle.pc = "new" /\ [Idle EXCEPT !.pc = "done", !.cb = cb].pc = "done"
      BY DEF Idle
    <2> QED
      BY <2>1 DEF Ended
  <1> QED
    BY <1>1 DEF TypeOK, NoneToSync

LEMMA SyncSteps ==
  ASSUME TypeOK, HandlersOK, [Next]_vars
  PROVE  NoneToSync \/ \E p \in Procs : Finalize(p)
  <1>1. CASE Dispatcher \/ Environment \/ UNCHANGED vars
    BY <1>1 DEF Dispatcher, DispatchAccepted, DispatchRejected, DispatchError, MarkSchedule,
       TieSchedule, Environment, Silence, Age, Takeover, vars, NoneToSync
  <1>2. ASSUME NEW p \in Procs, Begin(p) PROVE NoneToSync
    <2> DEFINE h == req[p]
    <2>1. CASE Finish(p)
      BY <2>1, EndsElsewhere DEF Finish
    <2>2. CASE BeginHeartbeat(p) \/ BeginOps(p)
      <3>1. DOMAIN [h EXCEPT !.seen = Snapshot] = DOMAIN h
        OBVIOUS
      <3> QED
        BY <2>1, <2>2, <3>1, MovesElsewhere DEF BeginHeartbeat, BeginOps
    <2>3. CASE BeginIngest(p)
      <3>1. Finish(p) \/ \E jobs : Goto(p, [h EXCEPT !.seen = Snapshot, !.ids = jobs], "persist")
        BY <2>3 DEF BeginIngest
      <3>2. \A jobs : DOMAIN [h EXCEPT !.seen = Snapshot, !.ids = jobs] = DOMAIN h
        OBVIOUS
      <3> QED
        BY <2>1, <3>1, <3>2, MovesElsewhere
    <2>4. CASE BeginCallback(p)
      <3>1. PICK cb : Goto(p, [h EXCEPT !.seen = Snapshot, !.cb = cb], "check")
        BY <2>4 DEF BeginCallback
      <3>2. DOMAIN [h EXCEPT !.seen = Snapshot, !.cb = cb] = DOMAIN h
        OBVIOUS
      <3> QED
        BY <3>1, <3>2, MovesElsewhere
    <2>5. CASE BeginWatchdog(p)
      <3> DEFINE g == [h EXCEPT !.seen = Snapshot, !.to = "FAILED", !.error = "watchdog"]
      <3>1. Goto(p, g, "finalize") /\ DOMAIN g = DOMAIN h
        BY <2>5 DEF BeginWatchdog
      <3> QED
        BY <3>1, MovesElsewhere
    <2> QED
      BY <1>2, <2>2, <2>3, <2>4, <2>5 DEF Begin
  <1>3. ASSUME NEW p \in Procs, Abort(p) PROVE NoneToSync
    <2>1. \E cb : req' = [req EXCEPT ![p] = Ended(p, cb)]
      BY <1>3 DEF Abort
    <2> QED
      BY <2>1, EndsElsewhere
  <1>4. ASSUME NEW p \in Procs, Insert(p) PROVE NoneToSync
    <2> DEFINE h == req[p]
    <2>1. CASE \E cb : req' = [req EXCEPT ![p] = Ended(p, cb)]
      BY <2>1, EndsElsewhere
    <2>2. CASE AcceptCallback(p, h)
      <3> DEFINE f == [h EXCEPT !.to = "FAILED", !.error = "worker"]
                 c == [h EXCEPT !.to = "COMPLETED"]
      <3>1. DOMAIN f = DOMAIN h /\ DOMAIN c = DOMAIN h
        OBVIOUS
      <3>2. h.cb.status \in {"COMPLETED", "FAILED"}
        BY <1>4, CallbackType DEF Insert, HandlersOK, HandlerOK
      <3>3. \/ req' = [req EXCEPT ![p] = Ended(p, h.cb)]
            \/ Goto(p, f, "finalize")
            \/ \E pc \in {"persistJobs", "promote", "finalize"} : Goto(p, c, pc)
        BY <2>2, <3>2 DEF AcceptCallback
      <3> QED
        BY <2>1, <3>1, <3>3, MovesElsewhere
    <2> QED
      BY <1>4, <2>1, <2>2 DEF Insert
  <1>5. ASSUME NEW p \in Procs, Step(p), ~Finalize(p), ~Insert(p) PROVE NoneToSync
    <2> DEFINE h == req[p]
    <2>1. CASE Finish(p)
      BY <2>1, EndsElsewhere DEF Finish
    <2>2. CASE \/ WriteHeartbeat(p) \/ PersistOffers(p) \/ SyncSchedule(p)
               \/ WritePending(p) \/ WriteProgress(p) \/ WriteOps(p)
      <3>1. \/ Finish(p)
            \/ \E pc \in {"ingest", "promote", "finalize", "select", "link"} : Goto(p, h, pc)
        BY <2>2, FinalizationMoves DEF WriteHeartbeat, PersistOffers, WritePending,
           WriteProgress, WriteOps
      <3> QED
        BY <2>1, <3>1, MovesElsewhere
    <2>3. CASE Check(p)
      <3>1. req' = [req EXCEPT ![p] = Ended(p, NoCallback)] \/ Goto(p, h, "insert")
        BY <2>3 DEF Check
      <3> QED
        BY <3>1, EndsElsewhere, MovesElsewhere
    <2>4. CASE WriteIngest(p)
      <3> DEFINE g == [h EXCEPT !.seen.progress = [h.seen.progress EXCEPT !.candidates = TRUE]]
      <3>1. Goto(p, g, "link") /\ DOMAIN g = DOMAIN h
        BY <2>4 DEF WriteIngest
      <3> QED
        BY <3>1, MovesElsewhere
    <2>5. CASE Promote(p)
      <3> DEFINE g == [h EXCEPT !.seen.status = "RUNNING"]
      <3>1. Goto(p, g, "finalize") /\ DOMAIN g = DOMAIN h
        BY <2>5 DEF Promote
      <3> QED
        BY <3>1, MovesElsewhere
    <2>6. CASE SelectOffers(p)
      <3> DEFINE f == [h EXCEPT !.ids = offers]
                 g(matching) == [f EXCEPT
                      !.seen.progress.candidates =
                          offers # {} \/ (p \in Watchdogs /\ f.seen.progress.candidates),
                      !.seen.progress.matching = matching]
      <3>1. \/ Finish(p)
            \/ Goto(p, g("completed"), "writeProgress")
            \/ Goto(p, g("pending"), "writePending")
        BY <2>6 DEF SelectOffers
      <3>2. DOMAIN g("completed") = DOMAIN h /\ DOMAIN g("pending") = DOMAIN h
        OBVIOUS
      <3> QED
        BY <2>1, <3>1, <3>2, MovesElsewhere
    <2>7. CASE Link(p)
      <3> DEFINE g(outcome) ==
                   [h EXCEPT
                      !.seen.progress.candidates = @ \/ h.ids # {},
                      !.seen.progress.inserted =
                          IF outcome \in {"completed", "degraded"} /\ h.ids # {}
                          THEN linked' # {} ELSE @,
                      !.seen.progress.matching =
                          IF outcome = "degraded" THEN "completed" ELSE outcome]
      <3>1. PICK outcome : Goto(p, g(outcome), "writeProgress")
        BY <2>7 DEF Link
      <3>2. DOMAIN g(outcome) = DOMAIN h
        OBVIOUS
      <3> QED
        BY <3>1, <3>2, MovesElsewhere
    <2> QED
      BY <1>5, <2>2, <2>3, <2>4, <2>5, <2>6, <2>7 DEF Step
  <1> QED
    BY <1>1, <1>2, <1>3, <1>4, <1>5 DEF Next

\* Until handlers raced, a final status stays as it is.
LEMMA FinalUntilRaced ==
  ASSUME TypeOK, HandlersOK, [Next]_vars, ~raced', row.status \in Terminal
  PROVE  row'.status = row.status
  <1>1. ASSUME NEW p \in Procs, Finalizes(p) PROVE FALSE
    BY <1>1 DEF Finalizes, HandlersOK, HandlerOK
  <1>2. ASSUME NEW p \in Procs, Blind(p) PROVE FALSE
    BY <1>2 DEF Blind
  <1> QED
    BY <1>1, <1>2, StatusWrites DEF StatusKept, Terminal

LEMMA RacedStays ==
  ASSUME [Next]_vars, raced
  PROVE  raced'
  BY DEF Next, Dispatcher, DispatchAccepted, DispatchRejected, DispatchError, MarkSchedule,
     TieSchedule, Environment, Silence, Age, Takeover, vars, Begin, BeginHeartbeat,
     BeginIngest, BeginCallback, BeginWatchdog, BeginOps, Abort, Step, WriteHeartbeat,
     PersistOffers, WriteIngest, Check, Insert, Promote, Finalize, SyncSchedule, SelectOffers,
     WritePending, Link, WriteProgress, WriteOps

\* Until handlers raced, the outcome about to be stamped on the schedule is the run's.
SyncsOutcome == ~raced => \A p \in Procs : req[p].pc = "sync" => row.status = req[p].to

LEMMA OutcomeStep ==
  ASSUME TypeOK, HandlersOK, SyncsOutcome, ScheduleShowsOutcome, [Next]_vars
  PROVE  SyncsOutcome' /\ ScheduleShowsOutcome'
  <1> SUFFICES ASSUME ~raced' PROVE SyncsOutcome' /\ ScheduleShowsOutcome'
    BY DEF SyncsOutcome, ScheduleShowsOutcome
  <1>0. /\ ~raced /\ req \in [Procs -> Handlers] /\ row \in Rows
        /\ schedule \in [last : {"", "ENQUEUED", "ENQUEUE_FAILED", "COMPLETED", "FAILED"},
                         tied : BOOLEAN]
    BY RacedStays DEF TypeOK
  <1>1. ASSUME NEW p \in Procs, req[p].pc = "sync"
        PROVE  row.status = req[p].to /\ row.status \in Terminal /\ row'.status = row.status
    <2>1. row.status = req[p].to /\ req[p].to \in Terminal
      BY <1>0, <1>1 DEF SyncsOutcome, HandlersOK, HandlerOK, Terminal
    <2> QED
      BY <2>1, FinalUntilRaced
  <1>2. SyncsOutcome'
    <2>1. CASE NoneToSync
      BY <1>1, <2>1 DEF NoneToSync, SyncsOutcome
    <2>2. ASSUME NEW p \in Procs, Finalize(p) PROVE SyncsOutcome'
      <3>1. row.status = req[p].seen.status /\ row.status \notin Terminal
        BY <2>2 DEF Finalize, HandlersOK, HandlerOK
      <3>2. row'.status = req[p].to
        BY <1>0, <2>2, <3>1 DEF Finalize, Transition, Rows
      <3>3. req'[p].to = req[p].to
        BY <1>0, <2>2 DEF Finalize, Goto, Handlers
      <3>4. \A q \in Procs \ {p} : req'[q] = req[q] /\ req[q].pc # "sync"
        BY <1>0, <1>1, <2>2, <3>1 DEF Finalize, Goto
      <3> QED
        BY <3>2, <3>3, <3>4 DEF SyncsOutcome
    <2> QED
      BY <2>1, <2>2, SyncSteps
  <1>3. ScheduleShowsOutcome'
    <2>1. CASE schedule' = schedule
      BY <1>0, <2>1, FinalUntilRaced DEF ScheduleShowsOutcome
    <2>2. CASE MarkSchedule
      BY <1>0, <2>2 DEF MarkSchedule, ScheduleShowsOutcome, Terminal
    <2>3. CASE TieSchedule
      BY <1>0, <2>3 DEF TieSchedule, ScheduleShowsOutcome
    <2>4. ASSUME NEW p \in Procs, SyncSchedule(p) PROVE ScheduleShowsOutcome'
      <3>1. row'.status = row.status /\ row.status = req[p].to
        BY <1>1, <2>4 DEF SyncSchedule
      <3>2. schedule'.last \in {schedule.last, req[p].to}
        BY <1>0, <2>4 DEF SyncSchedule
      <3> QED
        BY <1>0, <3>1, <3>2 DEF ScheduleShowsOutcome
    <2> QED
      BY <2>1, <2>2, <2>3, <2>4, ScheduleWrites
  <1> QED
    BY <1>2, <1>3

\* Where a schedule and its run disagree on the outcome, two handlers wrote one: the
\* sync that every finalisation goes through is right as long as none of them lost.
THEOREM SchedulesShowOutcomes == Spec => [](SyncsOutcome /\ ScheduleShowsOutcome)
  <1>1. Init => SyncsOutcome /\ ScheduleShowsOutcome
    <2>1. Init => schedule.last = "" /\ \A p \in Procs : req[p].pc = "new"
      <3>1. Idle.pc = "new" /\ [last |-> "", tied |-> FALSE].last = ""
        BY DEF Idle
      <3> QED
        BY <3>1 DEF Init
    <2> QED
      BY <2>1 DEF SyncsOutcome, ScheduleShowsOutcome, Terminal
  <1> QED
    BY <1>1, OutcomeStep, TypeCorrect, PTL DEF Spec

\* A run is tied to its schedule after the enqueue was recorded, and only a tied run
\* writes an outcome on the schedule.
OutcomeAfterTie ==
  /\ schedule.tied => disp = "done"
  /\ schedule.last \in Terminal => schedule.tied

\* The outcome of a scheduled run is never overwritten by the record of its enqueue,
\* and by another outcome only where handlers raced.
THEOREM SchedulesKeepOutcomes == Spec => ScheduleKeepsOutcome
  <1> DEFINE Keeps == schedule.last \in Terminal =>
                        \/ schedule'.last = schedule.last
                        \/ schedule'.last \in Terminal /\ raced
             Inv == TypeOK /\ HandlersOK /\ SyncsOutcome /\ ScheduleShowsOutcome
  <1>1. Init => OutcomeAfterTie
    <2>1. [last |-> "", tied |-> FALSE].last = "" /\ ~[last |-> "", tied |-> FALSE].tied
      OBVIOUS
    <2>2. Init => schedule = [last |-> "", tied |-> FALSE]
      BY DEF Init
    <2> QED
      BY <2>1, <2>2 DEF OutcomeAfterTie, Terminal
  <1>2. Inv /\ OutcomeAfterTie /\ [Next]_vars => OutcomeAfterTie' /\ [Keeps]_vars
    <2> SUFFICES ASSUME Inv, OutcomeAfterTie, [Next]_vars
                 PROVE  OutcomeAfterTie' /\ Keeps
      OBVIOUS
    <2>0. schedule \in [last : {"", "ENQUEUED", "ENQUEUE_FAILED", "COMPLETED", "FAILED"},
                        tied : BOOLEAN]
      BY DEF TypeOK
    <2>1. CASE schedule' = schedule /\ (disp = "done" => disp' = "done")
      BY <2>1 DEF OutcomeAfterTie
    <2>2. CASE MarkSchedule
      BY <2>0, <2>2 DEF MarkSchedule, OutcomeAfterTie, Terminal
    <2>3. CASE TieSchedule
      BY <2>0, <2>3 DEF TieSchedule, OutcomeAfterTie, Terminal
    <2>4. ASSUME NEW p \in Procs, SyncSchedule(p) PROVE OutcomeAfterTie' /\ Keeps
      <3>1. req[p].to \in Terminal /\ (~raced => row.status = req[p].to)
        BY <2>4 DEF SyncSchedule, HandlersOK, HandlerOK, SyncsOutcome, Terminal
      <3>2. \/ schedule' = schedule
            \/ schedule.tied /\ schedule'.tied /\ schedule'.last = req[p].to
        BY <2>0, <2>4 DEF SyncSchedule
      <3>3. OutcomeAfterTie'
        BY <2>4, <3>1, <3>2 DEF SyncSchedule, OutcomeAfterTie
      <3>4. Keeps
        BY <3>1, <3>2 DEF ScheduleShowsOutcome
      <3> QED
        BY <3>3, <3>4
    <2> QED
      BY <2>1, <2>2, <2>3, <2>4, ScheduleWrites
  <1>3. Spec => []Inv
    BY TypeCorrect, SchedulesShowOutcomes, PTL
  <1> QED
    BY <1>1, <1>2, <1>3, PTL DEF Spec, ScheduleKeepsOutcome

Linking(p) == req[p].pc \in {"link", "writeProgress"}

\* The linking state of a run stays "pending" only while a handler is about to
\* replace it or after one died.
THEOREM MatchingAlwaysSettles == Spec => []MatchingSettles
  <1>1. Init => MatchingSettles
    <2>1. NewRow.progress.matching = "none"
      BY DEF NewRow, NoProgress
    <2> QED
      BY <2>1 DEF Init, MatchingSettles
  <1>2. TypeOK /\ HandlersOK /\ MatchingSettles /\ [Next]_vars => MatchingSettles'
    <2> SUFFICES ASSUME TypeOK, HandlersOK, MatchingSettles, [Next]_vars
                 PROVE  MatchingSettles'
      OBVIOUS
    <2>0. row \in Rows /\ req \in [Procs -> Handlers]
      BY DEF TypeOK
    <2>1. CASE /\ row'.progress = row.progress /\ crashed' = crashed
               /\ \A q \in Procs : Linking(q) => Linking(q)'
      BY <2>1 DEF MatchingSettles, Linking
    <2>2. ASSUME NEW p \in Procs, Linking(p)' PROVE MatchingSettles'
      BY <2>2 DEF MatchingSettles, Linking
    <2>3. CASE row'.progress.matching # "pending" \/ crashed'
      BY <2>3 DEF MatchingSettles
    <2>4. CASE Dispatcher \/ Environment \/ UNCHANGED vars
      <3>1. row'.progress = row.progress /\ crashed' = crashed /\ req' = req
        BY <2>0, <2>4 DEF Dispatcher, DispatchAccepted, DispatchRejected, DispatchError, MarkSchedule,
           TieSchedule, Environment, Silence, Age, Takeover, vars, Transition, Rows
      <3> QED
        BY <2>1, <3>1 DEF Linking
    <2>5. ASSUME NEW p \in Procs, ~Linking(p), row'.progress = row.progress, crashed' = crashed,
                 \A q \in Procs \ {p} : req'[q] = req[q]
          PROVE  MatchingSettles'
      BY <2>1, <2>5 DEF Linking
    <2>6. ASSUME NEW p \in Procs, Begin(p) PROVE MatchingSettles'
      <3>1. ~Linking(p) /\ row' = row /\ crashed' = crashed
        BY <2>6 DEF Begin, BeginHeartbeat, BeginIngest, BeginCallback, BeginWatchdog, BeginOps,
           Linking
      <3>2. \A q \in Procs \ {p} : req'[q] = req[q]
        BY <2>0, <2>6 DEF Begin, BeginHeartbeat, BeginIngest, BeginCallback, BeginWatchdog,
           BeginOps, Goto, Finish
      <3> QED
        BY <2>5, <3>1, <3>2
    <2>7. ASSUME NEW p \in Procs,
                 \/ PersistOffers(p) \/ Check(p) \/ Insert(p) \/ Promote(p) \/ Finalize(p)
                 \/ SyncSchedule(p) \/ SelectOffers(p) \/ WriteOps(p)
          PROVE  MatchingSettles'
      <3>1. ~Linking(p) /\ row'.progress = row.progress /\ crashed' = crashed
        BY <2>0, <2>7 DEF PersistOffers, Check, Insert, Promote, Finalize, SyncSchedule,
           SelectOffers, WriteOps, Transition, Rows, Linking
      <3>2. \A q \in Procs \ {p} : req'[q] = req[q]
        <4> DEFINE Moves == \E g : req' = [req EXCEPT ![p] = g]
        <4>1. Finish(p) => Moves
          BY DEF Finish
        <4>2. \A g, pc : Goto(p, g, pc) => Moves
          BY DEF Goto
        <4>3. PersistOffers(p) \/ Promote(p) \/ WriteOps(p) => Moves
          BY <4>1, <4>2 DEF PersistOffers, Promote, WriteOps
        <4>4. Finalize(p) \/ SyncSchedule(p) \/ SelectOffers(p) \/ Check(p) => Moves
          BY <4>1, <4>2, FinalizationMoves DEF SelectOffers, Check
        <4>5. ASSUME Insert(p), AcceptCallback(p, req[p]) PROVE Moves
          <5>1. req[p].cb.status \in {"COMPLETED", "FAILED"}
            BY <4>5, CallbackType DEF Insert, HandlersOK, HandlerOK
          <5>2. \/ req' = [req EXCEPT ![p] = Ended(p, req[p].cb)]
                \/ \E g, pc : Goto(p, g, pc)
            BY <4>5, <5>1 DEF AcceptCallback
          <5> QED
            BY <4>2, <5>2
        <4>6. Insert(p) => Moves
          BY <4>5 DEF Insert
        <4>7. Moves
          BY <2>7, <4>3, <4>4, <4>6
        <4> QED
          BY <2>0, <4>7
      <3> QED
        BY <2>5, <3>1, <3>2
    <2>8. ASSUME NEW p \in Procs, WriteIngest(p) \/ WritePending(p) \/ Link(p)
          PROVE  MatchingSettles'
      <3> DEFINE h == req[p]
                 i == [h EXCEPT !.seen.progress = [h.seen.progress EXCEPT !.candidates = TRUE]]
                 l(outcome) ==
                   [h EXCEPT
                      !.seen.progress.candidates = @ \/ h.ids # {},
                      !.seen.progress.inserted =
                          IF outcome \in {"completed", "degraded"} /\ h.ids # {}
                          THEN linked' # {} ELSE @,
                      !.seen.progress.matching =
                          IF outcome = "degraded" THEN "completed" ELSE outcome]
      <3>1. ASSUME NEW g, DOMAIN g = DOMAIN h, NEW pc \in {"link", "writeProgress"},
                   Goto(p, g, pc)
            PROVE  MatchingSettles'
        <4>1. "pc" \in DOMAIN g
          BY <2>0, <3>1 DEF Handlers
        <4>2. Linking(p)'
          BY <2>0, <3>1, <4>1 DEF Goto, Linking
        <4> QED
          BY <2>2, <4>2
      <3>2. CASE WriteIngest(p)
        <4>1. Goto(p, i, "link") /\ DOMAIN i = DOMAIN h
          BY <3>2 DEF WriteIngest
        <4> QED
          BY <3>1, <4>1
      <3>3. CASE WritePending(p)
        BY <3>1, <3>3 DEF WritePending
      <3>4. CASE Link(p)
        <4>1. PICK outcome : Goto(p, l(outcome), "writeProgress")
          BY <3>4 DEF Link
        <4>2. DOMAIN l(outcome) = DOMAIN h
          OBVIOUS
        <4> QED
          BY <3>1, <4>1, <4>2
      <3> QED
        BY <2>8, <3>2, <3>3, <3>4
    <2>9. ASSUME NEW p \in Procs, WriteHeartbeat(p) \/ WriteProgress(p) \/ Abort(p)
          PROVE  MatchingSettles'
      <3>1. NoProgress.matching = "none"
        BY DEF NoProgress
      <3> QED
        BY <2>0, <2>3, <2>9, <3>1 DEF WriteHeartbeat, WriteProgress, Abort, HandlersOK, HandlerOK, Rows
    <2> QED
      BY <2>4, <2>6, <2>7, <2>8, <2>9 DEF Next, Step
  <1> QED
    BY <1>1, <1>2, TypeCorrect, PTL DEF Spec

=============================================================================
