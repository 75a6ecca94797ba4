------------------------------- MODULE Enqueue --------------------------------
(***************************************************************************)
(* How one user comes to scrape runs: POST /scrape (enqueueScrape of       *)
(* job-sources-core.service.ts), retries, triggers of the schedule and     *)
(* rematches (job-sources.service.ts with its own enqueueScrape).  A       *)
(* request counts runs against the limits, may be answered from what was   *)
(* scraped before, and else inserts a run and sends it to the worker; its  *)
(* caller then writes to the run or to the schedule.  All these are        *)
(* separate statements of handlers that run at the same time.  What        *)
(* becomes of a run is the business of ScrapeRun.                          *)
(***************************************************************************)
EXTENDS Naturals, FiniteSetsExt

CONSTANTS
  N,          \* how many rows are inserted at most, the bound of this model
  Slots,      \* how often the time of the schedule comes at most, a bound as well
  Calls,      \* requests that may be handled at the same time, again and again
  Kinds,      \* the operations of each call
  MayCrash,   \* the calls whose instance restarts once
  MaxActive,  \* SCRAPE_MAX_ACTIVE_RUNS_PER_USER
  MaxDaily,   \* SCRAPE_DAILY_ENQUEUE_LIMIT_PER_USER
  Depth       \* SCRAPE_MAX_RETRY_CHAIN_DEPTH

Modes == {"direct", "manual", "retry", "tick", "rematch"}

EnqueueAssumption ==
  /\ {N, Slots, MaxDaily, Depth} \subseteq Nat
  /\ MaxActive \in Nat \ {0}
  /\ IsFiniteSet(Calls)
  /\ Kinds \in [Calls -> SUBSET Modes]
  /\ MayCrash \subseteq Calls

ASSUME EnqueueAssumption

VARIABLES
  run,        \* job_source_runs of the user, in the order of insertion
  next,       \* nextRunAt of the schedule
  now,        \* how often the time of the schedule has come
  call,       \* where each request is
  crashed,    \* calls whose instance has restarted
  slot        \* what became of each time the schedule was due (history)

vars == <<run, next, now, call, crashed, slot>>

-----------------------------------------------------------------------------

Runs == 1..N

\* The times of the schedule, after the save that enables it.
Times == 0..Slots

\* depth, lost and work are history: how many retries led to the run, whether one of them
\* was not on record when it was retried, and what there is to scrape: nothing, new work, of
\* a request that another overtook or not, or work that was done before a late write made
\* the run active again.
Run == [status : {"none", "PENDING", "RUNNING", "COMPLETED", "FAILED"},
        retry : Nat, depth : Nat, lost : BOOLEAN, work : {"none", "new", "raced", "late"}]

NoRun == [status |-> "none", retry |-> 0, depth |-> 0, lost |-> FALSE, work |-> "none"]

\* run: the row inserted last; base and retry: the run that is retried and its retryCount
\* as read; due and time: nextRunAt as selected and when; seen (history): the runs there
\* were for the worker when it counted.
Call == [pc : {"idle", "active", "daily", "lookup", "insert", "dispatch", "tie", "settle"},
         mode : Modes, forced : BOOLEAN, run : 0..N, base : 0..N, retry : Nat,
         due : Times, time : Times, seen : SUBSET Runs]

Idle == [pc |-> "idle", mode |-> "direct", forced |-> FALSE, run |-> 0, base |-> 0,
         retry |-> 0, due |-> 0, time |-> 0, seen |-> {}]

TypeOK ==
  /\ run \in [Runs -> Run]
  /\ next \in 0..Slots + 1
  /\ now \in Times
  /\ call \in [Calls -> Call]
  /\ crashed \subseteq MayCrash
  /\ slot \in [Times -> {"open", "fired", "doubled", "overlapped"}]

\* The user may have failed runs from before.
Init ==
  /\ \E past \in 0..N, depth \in 0..Depth :
       run = [r \in Runs |-> IF r <= past
                            THEN [NoRun EXCEPT !.status = "FAILED", !.work = "new",
                                               !.retry = depth, !.depth = depth]
                            ELSE NoRun]
  /\ next = 1
  /\ now = 0
  /\ call = [c \in Calls |-> Idle]
  /\ crashed = {}
  /\ slot = [s \in Times |-> "open"]

-----------------------------------------------------------------------------
(* Helpers                                                                 *)

Rows == {r \in Runs : run[r].status # "none"}

Active == {r \in Runs : run[r].status \in {"PENDING", "RUNNING"}}

\* Runs that there is, or was, work for.
Worked == {r \in Runs : run[r].work # "none"}

Due == next <= now

\* The run with another status.  Once final, it is as if never reopened.
WithStatus(r, status) ==
  [run[r] EXCEPT !.status = status,
                 !.work = IF status \in {"COMPLETED", "FAILED"} /\ @ = "late" THEN "new" ELSE @]

Goto(c, pc) == call' = [call EXCEPT ![c].pc = pc]

\* The triggers of the scheduler in flight, but this one.
OtherTicks(c) == {d \in Calls \ {c} : call[d].mode = "tick"}

\* Variant: a request that is refused leaves the schedule as it is.
RefuseForgetting(c) == call' = [call EXCEPT ![c] = Idle] /\ UNCHANGED slot

\* The request fails.  Only triggerSchedules has something left to do.
Refuse(c) ==
  /\ call' = [call EXCEPT ![c] =
               IF @.mode = "tick" THEN [@ EXCEPT !.pc = "settle", !.run = 0, !.seen = {}]
               ELSE Idle]
  /\ UNCHANGED slot

\* What becomes of a time of the schedule for which a run is started: early runs do not
\* count, as the schedule remains to be triggered in time.
Started(c, was) ==
  IF call[c].due > call[c].time THEN was
  ELSE CASE was = "open" -> "fired"
         [] was = "fired" -> "doubled"
         [] OTHER -> was

\* The request is answered with a run.
Answer(c) ==
  /\ call' = [call EXCEPT ![c] =
                CASE @.mode = "tick" -> [@ EXCEPT !.pc = "settle", !.run = 0, !.seen = {}]
                  [] @.mode = "retry" -> [@ EXCEPT !.pc = "tie"]
                  [] OTHER -> Idle]
  /\ slot' = IF call[c].mode = "tick"
             THEN [slot EXCEPT ![call[c].due] = Started(c, slot[call[c].due])]
             ELSE slot

\* Another trigger has selected the schedule too, or one died after it had: the schedule
\* may be handled twice for these times.
Overlap(times) == slot' = [s \in Times |-> IF s \in times THEN "overlapped" ELSE slot[s]]

\* The place of the next row, if the bound leaves one.
IsNext(r) == r \notin Rows /\ \A q \in Runs : q < r => q \in Rows

-----------------------------------------------------------------------------
(* Requests                                                                *)

Begin(c, mode, fields) ==
  /\ mode \in Kinds[c]
  /\ call[c].pc = "idle"
  /\ call' = [call EXCEPT ![c] = fields]

\* POST /scrape.  The user has a career profile, and filters or a listing URL.
BeginDirect(c, force) ==
  /\ Begin(c, "direct", [Idle EXCEPT !.pc = "active", !.forced = force])
  /\ UNCHANGED <<run, next, now, crashed, slot>>

\* triggerScheduleNow.  Afterwards only the status of the schedule is written.
BeginManual(c) ==
  /\ Begin(c, "manual", [Idle EXCEPT !.pc = "active", !.mode = "manual"])
  /\ UNCHANGED <<run, next, now, crashed, slot>>

\* Variant: a retry too many.
BeginRetryOnceMore(c, r) ==
  /\ run[r].status = "FAILED"
  /\ run[r].retry <= Depth
  /\ Begin(c, "retry", [Idle EXCEPT !.pc = "active", !.mode = "retry", !.forced = TRUE,
                                    !.base = r, !.retry = run[r].retry])
  /\ UNCHANGED <<run, next, now, crashed, slot>>

\* retryRun reads the run, after it has reconciled.
BeginRetry(c, r) ==
  /\ run[r].status = "FAILED"
  /\ run[r].retry < Depth
  /\ Begin(c, "retry", [Idle EXCEPT !.pc = "active", !.mode = "retry", !.forced = TRUE,
                                    !.base = r, !.retry = run[r].retry])
  /\ UNCHANGED <<run, next, now, crashed, slot>>

\* triggerSchedules selects the schedules that are due, or will be within a second.
BeginTick(c) ==
  /\ next \in Times /\ next <= now + 1
  /\ Begin(c, "tick", [Idle EXCEPT !.pc = "active", !.mode = "tick", !.due = next,
                                   !.time = now])
  /\ Overlap(IF OtherTicks(c) = {} THEN {} ELSE {next} \cup {call[d].due : d \in OtherTicks(c)})
  /\ UNCHANGED <<run, next, now, crashed>>

\* rematch-now asks the catalog only, and no limit holds.
BeginRematch(c) ==
  /\ Begin(c, "rematch", [Idle EXCEPT !.pc = "lookup", !.mode = "rematch"])
  /\ UNCHANGED <<run, next, now, crashed, slot>>

-----------------------------------------------------------------------------
(* enqueueScrape                                                           *)

Passes(c) ==
  /\ call' = [call EXCEPT ![c].pc = "daily", ![c].seen = Worked]
  /\ UNCHANGED slot

\* Variant: a request passes at the limit.
CountActiveAtLimit(c) ==
  /\ call[c].pc = "active"
  /\ \/ Refuse(c)
     \/ Cardinality(Active) <= MaxActive /\ Passes(c)
  /\ UNCHANGED <<run, next, now, crashed>>

\* All but POST /scrape first fail the runs that are stale; a trigger of the scheduler is
\* held back when the source failed too often, any request for want of a profile.  Then
\* the active runs are counted.
CountActive(c) ==
  /\ call[c].pc = "active"
  /\ \E stale \in SUBSET Active :
       /\ call[c].mode = "direct" => stale = {}
       /\ run' = [r \in Runs |-> IF r \in stale THEN WithStatus(r, "FAILED") ELSE run[r]]
       /\ \/ Refuse(c)
          \/ Cardinality(Active \ stale) < MaxActive /\ Passes(c)
  /\ UNCHANGED <<next, now, crashed>>

\* The rows of the day are counted.  Then an equal request may have been made lately in
\* the same process, which refuses this one.
CountDaily(c) ==
  /\ call[c].pc = "daily"
  /\ \/ Refuse(c)
     \/ /\ Cardinality(Rows) < MaxDaily
        /\ call' = [call EXCEPT ![c].pc = IF call[c].forced THEN "insert" ELSE "lookup",
                                ![c].forced = FALSE]
        /\ UNCHANGED slot
  /\ UNCHANGED <<run, next, now, crashed>>

\* The next row is inserted as COMPLETED, for offers that were scraped before.  Which
\* there are depends on the runs of all users.
InsertCompleted ==
  \E r \in Runs : IsNext(r) /\ run' = [run EXCEPT ![r].status = "COMPLETED"]

\* rematchCatalogForUser, which tryServeFromCatalog of main calls when the catalog has
\* enough.  The request fails when the offers cannot be linked; the row stays.
ServeFromCatalog(c) ==
  /\ call[c].pc = "lookup"
  /\ call[c].mode # "direct"
  /\ InsertCompleted
  /\ Refuse(c) \/ Answer(c)
  /\ UNCHANGED <<next, now, crashed>>

\* tryReuseFromDatabase.  In main it asks only after its insert whether enough of the
\* offers are new: when they are not, the row stays and the request goes on.
ReuseFromDatabase(c) ==
  /\ call[c].pc = "lookup"
  /\ call[c].mode # "rematch"
  /\ InsertCompleted
  /\ \/ Answer(c)
     \/ Refuse(c)
     \/ call[c].mode \in {"manual", "tick"} /\ Goto(c, "insert") /\ UNCHANGED slot
  /\ UNCHANGED <<next, now, crashed>>

FindNothing(c) ==
  /\ call[c].pc = "lookup"
  /\ IF call[c].mode = "rematch" THEN Refuse(c) ELSE Goto(c, "insert") /\ UNCHANGED slot
  /\ UNCHANGED <<run, next, now, crashed>>

\* Whether a run has been inserted since the request counted.
Timing(c) == IF call[c].seen = Worked THEN "new" ELSE "raced"

\* The insert may fail, as it does beyond the bound.
Insert(c) ==
  /\ call[c].pc = "insert"
  /\ \/ Refuse(c) /\ UNCHANGED run
     \/ \E r \in Runs :
          /\ IsNext(r)
          /\ run' = [run EXCEPT ![r] =
               IF call[c].mode = "retry"
               THEN [NoRun EXCEPT !.status = "PENDING", !.work = Timing(c),
                       !.depth = run[call[c].base].depth + 1,
                       !.lost = \/ run[call[c].base].lost
                                \/ call[c].retry # run[call[c].base].depth]
               ELSE [NoRun EXCEPT !.status = "PENDING", !.work = Timing(c)]]
          /\ call' = [call EXCEPT ![c].pc = "dispatch", ![c].run = r, ![c].seen = {}]
          /\ UNCHANGED slot
  /\ UNCHANGED <<next, now, crashed>>

MarkPending(r, status) ==
  run' = IF run[r].status = "PENDING" THEN [run EXCEPT ![r].status = status] ELSE run

\* The worker or its queue takes the task, or may have when the answer comes too late.
DispatchAccepted(c) ==
  /\ call[c].pc = "dispatch"
  /\ MarkPending(call[c].run, "RUNNING")
  /\ Answer(c)
  /\ UNCHANGED <<next, now, crashed>>

\* The task is refused, or too large.
DispatchRejected(c) ==
  /\ call[c].pc = "dispatch"
  /\ MarkPending(call[c].run, "FAILED")
  /\ Refuse(c)
  /\ UNCHANGED <<next, now, crashed>>

\* Any other error is thrown as it is, and the run left PENDING.
DispatchError(c) ==
  /\ call[c].pc = "dispatch"
  /\ Refuse(c)
  /\ UNCHANGED <<run, next, now, crashed>>

\* retryRun puts the new run on record as a retry.
Tie(c) ==
  /\ call[c].pc = "tie"
  /\ run' = [run EXCEPT ![call[c].run].retry = call[c].retry + 1]
  /\ call' = [call EXCEPT ![c] = Idle]
  /\ UNCHANGED <<next, now, crashed, slot>>

\* Variant: the schedule remains due.
SettleAtOnce(c) ==
  /\ call[c].pc = "settle"
  /\ next' = call[c].due
  /\ call' = [call EXCEPT ![c] = Idle]
  /\ UNCHANGED <<run, now, crashed, slot>>

\* triggerSchedules moves nextRunAt, counted from when it selected the schedule, whether
\* the request was answered or refused: to the next time of the day the cron gives, which
\* is still the same for an early trigger, or by the minutes of an interval.
Settle(c) ==
  /\ call[c].pc = "settle"
  /\ \/ next' = call[c].time + 1
     \/ call[c].due > call[c].time /\ next' = call[c].due + 1
  /\ call' = [call EXCEPT ![c] = Idle]
  /\ UNCHANGED <<run, now, crashed, slot>>

-----------------------------------------------------------------------------
(* Surroundings                                                            *)

\* Callbacks, heartbeats, offers that are ingested and the watchdog.
Progress(r, status) ==
  /\ r \in Active
  /\ run' = [run EXCEPT ![r] = WithStatus(r, status)]
  /\ UNCHANGED <<next, now, call, crashed, slot>>

\* A heartbeat or offers, or one of ops that fails stale runs: each read the run while it
\* was active and writes its status by id, when the run is final.
WriteLate(r, status) ==
  /\ r \in Rows \ Active
  /\ run[r].work # "none"
  /\ run' = [run EXCEPT ![r].status = status,
                          ![r].work = IF status = "RUNNING" THEN "late" ELSE @]
  /\ UNCHANGED <<next, now, call, crashed, slot>>

TimePasses ==
  /\ now < Slots
  /\ now' = now + 1
  /\ UNCHANGED <<run, next, call, crashed, slot>>

\* Variant: counted from the former nextRunAt.
SaveScheduleFromNext ==
  /\ next' = next + 1
  /\ UNCHANGED <<run, now, call, crashed, slot>>

\* updateSchedule of a schedule that stays enabled.
SaveSchedule ==
  /\ next' = now + 1
  /\ UNCHANGED <<run, now, call, crashed, slot>>

\* The instance restarts, and the request with it.
Crash(c) ==
  /\ c \in MayCrash \ crashed
  /\ call[c].pc # "idle"
  /\ crashed' = crashed \cup {c}
  /\ call' = [call EXCEPT ![c] = Idle]
  /\ Overlap(IF call[c].mode = "tick" THEN {call[c].due} ELSE {})
  /\ UNCHANGED <<run, next, now>>

-----------------------------------------------------------------------------

Handle(c) ==
  \/ CountActive(c) \/ CountDaily(c)
  \/ ServeFromCatalog(c) \/ ReuseFromDatabase(c) \/ FindNothing(c)
  \/ Insert(c) \/ DispatchAccepted(c) \/ DispatchRejected(c) \/ DispatchError(c)
  \/ Tie(c) \/ Settle(c)

Request(c) ==
  \/ \E force \in BOOLEAN : BeginDirect(c, force)
  \/ BeginManual(c) \/ BeginTick(c) \/ BeginRematch(c)
  \/ \E r \in Runs : BeginRetry(c, r)

Next ==
  \/ \E c \in Calls : Request(c) \/ Handle(c) \/ Crash(c)
  \/ \E r \in Runs, status \in {"RUNNING", "COMPLETED", "FAILED"} : Progress(r, status)
  \/ \E r \in Runs, status \in {"RUNNING", "FAILED"} : WriteLate(r, status)
  \/ TimePasses \/ SaveSchedule

Spec == Init /\ [][Next]_vars

\* Requests go on, and the scheduler calls again and again.
Fairness ==
  /\ \A c \in Calls : WF_vars(Handle(c))
  /\ SF_vars(\E c \in Calls : BeginTick(c))

FairSpec == Spec /\ Fairness

-----------------------------------------------------------------------------
(* Properties                                                              *)

\* The limit of active runs is that of requests one after the other.  What goes beyond it
\* are the runs of requests that another overtook between their count and their insert, one
\* for each that may be handled at the same time, and runs that a late write has reopened,
\* of which there may be any number.
ActiveWithinLimit ==
  /\ Cardinality({r \in Active : run[r].work = "new"}) <= MaxActive
  /\ Cardinality({r \in Active : run[r].work # "late"}) <= MaxActive + Cardinality(Calls) - 1

\* Triggers that come when the schedule is due, however late, start one run for each of its
\* times, unless another trigger had selected the schedule too, or died with it.  What a
\* trigger starts within the second before comes on top: it leaves the schedule due, and
\* the next trigger runs it again.
OneRunPerSlot == \A s \in Times : slot[s] # "doubled"

\* Retries of retries come to an end, unless a run was retried that was not on record as
\* a retry: not yet, or never, because its dispatch failed or its handler died.
RetryChainBounded ==
  \A r \in Runs : ~run[r].lost => run[r].depth <= Depth /\ run[r].retry \in {0, run[r].depth}

\* A schedule that is due does not remain so, whatever is refused.
DueIsHandled == Due ~> ~Due

=============================================================================
