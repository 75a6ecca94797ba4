# A TLA+ model of nest-test

nest-test is a job-search assistant. A NestJS API (`apps/api`) owns the database and the
user-facing state, a worker (`apps/worker`) scrapes job boards in tasks that Cloud Tasks (or,
in development, a plain HTTP call) delivers, and a Next.js application (`apps/web`) shows the
result. This directory holds TLA+ modules of the parts in which several processes work on
the same rows, TLC configurations that check them, and TLAPS proofs about them.

Paths below are relative to the root of the repository. `JS` stands for
`apps/api/src/features/job-sources`.

## 1. The system

### Components

| component | state | operations | hard because |
|---|---|---|---|
| scrape run life cycle (`JS/job-sources.service.ts`, `job-sources-lifecycle.service.ts`) | `job_source_runs` (status, error, progress, heartbeat), `job_source_callback_events`, `job_offers.run_id`, `user_job_offers` | heartbeat, offer ingest (single, batch), completion callback, relinking | every handler reads the row, awaits other statements and writes it back; most writes are not conditional |
| scrape dispatch (`JS/job-sources-core.service.ts`, `enqueueScrape`) | the inserted run | limits, reuse, insert, dispatch, mark running / failed | limits are check-then-act; the worker may call back before the dispatcher is done |
| schedules (`triggerSchedules`, `triggerScheduleNow`) | `scrape_schedules`, `scrape_schedule_events` | trigger, record the enqueue, take over the outcome of the run | a run can end before its schedule knows it |
| reconciliation (`reconcileStaleRuns` in `JS` and in `features/ops`) | the same rows | fail stale runs, recover their offers | races with the callback it gives up on |
| worker ingress and runner (`apps/worker/src/http`, `queue`, `db/worker-task-executions.ts`) | `worker_task_executions`; in memory: queue, slots | claim, queue, run with a timeout, lifecycle hooks | at-least-once delivery, leases, restarts, limits |
| callback delivery (`apps/worker/src/jobs/scrape-job.ts`, `callback-dead-letter.ts`) | dead-letter files | retry with backoff, dead letter, replay | an answer may be lost after the API acted on it |
| scrape pipeline (`apps/worker/src/jobs/scrape-job.ts`, `sources/pracuj-pl/crawl.ts`) | none durable; counters, a shared browser and a queue in memory | plan, crawl with concurrent detail pages, relax, send offers, report | two timers that abort from outside, a browser that pages take turns with, budgets and stop conditions |
| retry and reuse of runs (`retryRun`, `tryReuseFromDatabase`, `tryServeFromCatalog`) | runs, notebook | new run for a failed one, a run answered from stored offers | freshness decided on one read and used later |
| documents (`features/documents`) | `documents` with an extraction lease; an in-memory map of queued work | upload, confirm, extract, retry | lease expiry, a map that swallows a second request, two stores (rows and bucket) without a transaction |
| career profiles (`features/career-profiles`) | `career_profiles` (version, active flag, status, lease) | create, generate, restore | one active profile, versions, several statements per change |
| notebook (`features/job-offers`) | `user_job_offers` (status and its history, follow-up, reminder columns) | status changes, bulk dismissal and archiving, follow-ups, reminder digests | histories computed from an unlocked read; a mail that is sent before it is recorded |
| auth, users, companies, workspace, profile inputs, onboarding drafts, ops alerts, health | their tables | mostly single statements and read models | little concurrency |
| web application, database package, tooling | none that is shared | - | - |

### How they interact

A user, or a schedule, calls `enqueueScrape`. It inserts a PENDING run, creates the task and
marks the run RUNNING (or FAILED when the task was refused). The worker claims the task,
queues it and runs the scrape; the scrape calls back into the API with heartbeats, accepted
offers and one final callback, each of them retried and the final one kept as a dead letter
when nobody takes it. The API finalises the run, copies the outcome to the schedule and links
the offers of the run into the notebook of the user. Reads of the run list first reconcile the
stale runs of the user, and an operator can do so for all.

No transaction and no lock spans the statements of a handler; what keeps the components
consistent is a status in a WHERE clause, a unique key, or nothing. The models are about that.

### What makes them correct

* A run follows PENDING -> RUNNING -> COMPLETED or FAILED, ends once, and always ends.
* Its error column fits its status; each callback event is processed once.
* Its offers reach the notebook, or the run says that they have not.
* The schedule of the run shows how the run ended.
* A task has one execution while its lease lasts, is never forgotten by the worker, and is
  acknowledged only when it was executed or is being executed.
* A callback that is acknowledged took effect; one that is not acknowledged is kept.
* A document under extraction and a profile under generation end in a final status, written by
  the holder of the lease; a user has one usable profile.
* A user starts no more active runs than allowed, a schedule starts one run each time it is due, and
  retries of retries come to an end.
* A scrape that calls itself completed leaves no page out, sends no offer twice, closes its
  browser, and stops when it is told to.
* The history of an offer accounts for its status; no follow-up is reminded of twice a day.

All are checked here, and most are proved, as far as the code satisfies them; where it does
so only up to an exception, the property names the exception. `PROJECT.json` lists the hazards
one by one.

## 2. Modules

| module | models | role |
|---|---|---|
| `RunLifecycle` | `ALLOWED_STATUS_TRANSITIONS` as a machine | abstract specification |
| `ScrapeRun` | everything that writes one run, with its schedule, events, offers and links | detailed specification; `FollowsLifecycle` is the refinement |
| `MCScrapeRun` | callbacks of small instances, symmetry | model for TLC |
| `ScrapeRunProofs` | theorems about `ScrapeRun` | TLAPS |
| `WorkerTask` | worker ingress, `TaskRunner`, `worker_task_executions` | detailed specification |
| `MCWorkerTask` | which delivery carries which task | model for TLC |
| `WorkerTaskProofs` | theorems about `WorkerTask` | TLAPS |
| `CallbackDelivery` | `notifyCallback`, dead letters and their replay, against the registration of events | detailed specification |
| `MCCallbackDelivery` | crawl attempts and failures by execution | model for TLC |
| `CallbackDeliveryProofs` | theorems about `CallbackDelivery` | TLAPS |
| `Enqueue` | the requests, retries and triggers that lead to the runs of a user | detailed specification |
| `MCEnqueue`, `EnqueueProofs` | a user and two triggers; theorems | TLC, TLAPS |
| `LeasedJob` | background work on a row under a lease | abstract specification |
| `DocumentExtraction` | one document, its object and its extraction | detailed specification; `OneOutcomePerRequest` is the refinement of `LeasedJob` |
| `MCDocumentExtraction`, `DocumentExtractionProofs` | two instances of the API; theorems | TLC, TLAPS |
| `ProfileGeneration` | the career profiles of a user and their generation | detailed specification; `OneOutcomePerProfile` is the refinement, for each profile |
| `MCProfileGeneration`, `ProfileGenerationProofs` | two instances of the API; theorems | TLC, TLAPS |
| `DetailCrawl` | one crawl of a listing and its detail pages | part of `ScrapeJob` |
| `ScrapeJob` | one scrape: attempts, crawls, timers, report | composes `DetailCrawl` with the job that starts and aborts it |
| `MCScrapeJob`, `ScrapeJobProofs` | two attempts of three pages; theorems | TLC, TLAPS |
| `Notebook` | status, follow-up and reminders of the offers of a user | detailed specification |
| `MCNotebook`, `NotebookProofs` | one offer, two overlapping deliveries; theorems | TLC, TLAPS |

### ScrapeRun

One run is modelled; runs share only offers (action `Takeover`: the upsert of another run takes
`run_id` over) and the schedule. A handler is a record in `req`: its control point `pc`, the
columns it read (`seen`), the offers it works on (`ids`), its callback (`cb`) and the outcome it
is to write (`to`, `error`). An action is one awaited statement with the pure code around it, so
all interleavings of handlers at their awaits are explored, and `seen` is as stale as it is in the
code.

| code | actions |
|---|---|
| `enqueueScrape` after the insert | `DispatchAccepted`, `DispatchRejected` (no worker URL, payload too large, refusal), `DispatchError` (rethrown) |
| `triggerSchedules` | `MarkSchedule` then `TieSchedule` (the event the sync looks for) |
| `heartbeatRun` | `BeginHeartbeat`, `WriteHeartbeat` |
| `ingestScrapeOffer`, `ingestScrapeOfferBatch` | `BeginIngest`, `PersistOffers`, `WriteIngest`, then the linking steps |
| `completeScrape` | `BeginCallback`, `Check` and `Insert` (`registerCallbackEvent`), `PersistOffers`, `Promote`, `Finalize` and `SyncSchedule` (`transitionRunStatus`), `SelectOffers`, `WritePending`, `Link`, `WriteProgress` |
| `reconcileStaleRuns` of `JS` | `BeginWatchdog`, then `Finalize` ... `WriteProgress` |
| `reconcileRun`, `reconcileStaleRuns` of ops | `BeginOps`, `WriteOps` |
| time, other runs, failures | `Silence`, `Age`, `Takeover`, `Abort` |

Abstractions. Timestamps are two booleans: `row.fresh` (a heartbeat or the start lies within
`SCRAPE_STALE_RUNNING_MINUTES`) and `aged` (the insert lies further back than
`SCRAPE_STALE_PENDING_MINUTES`). Of the progress record the model keeps what a handler decides on:
whether there are candidates, whether some were linked, and `matchingState`, whose values deferred
and skipped are one value, `owed`. The error column keeps who wrote it. `Offers` are the offers
that match the profile of the user: the others are not to be linked. `Link` covers
`attemptPostPersistLinking` up to the progress it writes, including a failure after the insert
(`owed` with the links made) and a failing catalog query, which `loadCatalogCandidateOffers`
answers with an empty list (`degraded`). A call is handled once; a repeated call is another member
of `Callers`. A crash of the API and a statement that throws are the same thing to the database:
`Abort`. Not in the model: the attempt ledger `job_source_run_attempts` and the run event log (no
decision reads them), callbacks that fail validation after they were registered, callbacks without
an event id (they skip `Check` and `Insert`), and failures of the two statements the trigger makes
after a successful enqueue.

`transitionRunStatus` has a branch that asks its update for the rows it matched. The update has been
awaited by then, so that branch is taken by mocks only; what runs is the code after it, which syncs
the schedule and returns true whether a row matched or not. `Finalize` therefore never stops a
handler: one that lost the race changes no status, but goes on to stamp the schedule, rewrite the
progress and relink, as the winner does. `crashed` and `raced` are history: whether a handler died,
and whether two of them wrote final statuses, or one a status over a final one.

### WorkerTask

`execution` is the row of `worker_task_executions` per run, `queue` and `active` the private
fields of each instance's `TaskRunner`, `req` the open POST requests. Every delivery of a run
carries the same payload, so every claim writes the same `leaseExpiresAt`; whether that
instant has passed is `due`. A claim made after it is already free again, as in the code.

| code | actions |
|---|---|
| `claimWorkerTaskExecution` and the branches on its result | `Claim`, `Duplicate` (202), `SkipClaim` (it threw) |
| `TaskRunner.enqueueAndWait`, `pump` | `Enqueue`, `Reject` (429), `Pump` |
| `TaskRunner.run` with `onStateChange` | `Start`, `End` (scrape against timeout), `WriteOutcome`, `Release` (answer, free the slot, pump) |
| Cloud Tasks | a refused or broken delivery is `new` again; an answered one is gone |
| time, failures | `Expire`, `Restart`; `Faults` lets the database calls of claim and hooks fail |

Not in the model: tasks without `sourceRunId` (not claimed at all) or without a lease, the smoke
mode that answers before queueing, and a scrape that goes on after its timeout (its effects on the
API are late calls, which `ScrapeRun` allows at any time).

### CallbackDelivery

The executions of one task report to one run. `worker` says how far `notifyCallback` is for each
execution, `letter` what became of its dead letter, and `call` how far the API is with each POST;
a POST whose sender gave up goes on. The API is `ScrapeRun` cut down to what a report can
observe: the events of the run with their attempt numbers, and whether the run is decided.

| code | actions |
|---|---|
| `runScrapeJob` reaches its success or its failure callback | `Finish` |
| one round of `notifyCallback`: POST, accepted, refused or thrown, pause | `Send`, `Ack`, `FailAttempt`, `Retry` |
| the signal of the runner during the success callback (`scrapeSignal`, `sleep`) | `Abort` |
| audit hooks of the failure callback that throw | `Abandon`, part of `FailAttempt` |
| `persistDeadLetter` | `Bury`, `BuryFails` |
| `replayDeadLetters` | `Replay`, `ReplayAccepted`, `ReplayFailed` |
| `registerCallbackEvent`, the rest of `completeScrape` | `Check`, `Insert`, `Decide` |
| network, API, worker host | `Lose`, `Crash`, `Die`, and the choice in `FailAttempt` to give up a POST that is still handled |

Abstractions. `orphaned` and `faulty` only remember: that a handler failed between registering
and deciding, and which executions lost their worker, their disk or an audit insert. The
lookups of `registerCallbackEvent` are one step, because what can change between them also
makes the insert a conflict, which is answered alike. `Decide` is one step: what happens
inside it is `ScrapeRun`. A second dead letter of an execution does not occur, and one replay of a
letter is handled at a time. Not in the model: the dead letters of offer ingestion
(`notifyOfferIngest`), tasks without a callback URL, and the length of the pauses.

### Enqueue

There are two versions of `enqueueScrape`, one in `job-sources-core.service.ts` for `POST /scrape`
and one in `job-sources.service.ts` for schedules and retries; `mode` in `call` says which one a
request runs. The two differ, and the model keeps the difference: the core service fails no
stale runs before it counts, and asks nothing of the catalog.

| code | actions |
|---|---|
| `POST /scrape`, `triggerScheduleNow`, `retryRun`, `triggerSchedules`, rematch | `BeginDirect`, `BeginManual`, `BeginRetry`, `BeginTick`, `BeginRematch` |
| reconciliation, guards and limits | `CountActive`, `CountDaily` |
| `tryServeFromCatalog`, `tryReuseFromDatabase` | `ServeFromCatalog`, `ReuseFromDatabase`, `FindNothing` |
| insert, dispatch | `Insert`, `DispatchAccepted`, `DispatchRejected`, `DispatchError` |
| `retryRun` after the enqueue; `triggerSchedules` after it | `Tie`; `Settle` |
| heartbeats, ingestion, callbacks and reconciliation of an active run; those that write by id when it is final | `Progress`; `WriteLate` |
| `updateSchedule`, time, failures | `SaveSchedule`, `TimePasses`, `Crash` |

A trigger selects a schedule up to a second before its time (`job-sources.service.ts:1319`), and
`computeNextRunAt` counts from that moment: for a time of the day it gives the same time again, for
an interval of minutes a later one. `BeginTick` and `Settle` keep both. So a trigger that comes a
little early runs a time of the schedule that the next trigger runs again.

Abstractions. `now` counts how often the time of the schedule has come, and cron arithmetic is
"the next of these after now", or the one after it for an interval. What the catalog and earlier
runs offer, the backoff of the
automation and the window against duplicates depend on other users and on the clock: they are
choices. Rows never leave the 24 hours of the daily limit, and the schedule stays enabled. Any run
that had work may be written late: whether a handler had read it in time is `ScrapeRun`. `depth`,
`lost`, `work`, `seen` and `slot` only remember: the true length of a chain of retries, whether one
of it was not on record when it was retried, whether the request of the run was overtaken or a late
write reopened it, which runs there were when a request counted, and what each time of the schedule
has started. Linking of the reused offers is left out.

Placeholders of the core service are modelled as they are: every `POST /scrape` has the same
intent fingerprint (`job-sources-core.service.ts:1108`), a reused run is answered without linking its
offers (968-985), none of its offers counts as fresh (1063).

### DocumentExtraction

`row` is the row of one document and `object` whether its file is in the bucket. `task` is the
entry of the document in the `extractionQueue` of each instance: queued, claimed (`working`), with
the file (`fetched`), or through with the row and still in the map (`closing`). `call` is a
request, which stops between any two statements.

| code | actions |
|---|---|
| `createUploadUrl`, the PUT of the client, `confirmUpload` | `CreateUploadUrl`, `Upload`, `BeginConfirm`, `CheckObject`, `MarkUploaded`, `Queue` |
| `extractText`, `retryExtraction`, `retryFailedExtractions` | `BeginExtract`, `Reset`, `Queue` |
| `processQueuedExtraction`, `failExtraction` | `Claim`, `Download`, `Settle`, `Close` |
| `remove` | `BeginRemove`, `DeleteObject`, `DeleteRow` |
| `syncWithStorage` | `BeginSync`, `ReadRows`, `ReadMetadata`, `InsertMissing`, `RepairUploaded`, `PurgeMissing` |
| time, failures | `LeaseExpires`, `Restart` |

A task that rejects ends the process, because nobody handles the rejection: `Restart` stands for
it. `overlap`, `lost` and `torn` only remember why a promise does not hold: a lease ran out or a
request came during an extraction; the last request was swallowed by an entry that was through,
died with its instance, or was never queued by a synchronisation; the object went while the row
stayed.

### ProfileGeneration

| code | actions |
|---|---|
| `create` | `BeginCreate`, `GetNextVersion`, `Insert` |
| `getLatest`, `getById`, `listVersions` | `Read` |
| `restore` | `BeginRestore`, `Restore` (a transaction) |
| `processQueuedGeneration`, `markProfileFailed` | `Claim`, `Deactivate`, `WriteReady`, `MarkFailed` |
| time, failures | `LeaseExpires`, `Restart` |

A profile is usable when it is active and READY, which is what `getCareerProfileContext` asks for.
New profiles are active while they are PENDING, beside the one that is in use. `raced`, `broken`
and `overlap` remember that two creates were past their checks together, that a generation took
the flag from the others and did not get it itself, and that a lease ran out during a generation.

### DetailCrawl and ScrapeJob

`DetailCrawl` is `crawlPracujPl`: the listing (fetched, retried, or loaded in the browser), then
batches of concurrent detail pages. Each page is a process in `target`; `queue` is the chain of
promises that gives pages their turn with the one browser. `ScrapeJob` is `runScrapeJob`: it
starts a crawl, races it against its own timer, collects and sends the offers, relaxes the filters,
and reports. `job` and `crawl` run side by side, since a job that lost the race goes on to its
report while the crawl still winds down.

| code | actions |
|---|---|
| planning, the loop of attempts | `Plan`, `PlanFails`, `Collect`, `CrawlThrows`, `Sent`, `SendFails` |
| saving and reporting | `Complete`, `CompleteFails`, `Fail` |
| timers of the scrape and of the task runner | `ScrapeTimesOut`, `TaskTimesOut` (which only raises the signal) |
| listing, batches, the finally block | `ListingStep`, `StartBatch`, `EndDetails`, `Close` |
| `processDetailTarget`, `runBudgetedBrowserFallback`, `loadDetailPageBrowser` | `TargetStep` |

What the code does at the edges is kept: a browser whose launch is under way when the crawl
closes stays behind (`stray`); the time budget is charged with the waiting and looked at on
entry only; a fallback that is denied ends the crawl after its batch; a job that failed leaves its
timer on. Abstracted: parsing, salvage and quality, to the set of offers that a crawl finds and
the part of it that is accepted; the choice of filters, to whether some are left; the planner,
whose probes follow each other and fetch no detail pages, to one step. Left out: heartbeats and
execution events. `CallbackDelivery` models the report in detail.

### Notebook

| code | actions |
|---|---|
| `updateStatus` (a transaction that does not lock what it reads) | `ReadStatus`, `WriteStatus` |
| `dismissAllSeen`, `autoArchiveOldOffers` | `DismissAllSeen`, `AutoArchive` |
| `completeFollowUp`, `snoozeFollowUp`, `clearFollowUp`, `updatePipelineMeta`, the bulk updates | `SetFollowUp` |
| `deliverReminderDigests` for one user | `BeginTick`, `Preview`, `ReadDeliveries`, `SendDigest`, `SendFails`, `Persist`, `PersistFails` |
| failures, time | `Crash`, `TimePasses` |

`SAVED` stands for the four statuses with a follow-up and `DISMISSED` for `REJECTED`, which no
statement here tells apart. A delivery reads the clock twice: for the day of its windows, and
again for the buckets. The preview may leave any offer out (expired, or after the first ten
of its bucket). The handlers of follow-ups write values they may have read long ago, so any
value is written at any time. `trail`, `raced`, `told`, `again` and `shaky` are history: the
true sequence of statuses, where an `updateStatus` overwrote a change it had not seen, and which
mails went out unrecorded or beside each other. The history column is never null, since the only
statement that inserts rows sets it.

## 3. Runs

| run | question | result |
|---|---|---|
| `scrape_run` | what holds with every kind of handler at work | passes |
| `scrape_run_lifecycle` | do the guarded handlers implement `RunLifecycle`, and does the run end despite crashes | passes |
| `scrape_run_late_heartbeat` | does the run follow its transition table with heartbeats | violated |
| `worker_task` | lease, limits, slots and answers with every fault | passes |
| `worker_task_duplicate` | is a delivery dismissed only for the sake of a live one | violated |
| `callback_delivery` | is a report that the worker forgets in effect, is any other kept, does each decide the run | passes |
| `callback_delivery_crash` | the first of these without the exception for a handler that failed | violated |
| `enqueue` | how far past the limits of active runs and of retries do racing requests get, what does each time of the schedule start, and does a due schedule move on | passes |
| `document_extraction` | is each request for an extraction served and settled once, and does each uploaded document have its file | passes |
| `profile_generation` | is there one usable profile, one profile for each request, one outcome for each profile | passes |
| `scrape_job` | is a completed scrape complete, is the browser shared and closed, does an aborted job come to rest | passes |
| `notebook` | does the history account for the status, and is nobody reminded twice | passes |

### Properties of the passing runs

* `ErrorMatchesOutcome`: COMPLETED without an error, FAILED with one, also after a run was
  reopened and finalised again by someone else.
* `EventProcessedOnce`: two deliveries of one event never both get past the registration.
* `MatchingSettles`: `matchingState = pending` has a handler at work on it, unless one died; a
  handler that lost the race to finalise the run is one of them.
* `ReopenedOnlyByBlindWrite`: exactly which statements can take a run out of a final status.
* `ScheduleShowsOutcome`: an outcome that a schedule shows is the one of its run, unless two
  handlers wrote outcomes of the run (`raced`). `ScheduleKeepsOutcome`: recording the enqueue of a
  run does not take its outcome back, and only where handlers raced does another replace it.
* `FollowsLifecycle`, `EventuallyFinal`: refinement of `RunLifecycle`, and termination.
* `OneExecutionPerLease`: executions of one run overlap only after its lease ran out or after a
  claim of it failed.
* `EveryRequestAnswered`: a request taken in is answered, or its connection breaks: no task is
  stranded in the queue by a slot that was not refilled or a count that drifted.
* `AcknowledgedTookEffect`: the API answers 200 to duplicates, stale attempts and attempts out of
  order too; the worker forgets a report only when some report of the run was registered, and
  then the run is decided or being decided unless that handler failed.
* `UndeliveredIsKept`: a report that ends without an answer has a dead letter, also when the task
  times out in the middle of the attempts, where the failure callback stands in.
* `EveryReportDecides`: with replays, every report begun gets the run decided, although a dead letter
  is replayed with an attempt number other than those it was posted with.
* `ActiveWithinLimit`: requests that nobody overtook between their count and their insert keep
  their active runs within the limit, and those that were overtaken add one run each. Runs that a
  late write has reopened come on top: each may be active beside its successors, so the code bounds
  only the runs that requests started.
* `OneRunPerSlot`: triggers that come when a schedule is due start no two runs for one of its times,
  unless they overlapped or one died before it moved the schedule. What a trigger starts in the
  second before is not counted: it comes on top (see Disagreements).
* `RetryChainBounded`: a chain of retries is as long as its last run says, and never too long,
  unless a member was retried before it was on record.
* `DueIsHandled`: a schedule whose requests are refused again and again moves on all the same.
* `OneOutcomePerRequest`, `OneOutcomePerProfile`: the refinements of `LeasedJob`: one worker and
  one outcome for a request unless a lease ran out or requests overlapped.
* `RequestIsServed`: an uploaded PENDING document has a task or a request on its way to one, unless
  `lost` says why not; `RequestIsSettled`: a user who keeps asking gets an outcome whatever was lost.
* `UploadedHasObject`: a row marked uploaded has its file, unless a removal is between its two
  deletions or stopped there, or a synchronisation listed the file before it went.
* `OneUsable`, `UsableIsKept`: never two usable profiles, whatever interleaves; and always one once
  a profile was READY, except in and after a generation that broke off between its statements.
* `OneProfilePerRequest`: versions are unique and one PENDING profile is active unless two creates
  raced. `ProfileIsSettled`: a profile left by a restart is generated when the user looks again.
* `FallbacksAreSerial`: one page in the browser at a time, in the order of the queue, and within
  the limit. `CompletedMeansAll`: a result that says completed has an outcome for each page.
  `BrowserIsClosed`: no crawl leaves a browser behind but one that `stray` names.
* `JobComesToRest`: job, crawl, queue and pages all end, aborted or not.
* `HistoryAccounts`: the history of an offer ends with its status, and names all it ever had
  unless two changes raced. `RemindedOnce`: two mails in a row about one offer in one window need
  overlapping deliveries or a mail that was not recorded.

### Disagreements

Each violated run states what the documentation says and TLC shows the code doing otherwise.

* `scrape_run_late_heartbeat`: heartbeat reads RUNNING; the callback completes the run; the
  heartbeat writes RUNNING. The status check and the write are separate statements and the write
  names only the id.
* `worker_task_duplicate`: the queue is full, the worker answers 429 and keeps the claim; the retry
  is answered 202 duplicate. With the default configuration the lease outlasts every retry, so
  the run ends by the watchdog only.
* `callback_delivery_crash`: the API registers the event and fails; the retry is a duplicate and
  answered 200; the worker keeps no dead letter, and the run stays active.

Four more are described by the models without a run of their own.

* A run that is final before `schedule_enqueue_succeeded` is appended leaves its schedule at
  ENQUEUED, since the sync finds no schedule and later nothing looks again (`SyncSchedule` before
  `TieSchedule`).
* A heartbeat that replaces the progress wipes `candidateOffers`, after which the failure callback
  sees nothing to relink (`WriteHeartbeat`, `Finalize`).
* The watchdog selects a stale run; its callback completes it, and the schedule shows COMPLETED; the
  update of the watchdog matches no row, and it stamps the schedule FAILED all the same
  (`job-sources.service.ts:6279-6289`), with an error the run does not have. `ScheduleShowsOutcome`
  makes the exception for such races, and no other.
* A trigger a moment before 09:00 runs the schedule of 09:00 and writes 09:00 as its next time; the
  trigger at or after 09:00 runs it again. No overlap and no failure is needed, only a scheduler, or
  a clock, that is up to a second early (`BeginTick`, `Settle`). `OneRunPerSlot` makes the exception.

### Bounds

`scrape_run` has two calls, one reconciler and one offer. Two calls are what each property needs to
go wrong together with a reconciler, the dispatcher and the trigger, which are processes of their
own. One offer
distinguishes linked from not linked; several offers of one run are treated alike by every
statement. The callbacks are one success with jobs and one failure of another execution of the
task, whose first two attempts were lost, and in the other runs a retry of the success without
jobs. Nothing in the model counts, so no further bound is needed.
Calls are interchangeable in `scrape_run`, which has no liveness property, so symmetry is used
there and nowhere else. `scrape_run_lifecycle` has no heartbeat, ingest or ops write because
those break the property (previous paragraph); `Kinds` says which handlers an instance has.

`worker_task` has two runs, of which one is delivered twice, one worker with one slot and one queue
place: every limit is reached and every claim contested. `worker_task_duplicate` needs a
third run so that slot and queue are taken when the duplicated one arrives.

`callback_delivery` has two executions, because the attempt order relates the events of
different executions, with two attempts each: a first one to lose and a last one. One crawled
once and one three times, so the number a replay carries is below, at, or above those
registered (an attempt 3 after 1 is out of order, a 1 after 2 is never compared). Failures of the network,
the API and the timeout befall the first execution, those of the host the second; the properties
speak of both, and the interleavings of the API are shared. `callback_delivery_crash` needs one
execution.

`enqueue` has two rows (`N`), limits of one active and two daily runs and chains of one retry. It
starts with no, one or two failed runs, which may themselves be retries, so that a retry of a retry
is refused with one row to go, and two requests that count at once pass the limit. One call makes
every kind of request and the other is a trigger that may die, so that triggers overlap and race
with the user. The schedule comes due once (`Slots`): it is triggered early, in time and late, and
moved by triggers and by saves. Where `N` ends the insert fails, as it may in the code; times beyond
`Slots` are not triggered. Two rows cannot exceed the second bound of `ActiveWithinLimit`, which two
calls put at two: that part rests on its theorem.

`document_extraction` has two instances, one of which restarts once, and three calls: with two,
a request or a task on one instance meets a request and a task on the other, which is all that
the lease, the map and the two stores can be confused by; the third lets a synchronisation run
beside a removal and an extraction. `profile_generation` has two profiles, so one is in use while
the other is generated or restored, two instances and two calls.

`scrape_job` has three detail pages in batches of two, so that pages compete for the browser and a
batch remains when the crawl ends early; two fallbacks for three pages; one timeout or two
failures until the crawl is given up; and two attempts of which the second may find the offer of
the first. Timers fire at any moment.

`notebook` has one offer (offers share nothing but the mail and the statement that records it, and
each bucket is recorded by itself), an `updateStatus` beside the bulk updates, two deliveries
that overlap, and three half days (`MaxTime`), so that a delivery that began on one day ends on
the next. Two changes of status (`MaxChanges`) are the least that race.

`CHECK_DEADLOCK FALSE` throughout: a run that is final and whose calls are all answered, a job that
ended, or a model whose clock is at its bound has nothing left to do.

## 4. Fairness

`ScrapeRun!Fairness`: the dispatcher and each handler that has begun go on (Node runs every ready
callback, and statements return or throw); time passes (`Silence`, `Age`); the reconciliation
begins again and again, because every read of the runs of a user starts with it. This is an
assumption about users, and the code has no other timer: a user who never comes back leaves the run
unreconciled until an operator does it. Strong fairness of a reconciler's `Finalize` says that not every one
of them dies just before its update. The worker is given no fairness at all: it may
never call.

`WorkerTask!FairSpec`: each open request goes on. `End` is among its steps because the timeout
settles the race of a scrape that does not end. Delivery, expiry and restart are not fair.

`CallbackDelivery!Fairness`: handlers and workers go on, and a POST ends somehow, since `fetch` has
a timeout of its own. Dead letters are replayed again and again: nothing in the code does this by
itself, the runbook asks an operator to (`05_operations_and_deployment/01_runbook.md:657`). Strong
fairness of the lookup and of the insert of a replay says that the network and the API do not
fail every single one of them. Reports begin, fail and time out without fairness.

`Enqueue!Fairness`: handlers go on, and the scheduler, a job of the cloud that posts to
`/job-sources/schedule/trigger` at fixed times, finds the schedule due again and again (strong, because a
trigger in flight or a moved schedule disables it). Requests of the user are not fair.

`DocumentExtraction!Fairness`: tasks and handlers go on. Strong fairness of `BeginExtract` on a PENDING
document is the user who presses "Retry extract": without it a document whose task died stays
PENDING, since nothing in the API takes it up after a restart. Leases need not run out.

`ProfileGeneration!Fairness`: tasks go on, leases run out with time, and the user looks at the profiles
again and again, which is what queues them.

`ScrapeJob!Fairness`: every wait of the job and of the crawl has a limit of its own: `fetch`, launch and
navigation have timeouts, pauses end, and statements of the API are answered or fail. Neither
timer has to fire: the job rests without them.

`Notebook` states no fairness: nothing makes the mailer or the scheduler succeed.

## 5. Proofs

The proof modules prove, for all values of the constants that satisfy the named assumptions (any
number of instances, requests, rows, limits and restarts):

| theorem | statement |
|---|---|
| `ScrapeRunProofs!TypeCorrect` | `Spec => [](TypeOK /\ HandlersOK)` |
| `ErrorsMatch` | `Spec => []ErrorMatchesOutcome` |
| `OnlyBlindWritesReopen` | `Spec => ReopenedOnlyByBlindWrite` |
| `GuardedRunsFollowLifecycle` | without heartbeat, ingest and ops handlers, `Spec => FollowsLifecycle` |
| `EventsProcessedOnce` | `Spec => []EventProcessedOnce` |
| `SchedulesKeepOutcomes` | `Spec => ScheduleKeepsOutcome` |
| `SchedulesShowOutcomes` | `Spec => [](SyncsOutcome /\ ScheduleShowsOutcome)` |
| `MatchingAlwaysSettles` | `Spec => []MatchingSettles` |
| `WorkerTaskProofs!TypeCorrect` | `Spec => []TypeOK` |
| `LeaseExcludesDuplicates` | `Spec => []OneExecutionPerLease` |
| `SlotsAreAccounted` | `Spec => []SlotsAccounted`: slots, limits and queue agree |
| `DuplicatesHaveTwins` | with room in the queues, no deaths and no lost terminal write, `Spec => DuplicatesHaveALiveTwin` |
| `CallbackDeliveryProofs!TypeCorrect` | `Spec => []TypeOK` |
| `AcknowledgementIsSafe` | `Spec => []AcknowledgedTookEffect` |
| `NothingUndeliveredIsLost` | `Spec => []UndeliveredIsKept` |
| `EnqueueProofs!TypeCorrect` | `Spec => []TypeOK` |
| `RetriesEnd` | `Spec => []RetryChainBounded` |
| `SlotsRunOnce` | `Spec => []OneRunPerSlot` |
| `LimitIsKept` | `Spec => []ActiveWithinLimit` |
| `DocumentExtractionProofs!TypeCorrect` | `Spec => []TypeOK` |
| `RequestsAreServed` | `Spec => []RequestIsServed` |
| `UploadsHaveObjects` | `Spec => []UploadedHasObject` |
| `ImplementsLeasedJob` | `Spec => OneOutcomePerRequest` |
| `OneExtraction`, `OutcomesStand` | `Spec => []Job!OneWorker`, `Spec => Job!OutcomeStands` |
| `ProfileGenerationProofs!TypeCorrect` | `Spec => []TypeOK` |
| `UsableIsUnique` | `Spec => []OneUsable` |
| `UsableRemains` | `Spec => []UsableIsKept` |
| `RequestsShareAProfile` | `Spec => []OneProfilePerRequest` |
| `ImplementsLeasedJob` | `Spec => OneOutcomePerProfile` |
| `OneGeneration`, `OutcomesStand` | the same for `Job(p)` of each profile `p` |
| `ScrapeJobProofs!TypeCorrect` | `Spec => []TypeOK` |
| `FallbacksSerial` | `Spec => []FallbacksAreSerial` |
| `CompletedHasAll` | `Spec => []CompletedMeansAll` |
| `BrowserClosed` | `Spec => []BrowserIsClosed` |
| `SentOnce` | `Spec => []OffersSentOnce` |
| `NotebookProofs!TypeCorrect` | `Spec => []TypeOK` |
| `HistoryAccounted` | `Spec => []HistoryAccounts` |
| `HistoryIsFaithful` | `Spec => []HistoryIsPast`: no entry is invented or moved |
| `MailsAreRecorded` | `Spec => []MailIsRecorded` |
| `RemindersOnce` | `Spec => []RemindedOnce` |

The argument for the run. A transition guarded by the status it read can do no harm if what the
handler is about to write fits that status. `HandlersOK` says so for every control point: a handler
that is about to finalise read a status that was not final, and one that is to complete
the run read RUNNING (or has promoted it); the error to be written fits the outcome. With it each
guarded write is a step of the transition table, and the only other writers of the column are the
three blind writes. `EventProcessedOnce` is inductive with the fact that the event of every
accepted call is registered; `ScheduleKeepsOutcome` with the fact that an untied
schedule shows no outcome, so that the sync cannot have run before `MarkSchedule`.
`ScheduleShowsOutcome` needs `SyncsOutcome`: until handlers race, one that is about to sync the
schedule has just given the run the outcome it will write.

The argument for the lease of a task. `OneExecutionPerLease` is not inductive: that two claims
exclude each other needs the row of a live, uncontested execution to be held. `LeaseHeld` adds this;
it survives the terminal write of another execution only because there is none, which is the
property itself. `Waiting` (a queue holds its waiting requests once each) and the
placement of requests at workers keep `Pump` from starting a request that is not queued.

The argument for the slots. `SlotsAccounted` says of each worker that `active` is the number of
its tasks in slots, that both limits hold, that every waiting task is in the queue and that the
queue is empty while a slot is free. It is inductive with `Waiting`: the queue holds each task
once, so a pump starts as many tasks as the queue loses places (`FirstOfCardinality`), none of
which had a slot, and it stops short of the limit only when the queue is empty (`PumpedFills`). The
set of deliveries may be infinite; that the busy ones are finitely many is part of the invariant.

The disagreement of `worker_task_duplicate` has a theorem for its other side. `DuplicatesHaveTwins`
assumes `Undisturbed` (room for every delivery in each queue, no instance dies, no terminal
write is lost) and proves the very property that the run refutes: every row that keeps others out
has a live delivery (`HeldHasTwin`). So a refusal, a death and a lost write are the only ways
to lose a task as a duplicate, and a failed claim is not one.

The argument for the delivery. Every answer of 200 needs a registered event: the one it duplicates,
the one it is compared with, or its own (`AnswerNeedsEvent`, `RejectionNeedsEvent`). A registered
event has a handler that is to decide the run until the run is decided or the handler fails
(`RegisteredDecides`). That a later POST does not overwrite such a handler in `call` needs
`PostedOnce`: an execution never returns to an attempt it posted, because the failure callback,
which counts from one again, has another status and comes last.

The argument for the enqueue. The limit is not inductive as it stands. `RoomIsLeft` says that a
request that has counted finds room as long as no run was inserted since (`seen`): an insert takes the
room of all others, which will be marked when they insert. `LimitHolds` counts every
request that is past the check as if it had inserted its run, so an insert moves one from one
set to the other; the check needs that the request itself was not among them. Both count the runs that
were not reopened, which no late write adds to, while the code counts all. For the schedule,
`TicksAreAlone` says that a trigger is either the only one or shares times that are marked as
overlapped, and `FiredIsPast` that a time served after it came lies behind the schedule, or behind it
as soon as the trigger that served it settles: no later trigger can select it, whether in time or
early, as a time that has come is not ahead of any trigger that starts then. For the chain,
`RetriesFollow` ties the depth of the inserted row to the count that the handler read.

The argument for leased work. `LeaseExcludes` is the core of both refinements: without an overlap
one task is busy, and the row it is busy with is PENDING under a live lease, which is why no other
claim can succeed and why the outcome it writes is the first. Every step then maps to a step
of `LeasedJob` or to a stutter: a claim to `Take`, a write of an outcome to `Settle`, a
restart to `Stop`. For documents `LeaseIsHeld` and `OnlyUploaded` make a claimed row have its
task; `SeenHasObject` extends `UploadedHasObject` to every handler that saw the object and has
not written so yet. For profiles `TakerIsAlone` (one that took the flag and still has it is the
only one usable or about to be) makes `OneUsable` inductive, and `FlagIsKept` does the same for
`UsableIsKept`; versions need `InOrder`, and the maximum of a set of numbers its own lemma. What
`LeasedJob` promises, one worker and an outcome that stands as long as nothing overlaps, is then
proved of the documents and of each profile themselves: `OneExtraction`, `OneGeneration`,
`OutcomesStand`.

The argument for the scrape. `PageEffect` sums up what any of the eleven steps of a page can do: the
page keeps its place in the queue, joins it at the end, or leaves it from the front; the session moves
with the page that launches it; what goes wrong is known to the crawl at once. `QueueHoldsWaiting`
(the pages that wait for the browser or use it are in the queue, once each) makes `FallbacksAreSerial`
inductive. `CompletedMeansAll` needs `BegunInOrder` (the begun pages are an initial segment of the
listing, so that an empty next batch means all of them), `ResultsAreKnown` (a denied or thrown page has
taken "completed" from the crawl) and `ReturnsSettled` (it holds from the end of the last batch
on). `NothingBegun` says that none of this starts before the listing is there, and
`SentIsCollected` ties the offers sent to the keys that keep them from being sent again.

The argument for the notebook. A history that an `updateStatus` read is a subsequence of what has
happened since (`ReadIsPast`), so that a write of it can lose entries but not invent or move
one: `HistoryIsPast`. If nothing wrote in between, what was read is the row itself, and the
history written accounts for the new status; if something did, the write is one that `raced`, which is
the exception `HistoryAccounts` names. For the digests `RemindedOnce` is inductive with four
facts: no two deliveries are under way unless they were marked (`OneUnderway`), a mail of a window is
recorded or being recorded or its window is shaky (`MailIsRecorded`), a mail about to go out is not
the last one again (`MailIsNew`), and what a delivery has to record is what came of its mail
(`RecordIsTrue`). Only a delivery whose mail went out, or failed, has anything to record
(`RecordsMail`).

Only model-checked: liveness (`EventuallyFinal`, `EveryRequestAnswered`, `EveryReportDecides`,
`DueIsHandled`, `RequestIsSettled`, `ProfileIsSettled`, `JobComesToRest`), since reasoning with
fairness is outside what the proof system supports.
Every other property that a run passes is a theorem. `OffersSentOnce` (later attempts do not send
what earlier ones sent) and `SlotsAccounted` are theorems only.

## 6. Not modelled

Page parsing, normalisation, ranking and matching are data transformations without interleaving.
Authentication, users, companies, workspace, profile inputs and the web application touch rows in
single statements. Cloud Tasks, PostgreSQL, the bucket, the mailer and the file system are
taken as they are used: at-least-once delivery, atomic statements, unique keys, calls that may
fail after they took effect.

Parts of modelled components that are left out are named with them in section 2 and in
`PROJECT.json`. The largest are the read models: the lists and summaries of the notebook,
of the runs and of the ops pages take most of the lines of their services and change no state.

## 7. Plan

1. The dead letters of offer ingestion; the bulk updates of follow-ups as transactions of their own,
   whose rows are read before any is written.
2. Pure operators: the retry delay, relaxation order and query planning of the worker, each against
   a reference definition.
