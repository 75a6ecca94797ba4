------------------------------ MODULE ScrapeJob -------------------------------
(***************************************************************************)
(* One scrape of the worker (runScrapeJob in scrape-job.ts): the filters   *)
(* are planned, then crawls follow each other, with fewer filters each     *)
(* time, until enough offers are collected; new offers are sent to the API *)
(* at once, and the job ends with a report.  The scrape has a timer, which *)
(* races against the crawl but does not wait for it to stop, and the task  *)
(* runner has another one, which only raises the signal.                   *)
(***************************************************************************)
EXTENDS DetailCrawl

CONSTANTS
  Offers,      \* canonical keys of the offers the source may show
  Limit,       \* requestedLimit
  Relaxations  \* how often relaxPracujFiltersOnce has something to take away

ScrapeJobAssumption == {Limit, Relaxations} \subseteq Nat

ASSUME ScrapeJobAssumption

VARIABLES
  job,        \* where the job is
  attempt,    \* attemptsExecuted
  timer,      \* the timer of the scrape: "on", "off" or "fired"
  collected,  \* collectedKeys and aggregatedNormalizedKeys
  batch,      \* the accepted offers that emitAcceptedOffers is sending
  sent        \* in how many batches each offer was

jobVars == <<job, attempt, timer, collected, batch, sent>>

vars == <<crawlVars, jobVars>>

Ended == {"completed", "failed"}

TypeOK ==
  /\ CrawlTypeOK
  /\ job \in {"planning", "crawling", "sending", "saving", "failing"} \cup Ended
  /\ attempt \in Nat
  /\ timer \in {"on", "off", "fired"}
  /\ collected \subseteq Offers
  /\ batch \subseteq Offers
  /\ sent \in [Offers -> Nat]

Init ==
  /\ CrawlInit
  /\ job = "planning"
  /\ attempt = 0
  /\ timer = "on"
  /\ collected = {}
  /\ batch = {}
  /\ sent = [o \in Offers |-> 0]

-----------------------------------------------------------------------------

\* The crawl of the next attempt is started and raced against the timer, which wins if
\* it fired before.
NextAttempt ==
  /\ BeginCrawl
  /\ attempt' = attempt + 1
  /\ job' = IF timer = "fired" THEN "failing" ELSE "crawling"

\* planPracujAdaptiveQuery probes listings, one crawl after the other, none of them with
\* detail pages; it is not raced against the timer.
Plan ==
  /\ job = "planning"
  /\ NextAttempt
  /\ UNCHANGED <<timer, collected, batch, sent>>

PlanFails ==
  /\ job = "planning"
  /\ job' = "failing"
  /\ UNCHANGED <<attempt, timer, collected, batch, sent>>
  /\ UNCHANGED crawlVars

\* The crawl returns: offers not collected before are parsed, from detail pages or from
\* the listing alone, and those of good quality are sent.
Collect ==
  /\ job = "crawling"
  /\ crawl = "returned"
  /\ job' = "sending"
  /\ \E found \in SUBSET Offers :
       /\ collected' = collected \cup found
       /\ batch' \in SUBSET (found \ collected)
       /\ sent' = [o \in Offers |-> sent[o] + (IF o \in batch' THEN 1 ELSE 0)]
  /\ UNCHANGED <<attempt, timer>>
  /\ UNCHANGED crawlVars

CrawlThrows ==
  /\ job = "crawling"
  /\ crawl = "thrown"
  /\ job' = "failing"
  /\ UNCHANGED <<attempt, timer, collected, batch, sent>>
  /\ UNCHANGED crawlVars

\* The batch was accepted or became a dead letter.  A listing without offers leads to
\* another attempt, as long as there are filters to take away; anything else ends the
\* loop and the timer.
Sent ==
  /\ job = "sending"
  /\ batch' = {}
  /\ IF /\ Cardinality(collected) < Limit
        /\ empty
        /\ attempt <= Relaxations
        /\ attempt < Limit + 4
     THEN NextAttempt /\ UNCHANGED timer
     ELSE /\ job' = "saving"
          /\ timer' = IF timer = "on" THEN "off" ELSE timer
          /\ UNCHANGED attempt
          /\ UNCHANGED crawlVars
  /\ UNCHANGED <<collected, sent>>

\* The dead letter could not be written.
SendFails ==
  /\ job = "sending"
  /\ job' = "failing"
  /\ batch' = {}
  /\ UNCHANGED <<attempt, timer, collected, sent>>
  /\ UNCHANGED crawlVars

\* saveOutput, and notifyCallback with COMPLETED, which has no callback to make or is in
\* its last attempt when it goes through after the signal.
Complete ==
  /\ job = "saving"
  /\ job' = "completed"
  /\ UNCHANGED <<attempt, timer, collected, batch, sent>>
  /\ UNCHANGED crawlVars

\* Either throws, notifyCallback once it waits for its next attempt after the signal.
CompleteFails ==
  /\ job = "saving"
  /\ job' = "failing"
  /\ UNCHANGED <<attempt, timer, collected, batch, sent>>
  /\ UNCHANGED crawlVars

\* notifyCallback with FAILED, which nothing aborts.
Fail ==
  /\ job = "failing"
  /\ job' = "failed"
  /\ UNCHANGED <<attempt, timer, collected, batch, sent>>
  /\ UNCHANGED crawlVars

-----------------------------------------------------------------------------
(* The timers                                                              *)

unchangedCrawl ==
  UNCHANGED <<crawl, links, empty, target, queue, session, fallbacks, spent,
              timeouts, failures, degraded, stopReason, stray>>

\* The timer of the scrape, which a job that failed leaves on: a job that awaits its
\* crawl is through with it.
ScrapeTimesOut ==
  /\ timer = "on"
  /\ timer' = "fired"
  /\ aborted' = TRUE
  /\ job' = IF job = "crawling" THEN "failing" ELSE job
  /\ UNCHANGED <<attempt, collected, batch, sent>>
  /\ unchangedCrawl

\* The timer of the task runner, which gives the slot of the job away.
TaskTimesOut ==
  /\ ~aborted
  /\ job \notin Ended
  /\ aborted' = TRUE
  /\ UNCHANGED jobVars
  /\ unchangedCrawl

-----------------------------------------------------------------------------

JobStep ==
  \/ Plan \/ PlanFails \/ Collect \/ CrawlThrows \/ Sent \/ SendFails
  \/ Complete \/ CompleteFails \/ Fail

Next ==
  \/ JobStep
  \/ CrawlStep /\ UNCHANGED jobVars
  \/ ScrapeTimesOut
  \/ TaskTimesOut

Spec == Init /\ [][Next]_vars

\* Every wait of the job and of its crawl has a limit of its own: fetches, navigations
\* and launches time out, pauses end.
Fairness ==
  /\ WF_vars(JobStep)
  /\ WF_vars((ListingStep \/ BatchStep) /\ UNCHANGED jobVars)
  /\ \A t \in Targets : WF_vars(TargetStep(t) /\ UNCHANGED jobVars)

FairSpec == Spec /\ Fairness

-----------------------------------------------------------------------------
(* Properties                                                              *)

\* The crawl never has two pages in the browser, aborted or not, never takes a fallback
\* beyond the limit, and the page that launches it is in front of the queue.
FallbacksAreSerial ==
  /\ \A t \in Targets : target[t].pc \in Browsing => queue # <<>> /\ Head(queue) = t
  /\ session = "launching" =>
       \/ crawl \in {"launch", "relaunch"}
       \/ \E t \in Targets : target[t].pc \in {"launch", "relaunch"}
  /\ fallbacks <= MaxFallbacks

\* A crawl that returns as completed has a result for every detail page, whatever came
\* of the fallbacks it had to deny or gave up.
CompletedMeansAll ==
  crawl = "returned" /\ stopReason = "completed" =>
    \A t \in 1..links : target[t].result \in {"page", "blocked", "failed"}

\* A crawl that is over has no browser left, unless it was aborted while the browser
\* was being launched, or no context could be made.
BrowserIsClosed == crawl \in Over /\ session = "open" => stray

\* No offer is sent in two batches, although attempts may find it again.
OffersSentOnce == \A o \in Offers : sent[o] <= 1

\* The job ends, and nothing of its crawl goes on behind its back for ever.
JobComesToRest ==
  <>(/\ job \in Ended
     /\ crawl \in Over
     /\ queue = <<>>
     /\ \A t \in Targets : target[t].pc \in {"idle", "done"})

=============================================================================
