----------------------------- MODULE DetailCrawl ------------------------------
(***************************************************************************)
(* One crawl of the worker (crawlPracujPl in pracuj-pl/crawl.ts): the      *)
(* listing is fetched, then the detail pages of its offers, in batches of  *)
(* concurrent fetches.  A page that cannot be fetched is tried in a        *)
(* browser that the crawl shares: these fallbacks queue behind each other, *)
(* are limited in number and time, and end the crawl early when they fail. *)
(* Everything may be aborted at any time.  ScrapeJob starts and aborts it. *)
(***************************************************************************)
EXTENDS Naturals, Sequences, FiniteSets

CONSTANTS
  MaxTargets,    \* detail pages of one listing, the bound of this model
  Concurrency,   \* detailConcurrency
  MaxFallbacks,  \* browserFallbackMaxCount
  MaxTimeouts,   \* MAX_DETAIL_BROWSER_TIMEOUTS
  MaxFailures    \* MAX_DETAIL_BROWSER_FAILURES

DetailCrawlAssumption ==
  /\ MaxTargets \in Nat
  /\ {Concurrency, MaxFallbacks, MaxTimeouts, MaxFailures} \subseteq Nat \ {0}

ASSUME DetailCrawlAssumption

VARIABLES
  crawl,       \* where the crawl is
  links,       \* how many detail pages it is to fetch
  empty,       \* the listing says it has no offers, or shows no link to one
  target,      \* the detail pages: where each is, why it needs a browser, what came of it
  queue,       \* browserFallbackQueue, the page in front has the browser
  session,     \* browserSession, "launching" while nothing is assigned to it yet
  fallbacks,   \* browserFallbackCount
  spent,       \* the time budget of the fallbacks is used up
  timeouts,    \* detailBrowserTimeouts
  failures,    \* detailBrowserFailures
  degraded,    \* detailSourceDegraded
  stopReason,  \* detailStopReason
  aborted,     \* the abort signal, raised by a timer of ScrapeJob
  stray        \* a browser was started that no crawl will close (history)

crawlVars == <<crawl, links, empty, target, queue, session, fallbacks, spent,
               timeouts, failures, degraded, stopReason, aborted, stray>>

-----------------------------------------------------------------------------

Targets == 1..MaxTargets

Over == {"off", "returned", "thrown"}

Browsing == {"launch", "relaunch", "page", "cool"}

Target ==
  [pc : {"idle", "http", "queued", "pause", "done"} \cup Browsing,
   reason : {"none", "status", "error"},
   result : {"none", "page", "blocked", "failed", "denied", "thrown"}]

CrawlTypeOK ==
  /\ crawl \in Over \cup {"http", "retry", "launch", "relaunch", "page", "details",
                          "returning", "throwing"}
  /\ links \in 0..MaxTargets
  /\ empty \in BOOLEAN
  /\ target \in [Targets -> Target]
  /\ queue \in Seq(Targets)
  /\ session \in {"none", "launching", "open", "closed"}
  /\ fallbacks \in Nat
  /\ spent \in BOOLEAN
  /\ timeouts \in Nat
  /\ failures \in Nat
  /\ degraded \in BOOLEAN
  /\ stopReason \in {"completed", "budget_reached", "source_degraded"}
  /\ aborted \in BOOLEAN
  /\ stray \in BOOLEAN

Untouched == [pc |-> "idle", reason |-> "none", result |-> "none"]

CrawlInit ==
  /\ crawl = "off"
  /\ links = 0
  /\ empty = FALSE
  /\ target = [t \in Targets |-> Untouched]
  /\ queue = <<>>
  /\ session = "none"
  /\ fallbacks = 0
  /\ spent = FALSE
  /\ timeouts = 0
  /\ failures = 0
  /\ degraded = FALSE
  /\ stopReason = "completed"
  /\ aborted = FALSE
  /\ stray = FALSE

\* A crawl begins; the abort signal is that of the job.
BeginCrawl ==
  /\ crawl' = "http"
  /\ links' = 0
  /\ empty' = FALSE
  /\ target' = [t \in Targets |-> Untouched]
  /\ queue' = <<>>
  /\ session' = "none"
  /\ fallbacks' = 0
  /\ spent' = FALSE
  /\ timeouts' = 0
  /\ failures' = 0
  /\ degraded' = FALSE
  /\ stopReason' = "completed"
  /\ UNCHANGED <<aborted, stray>>

-----------------------------------------------------------------------------
(* The browser                                                             *)

\* createBrowserSession assigns the session when the browser runs, even after the crawl
\* has closed what it had.
Opened ==
  /\ session' = "open"
  /\ stray' = (stray \/ crawl \in Over)

\* An attempt fails; a browser whose context could not be made is not closed.
NotOpened == stray' \in {stray, TRUE}

-----------------------------------------------------------------------------
(* The listing                                                             *)

unchangedDetails == UNCHANGED <<target, queue, spent, timeouts, failures, degraded, aborted>>

\* Variant: the cut to the limit is off by one.
ListedOneMore ==
  /\ crawl \in {"http", "retry", "page"}
  /\ crawl' = "details"
  /\ links' \in 0..MaxTargets + 1
  /\ empty' \in BOOLEAN
  /\ stopReason' = "completed"
  /\ fallbacks' = IF crawl = "page" THEN 1 ELSE 0
  /\ UNCHANGED <<session, stray>>
  /\ unchangedDetails

\* The listing answers, with links to offers, skipped ones left out and cut to the
\* detail budget, or with none.
Listed ==
  /\ crawl \in {"http", "retry", "page"}
  /\ crawl' = "details"
  /\ links' \in 0..MaxTargets
  /\ empty' \in BOOLEAN
  /\ stopReason' \in {"completed"} \cup {r \in {"budget_reached"} : links' > 0}
  /\ fallbacks' = IF crawl = "page" THEN 1 ELSE 0
  /\ UNCHANGED <<session, stray>>
  /\ unchangedDetails

\* Without any sign of an answer it is fetched again, after a pause.
RetryListing ==
  /\ crawl = "http"
  /\ crawl' = "retry"
  /\ UNCHANGED <<links, empty, session, fallbacks, stopReason, stray>>
  /\ unchangedDetails

\* Blocked, refused, or without a sign for the second time: the browser is tried.
ListingNeedsBrowser ==
  /\ crawl \in {"http", "retry"}
  /\ ~aborted
  /\ crawl' = "launch"
  /\ session' = "launching"
  /\ UNCHANGED <<links, empty, fallbacks, stopReason, stray>>
  /\ unchangedDetails

ListingBrowserOpens ==
  /\ crawl \in {"launch", "relaunch"}
  /\ crawl' = "page"
  /\ Opened
  /\ UNCHANGED <<links, empty, fallbacks, stopReason>>
  /\ unchangedDetails

ListingBrowserFails ==
  /\ crawl \in {"launch", "relaunch"}
  /\ \/ crawl = "launch" /\ ~aborted /\ crawl' = "relaunch" /\ UNCHANGED session
     \/ (crawl = "relaunch" \/ aborted) /\ crawl' = "throwing" /\ session' = "none"
  /\ NotOpened
  /\ UNCHANGED <<links, empty, fallbacks, stopReason>>
  /\ unchangedDetails

\* An error or the abort signal, also of the lookup of offers that are still fresh.
ListingFails ==
  /\ crawl \in {"http", "retry", "page"}
  /\ crawl' = "throwing"
  /\ UNCHANGED <<links, empty, session, fallbacks, stopReason, stray>>
  /\ unchangedDetails

-----------------------------------------------------------------------------
(* The batches of detail pages                                             *)

unchangedListing == UNCHANGED <<links, empty, aborted>>

unchangedHealth == UNCHANGED <<timeouts, failures, degraded, stopReason>>

\* Promise.all has an answer for the batch.
BatchSettled == \A t \in Targets : target[t].pc \in {"idle", "done"}

NextBatch ==
  LET next == Cardinality({t \in Targets : target[t].pc # "idle"}) IN
  {t \in 1..links : next < t /\ t <= next + Concurrency}

\* No fetch of a batch starts after the signal; then every page of it throws.
StartBatch ==
  /\ crawl = "details"
  /\ BatchSettled
  /\ NextBatch # {}
  /\ ~degraded
  /\ LET begun == [Untouched EXCEPT !.pc = IF aborted THEN "done" ELSE "http",
                                    !.result = IF aborted THEN "thrown" ELSE "none"]
     IN target' = [t \in Targets |-> IF t \in NextBatch THEN begun ELSE target[t]]
  /\ crawl' = IF aborted THEN "throwing" ELSE "details"
  /\ UNCHANGED <<queue, session, fallbacks, spent, stray>>
  /\ unchangedListing
  /\ unchangedHealth

EndDetails ==
  /\ crawl = "details"
  /\ BatchSettled
  /\ NextBatch = {} \/ degraded
  /\ crawl' = "returning"
  /\ stopReason' = IF links > 0 /\ \A t \in 1..links : target[t].result = "blocked"
                   THEN "source_degraded" ELSE stopReason
  /\ UNCHANGED <<target, queue, session, fallbacks, spent, timeouts, failures, degraded, stray>>
  /\ unchangedListing

\* Variant: an aborted crawl leaves its browser alone.
CloseOnReturn ==
  /\ crawl \in {"returning", "throwing"}
  /\ crawl' = IF crawl = "returning" THEN "returned" ELSE "thrown"
  /\ session' = IF session = "open" /\ crawl = "returning" THEN "closed" ELSE session
  /\ UNCHANGED <<target, queue, fallbacks, spent, stray>>
  /\ unchangedListing
  /\ unchangedHealth

\* The finally block: whatever session there is gets closed, one that is still being
\* launched is not there yet.
Close ==
  /\ crawl \in {"returning", "throwing"}
  /\ crawl' = IF crawl = "returning" THEN "returned" ELSE "thrown"
  /\ session' = IF session = "open" THEN "closed" ELSE session
  /\ UNCHANGED <<target, queue, fallbacks, spent, stray>>
  /\ unchangedListing
  /\ unchangedHealth

-----------------------------------------------------------------------------
(* One detail page                                                         *)

Moves(t, pc) == target' = [target EXCEPT ![t].pc = pc]

Settles(t, pc, result) ==
  target' = [target EXCEPT ![t] = [pc |-> pc, reason |-> "none", result |-> result]]

\* An abort rejects the batch at once; its other pages go on behind the crawl's back.
Throws(t) ==
  /\ Settles(t, "done", "thrown")
  /\ crawl' = IF crawl = "details" THEN "throwing" ELSE crawl

\* The page is fetched and not blocked.
HttpLoads(t) ==
  /\ target[t].pc = "http"
  /\ Settles(t, "pause", "page")
  /\ UNCHANGED <<crawl, queue, session, fallbacks, spent, stray>>
  /\ unchangedListing
  /\ unchangedHealth

\* Variant: a page without a fallback leaves the reason of the crawl alone.
HttpNeedsBrowserSilently(t) ==
  /\ target[t].pc = "http"
  /\ \E why \in {"status", "error"} :
       IF fallbacks < MaxFallbacks /\ ~spent
       THEN /\ target' = [target EXCEPT ![t].pc = "queued", ![t].reason = why]
            /\ queue' = Append(queue, t)
            /\ fallbacks' = fallbacks + 1
            /\ UNCHANGED degraded
       ELSE /\ Settles(t, "done", "denied")
            /\ degraded' = TRUE
            /\ UNCHANGED <<queue, fallbacks>>
  /\ UNCHANGED <<crawl, session, spent, timeouts, failures, stopReason, stray>>
  /\ unchangedListing

\* It is blocked or refused, or the fetch fails, as it does when the scrape timed out:
\* a fallback is counted and queued, or ends the crawl when there is none left.
HttpNeedsBrowser(t) ==
  /\ target[t].pc = "http"
  /\ \E why \in {"status", "error"} :
       IF fallbacks < MaxFallbacks /\ ~spent
       THEN /\ target' = [target EXCEPT ![t].pc = "queued", ![t].reason = why]
            /\ queue' = Append(queue, t)
            /\ fallbacks' = fallbacks + 1
            /\ UNCHANGED <<degraded, stopReason>>
       ELSE /\ Settles(t, "done", "denied")
            /\ stopReason' = "budget_reached"
            /\ degraded' = TRUE
            /\ UNCHANGED <<queue, fallbacks>>
  /\ UNCHANGED <<crawl, session, spent, timeouts, failures, stray>>
  /\ unchangedListing

\* The fetch, or a pause, ends with the AbortError of the signal.
StopsWaiting(t) ==
  /\ target[t].pc \in {"http", "pause"}
  /\ aborted
  /\ Throws(t)
  /\ UNCHANGED <<queue, session, fallbacks, spent, stray>>
  /\ unchangedListing
  /\ unchangedHealth

PauseEnds(t) ==
  /\ target[t].pc = "pause"
  /\ ~aborted
  /\ Moves(t, "done")
  /\ UNCHANGED <<crawl, queue, session, fallbacks, spent, stray>>
  /\ unchangedListing
  /\ unchangedHealth

-----------------------------------------------------------------------------
(* Its fallback, one at a time                                             *)

\* The page in front is done with the browser, and the time it took is charged.
Releases ==
  /\ queue' = Tail(queue)
  /\ spent' \in {spent, TRUE}

\* Variant: nothing waits for its turn once the browser is there.
FallbackStartsAtOnce(t) ==
  /\ target[t].pc = "queued"
  /\ ~aborted
  /\ \/ /\ Head(queue) = t
        /\ session = "none"
        /\ session' = "launching"
        /\ Moves(t, "launch")
     \/ /\ session = "open"
        /\ Moves(t, "page")
        /\ UNCHANGED session
  /\ UNCHANGED <<crawl, queue, spent, fallbacks, stray>>
  /\ unchangedListing
  /\ unchangedHealth

\* It is the turn of the page in front: it throws after the signal, else it uses the
\* browser or launches it.
FallbackStarts(t) ==
  /\ target[t].pc = "queued"
  /\ Head(queue) = t
  /\ \/ aborted /\ Throws(t) /\ Releases /\ UNCHANGED session
     \/ /\ ~aborted
        /\ session = "none"
        /\ session' = "launching"
        /\ Moves(t, "launch")
        /\ UNCHANGED <<crawl, queue, spent>>
     \/ /\ ~aborted
        /\ session = "open"
        /\ Moves(t, "page")
        /\ UNCHANGED <<crawl, queue, spent, session>>
  /\ UNCHANGED <<fallbacks, stray>>
  /\ unchangedListing
  /\ unchangedHealth

BrowserOpens(t) ==
  /\ target[t].pc \in {"launch", "relaunch"}
  /\ Moves(t, "page")
  /\ Opened
  /\ UNCHANGED <<crawl, queue, fallbacks, spent>>
  /\ unchangedListing
  /\ unchangedHealth

\* A failed fallback counts after a failed fetch; after a refused one only when the
\* navigation timed out.  Too many of them end the crawl.
Counts(t, timedOut) ==
  LET counted == timedOut \/ target[t].reason = "error" IN
  /\ timeouts' = timeouts + (IF timedOut THEN 1 ELSE 0)
  /\ failures' = failures + (IF counted THEN 1 ELSE 0)
  /\ IF counted /\ (timeouts' >= MaxTimeouts \/ failures' >= MaxFailures)
     THEN degraded' = TRUE /\ stopReason' = "source_degraded"
     ELSE UNCHANGED <<degraded, stopReason>>

FallbackFails(t, timedOut) ==
  /\ Settles(t, "pause", "failed")
  /\ Counts(t, timedOut)
  /\ Releases
  /\ UNCHANGED crawl

\* A launch is tried twice, unless the crawl was aborted.
BrowserFails(t) ==
  /\ target[t].pc \in {"launch", "relaunch"}
  /\ NotOpened
  /\ \/ /\ target[t].pc = "launch"
        /\ ~aborted
        /\ Moves(t, "relaunch")
        /\ UNCHANGED <<crawl, queue, session, spent>>
        /\ unchangedHealth
     \/ /\ target[t].pc = "relaunch"
        /\ session' = "none"
        /\ FallbackFails(t, FALSE)
     \/ /\ target[t].pc = "launch"
        /\ aborted
        /\ session' = "none"
        /\ Throws(t)
        /\ Releases
        /\ unchangedHealth
  /\ UNCHANGED fallbacks
  /\ unchangedListing

PageLoads(t) ==
  /\ target[t].pc = "page"
  /\ ~aborted
  /\ Moves(t, "cool")
  /\ UNCHANGED <<crawl, queue, session, fallbacks, spent, stray>>
  /\ unchangedListing
  /\ unchangedHealth

PageFails(t) ==
  /\ target[t].pc = "page"
  /\ \E timedOut \in BOOLEAN : FallbackFails(t, timedOut)
  /\ UNCHANGED <<session, fallbacks, stray>>
  /\ unchangedListing

\* After the cooldown the browser is given on, and the page has its result.
CooldownEnds(t) ==
  /\ target[t].pc = "cool"
  /\ ~aborted
  /\ \E result \in {"page", "blocked"} :
       Settles(t, IF target[t].reason = "status" THEN "pause" ELSE "done", result)
  /\ Releases
  /\ timeouts' = 0
  /\ UNCHANGED <<crawl, session, fallbacks, failures, degraded, stopReason, stray>>
  /\ unchangedListing

\* Variant: the turn ends only with a page or an error of the browser.
FallbackAbortedInTurn(t) ==
  /\ target[t].pc \in {"page", "cool"}
  /\ aborted
  /\ Throws(t)
  /\ UNCHANGED <<queue, spent, session, fallbacks, stray>>
  /\ unchangedListing
  /\ unchangedHealth

\* Navigation and cooldown end with an AbortError, which gives the browser on.
FallbackAborted(t) ==
  /\ target[t].pc \in {"page", "cool"}
  /\ aborted
  /\ Throws(t)
  /\ Releases
  /\ UNCHANGED <<session, fallbacks, stray>>
  /\ unchangedListing
  /\ unchangedHealth

-----------------------------------------------------------------------------

ListingStep ==
  \/ Listed \/ RetryListing \/ ListingNeedsBrowser
  \/ ListingBrowserOpens \/ ListingBrowserFails \/ ListingFails

BatchStep == StartBatch \/ EndDetails \/ Close

TargetStep(t) ==
  \/ HttpLoads(t) \/ HttpNeedsBrowser(t) \/ StopsWaiting(t) \/ PauseEnds(t)
  \/ FallbackStarts(t) \/ BrowserOpens(t) \/ BrowserFails(t)
  \/ PageLoads(t) \/ PageFails(t) \/ CooldownEnds(t) \/ FallbackAborted(t)

CrawlStep == ListingStep \/ BatchStep \/ \E t \in Targets : TargetStep(t)

=============================================================================
