--------------------------- MODULE ScrapeJobProofs ----------------------------
(***************************************************************************)
(* Theorems about ScrapeJob for any number of detail pages, offers,        *)
(* attempts and fallbacks.                                                 *)
(***************************************************************************)
EXTENDS ScrapeJob, FiniteSetTheorems, TLAPS

-----------------------------------------------------------------------------
(* The inductive invariant                                                 *)

\* As long as the listing is not there no page is touched and nothing went wrong.
Listing == {"off", "http", "retry", "launch", "relaunch", "page"}

NothingBegun ==
  crawl \in Listing =>
    /\ \A t \in Targets : target[t] = Untouched
    /\ queue = <<>>
    /\ ~degraded

\* The pages are begun in the order of the listing.
BegunInOrder ==
  \E k \in 0..links : \A t \in Targets : target[t].pc # "idle" <=> t <= k

\* A page that is through has a result; one that threw, or was denied its fallback, is
\* known to the crawl.
ResultsAreKnown ==
  /\ \A t \in Targets :
       /\ target[t].pc \in {"pause", "done"} => target[t].result # "none"
       /\ target[t].result = "thrown" => crawl \in {"throwing", "thrown"}
       /\ target[t].result = "denied" => degraded
  /\ degraded => stopReason # "completed"

\* A crawl that returns waited for its pages, and CompletedMeansAll holds before it has
\* closed the browser.
ReturnsSettled ==
  crawl \in {"returning", "returned"} =>
    /\ BatchSettled
    /\ stopReason = "completed" =>
         \A t \in 1..links : target[t].result \in {"page", "blocked", "failed"}

Waits(page) == page.pc \in {"queued"} \cup Browsing

IsIn(t, q) == \E i \in 1..Len(q) : q[i] = t

Distinct(q) == \A i, j \in 1..Len(q) : q[i] = q[j] => i = j

\* The queue holds the pages that wait for the browser or use it, once each.
QueueHoldsWaiting ==
  /\ Distinct(queue)
  /\ \A t \in Targets : Waits(target[t]) <=> IsIn(t, queue)

\* An offer that was sent has been collected.
SentIsCollected == \A o \in Offers : sent[o] <= 1 /\ (sent[o] = 1 => o \in collected)

CrawlIInv ==
  /\ CrawlTypeOK
  /\ NothingBegun
  /\ BegunInOrder
  /\ ResultsAreKnown
  /\ ReturnsSettled
  /\ QueueHoldsWaiting
  /\ FallbacksAreSerial
  /\ BrowserIsClosed

IInv == TypeOK /\ CrawlIInv /\ SentIsCollected

-----------------------------------------------------------------------------
(* The queue                                                               *)

LEMMA AppendQueue ==
  ASSUME NEW q \in Seq(Targets), Distinct(q), NEW t \in Targets, ~IsIn(t, q)
  PROVE  /\ Append(q, t) \in Seq(Targets)
         /\ Distinct(Append(q, t))
         /\ \A u \in Targets : IsIn(u, Append(q, t)) <=> IsIn(u, q) \/ u = t
         /\ Append(q, t) # <<>>
         /\ q # <<>> => Head(Append(q, t)) = Head(q)
  <1>1. /\ Append(q, t) \in Seq(Targets)
        /\ Len(Append(q, t)) = Len(q) + 1
        /\ \A i \in 1..Len(q) : Append(q, t)[i] = q[i]
        /\ Append(q, t)[Len(q) + 1] = t
        /\ Len(q) \in Nat
        OBVIOUS
  <1>2. Distinct(Append(q, t))
        BY <1>1 DEF Distinct, IsIn
  <1>3. ASSUME NEW u \in Targets
        PROVE  IsIn(u, Append(q, t)) <=> IsIn(u, q) \/ u = t
        BY <1>1 DEF IsIn
  <1>4. q # <<>> => Head(Append(q, t)) = Head(q)
        BY <1>1
  <1>5. Append(q, t) # <<>>
        BY <1>1
  <1> QED
      BY <1>1, <1>2, <1>3, <1>4, <1>5

LEMMA TailQueue ==
  ASSUME NEW q \in Seq(Targets), Distinct(q), q # <<>>
  PROVE  /\ Tail(q) \in Seq(Targets)
         /\ Distinct(Tail(q))
         /\ \A u \in Targets : IsIn(u, Tail(q)) <=> IsIn(u, q) /\ u # Head(q)
  <1>1. /\ Tail(q) \in Seq(Targets)
        /\ Len(q) \in Nat /\ Len(q) > 0
        /\ Len(Tail(q)) = Len(q) - 1
        /\ \A i \in 1..Len(q) - 1 : Tail(q)[i] = q[i + 1]
        /\ Head(q) = q[1]
        OBVIOUS
  <1>2. Distinct(Tail(q))
        BY <1>1 DEF Distinct
  <1>3. ASSUME NEW u \in Targets, IsIn(u, Tail(q))
        PROVE  IsIn(u, q) /\ u # Head(q)
        BY <1>1, <1>3 DEF IsIn, Distinct
  <1>4. ASSUME NEW u \in Targets, IsIn(u, q), u # Head(q)
        PROVE  IsIn(u, Tail(q))
    <2>1. PICK i \in 1..Len(q) : q[i] = u
          BY <1>4 DEF IsIn
    <2>2. i - 1 \in 1..Len(q) - 1 /\ Tail(q)[i - 1] = u
          BY <1>1, <1>4, <2>1
    <2> QED
        BY <1>1, <2>2 DEF IsIn
  <1> QED
      BY <1>1, <1>2, <1>3, <1>4

-----------------------------------------------------------------------------
(* What a step of a page does                                              *)

\* The page keeps its place in the queue, joins it, or leaves it from the front.
Keeps(t) ==
  /\ queue' = queue
  /\ Waits(target'[t]) <=> Waits(target[t])
  /\ target'[t].pc \in Browsing => queue # <<>> /\ Head(queue) = t

Joins(t) ==
  /\ queue' = Append(queue, t)
  /\ ~Waits(target[t])
  /\ target'[t].pc = "queued"

Leaves(t) ==
  /\ queue # <<>> /\ Head(queue) = t
  /\ queue' = Tail(queue)
  /\ ~Waits(target'[t])

Launching(page) == page.pc \in {"launch", "relaunch"}

SessionMoves(t) ==
  \/ session' = session /\ (Launching(target[t]) <=> Launching(target'[t]))
  \/ session' = "launching" /\ Launching(target'[t])
  \/ session' = "none"
  \/ session' = "open" /\ (crawl \in Over => stray')

PageMoves(t) ==
  /\ target' \in [Targets -> Target]
  /\ \A u \in Targets \ {t} : target'[u] = target[u]
  /\ target[t].pc \notin {"idle", "done"}
  /\ target'[t].pc # "idle"
  /\ target'[t].pc \in {"pause", "done"} => target'[t].result # "none"

CrawlHears(t) ==
  /\ crawl' # crawl => crawl = "details" /\ crawl' = "throwing"
  /\ target'[t].result = "thrown" => crawl' # "details"
  /\ target'[t].result = "denied" => degraded'
  /\ degraded => degraded'
  /\ degraded' => stopReason' # "completed"

CountersMove ==
  /\ fallbacks' \in Nat /\ fallbacks' <= MaxFallbacks
  /\ spent' \in BOOLEAN /\ timeouts' \in Nat /\ failures' \in Nat
  /\ degraded' \in BOOLEAN
  /\ stopReason' \in {"completed", "budget_reached", "source_degraded"}
  /\ stray' \in BOOLEAN /\ (stray => stray')
  /\ UNCHANGED <<links, empty, aborted>>

PageEffect(t) ==
  /\ PageMoves(t)
  /\ Keeps(t) \/ Joins(t) \/ Leaves(t)
  /\ SessionMoves(t)
  /\ CrawlHears(t)
  /\ CountersMove

LEMMA MovesPage ==
  ASSUME target \in [Targets -> Target], NEW t \in Targets,
         NEW pc \in {"idle", "http", "queued", "pause", "done"} \cup Browsing, Moves(t, pc)
  PROVE  /\ target' \in [Targets -> Target]
         /\ \A u \in Targets \ {t} : target'[u] = target[u]
         /\ target'[t].pc = pc
         /\ target'[t].reason = target[t].reason
         /\ target'[t].result = target[t].result
  <1> DEFINE new == [pc |-> pc, reason |-> target[t].reason, result |-> target[t].result]
  <1>1. target[t] \in Target
        OBVIOUS
  <1>2. new \in Target
        BY <1>1 DEF Target
  <1>3. new = [target[t] EXCEPT !.pc = pc]
        BY <1>1 DEF Target
  <1>4. target' = [target EXCEPT ![t] = [target[t] EXCEPT !.pc = pc]]
        BY DEF Moves
  <1> QED
      BY <1>2, <1>3, <1>4

LEMMA SettlesPage ==
  ASSUME target \in [Targets -> Target], NEW t \in Targets,
         NEW pc \in {"pause", "done"},
         NEW result \in {"page", "blocked", "failed", "denied", "thrown"},
         Settles(t, pc, result)
  PROVE  /\ target' \in [Targets -> Target]
         /\ \A u \in Targets \ {t} : target'[u] = target[u]
         /\ target'[t].pc = pc
         /\ target'[t].result = result
  <1> DEFINE new == [pc |-> pc, reason |-> "none", result |-> result]
  <1>1. new \in Target
        BY DEF Target
  <1>2. target' = [target EXCEPT ![t] = new]
        BY DEF Settles
  <1> QED
      BY <1>1, <1>2

LEMMA QueuesPage ==
  ASSUME target \in [Targets -> Target], NEW t \in Targets, NEW why \in {"status", "error"},
         target' = [target EXCEPT ![t].pc = "queued", ![t].reason = why]
  PROVE  /\ target' \in [Targets -> Target]
         /\ \A u \in Targets \ {t} : target'[u] = target[u]
         /\ target'[t].pc = "queued"
         /\ target'[t].result = target[t].result
  <1> DEFINE new == [pc |-> "queued", reason |-> why, result |-> target[t].result]
             moved == [target EXCEPT ![t].pc = "queued"]
  <1>1. target[t] \in Target
        OBVIOUS
  <1>2. new \in Target
        BY <1>1 DEF Target
  <1>3. /\ moved \in [Targets -> Target]
        /\ \A u \in Targets \ {t} : moved[u] = target[u]
        /\ moved[t] = [pc |-> "queued", reason |-> target[t].reason, result |-> target[t].result]
    <2>1. [pc |-> "queued", reason |-> target[t].reason, result |-> target[t].result]
             = [target[t] EXCEPT !.pc = "queued"]
          BY <1>1 DEF Target
    <2>2. moved = [target EXCEPT ![t] = [target[t] EXCEPT !.pc = "queued"]]
          OBVIOUS
    <2>3. [pc |-> "queued", reason |-> target[t].reason, result |-> target[t].result] \in Target
          BY <1>1 DEF Target
    <2> QED
        BY <2>1, <2>2, <2>3
  <1>4. target' = [moved EXCEPT ![t].reason = why]
        OBVIOUS
  <1> HIDE DEF moved
  <1>5. new = [moved[t] EXCEPT !.reason = why]
        BY <1>3
  <1>6. target' = [moved EXCEPT ![t] = [moved[t] EXCEPT !.reason = why]]
        BY <1>4
  <1>7. target' = [moved EXCEPT ![t] = new]
        BY <1>5, <1>6
  <1>8. new.pc = "queued" /\ new.result = target[t].result
        OBVIOUS
  <1> HIDE DEF new
  <1>9. target' \in [Targets -> Target]
        BY <1>2, <1>3, <1>7
  <1> QED
      BY <1>3, <1>7, <1>8, <1>9

LEMMA ReleasesSpent ==
  ASSUME spent \in BOOLEAN, Releases
  PROVE  spent' \in BOOLEAN
  BY DEF Releases

LEMMA NotOpenedStray ==
  ASSUME stray \in BOOLEAN, NotOpened
  PROVE  stray' \in BOOLEAN /\ (stray => stray')
  BY DEF NotOpened

LEMMA CountsHealth ==
  ASSUME timeouts \in Nat, failures \in Nat, degraded \in BOOLEAN,
         stopReason \in {"completed", "budget_reached", "source_degraded"},
         NEW t, NEW timedOut \in BOOLEAN, Counts(t, timedOut)
  PROVE  /\ timeouts' \in Nat /\ failures' \in Nat /\ degraded' \in BOOLEAN
         /\ stopReason' \in {"completed", "budget_reached", "source_degraded"}
  <1>1. timeouts' \in Nat
        BY DEF Counts
  <1>2. failures' \in Nat
        BY DEF Counts
  <1>3. degraded' \in BOOLEAN
        BY Zenon DEF Counts
  <1>4. stopReason' \in {"completed", "budget_reached", "source_degraded"}
        BY DEF Counts
  <1> QED
      BY <1>1, <1>2, <1>3, <1>4

LEMMA PageStep ==
  ASSUME CrawlIInv, NEW t \in Targets, TargetStep(t)
  PROVE  PageEffect(t)
  <1>1. /\ target \in [Targets -> Target]
        /\ target[t] \in Target
        /\ target[t].pc \in {"idle", "http", "queued", "pause", "done"} \cup Browsing
        /\ fallbacks \in Nat /\ spent \in BOOLEAN /\ timeouts \in Nat /\ failures \in Nat
        /\ degraded \in BOOLEAN /\ stray \in BOOLEAN
        /\ stopReason \in {"completed", "budget_reached", "source_degraded"}
        /\ MaxFallbacks \in Nat /\ fallbacks <= MaxFallbacks
        BY DetailCrawlAssumption
        DEF CrawlIInv, CrawlTypeOK, FallbacksAreSerial, DetailCrawlAssumption, Target
  <1>2. Waits(target[t]) => queue # <<>>
        BY DEF CrawlIInv, CrawlTypeOK, QueueHoldsWaiting, IsIn
  <1>3. target[t].pc \in Browsing => queue # <<>> /\ Head(queue) = t
        BY DEF CrawlIInv, FallbacksAreSerial
  <1>4. /\ target[t].pc = "pause" => target[t].result # "none"
        /\ target[t].result = "thrown" => crawl # "details"
        /\ target[t].result = "denied" => degraded
        /\ degraded => stopReason # "completed"
        BY DEF CrawlIInv, ResultsAreKnown
  <1>5. CASE HttpLoads(t)
    <2>1. /\ PageMoves(t)
          /\ target'[t].pc = "pause" /\ target'[t].result = "page"
          BY <1>1, <1>5, SettlesPage DEF HttpLoads, PageMoves
    <2>2. Keeps(t)
          BY <1>5, <2>1 DEF HttpLoads, Keeps, Waits, Browsing
    <2>3. SessionMoves(t)
          BY <1>5, <2>1 DEF HttpLoads, SessionMoves, Launching
    <2>4. CrawlHears(t)
          BY <1>1, <1>4, <1>5, <2>1 DEF HttpLoads, CrawlHears, unchangedHealth
    <2>5. CountersMove
          BY <1>1, <1>5 DEF HttpLoads, CountersMove, unchangedListing, unchangedHealth
    <2> QED
        BY <2>1, <2>2, <2>3, <2>4, <2>5 DEF PageEffect
  <1>6. CASE HttpNeedsBrowser(t)
    <2>1. PICK why \in {"status", "error"} :
             IF fallbacks < MaxFallbacks /\ ~spent
             THEN /\ target' = [target EXCEPT ![t].pc = "queued", ![t].reason = why]
                  /\ queue' = Append(queue, t)
                  /\ fallbacks' = fallbacks + 1
                  /\ UNCHANGED <<degraded, stopReason>>
             ELSE /\ Settles(t, "done", "denied")
                  /\ stopReason' = "budget_reached"
                  /\ degraded' = TRUE
                  /\ UNCHANGED <<queue, fallbacks>>
          BY <1>6 DEF HttpNeedsBrowser
    <2>2. CASE fallbacks < MaxFallbacks /\ ~spent
      <3>1. /\ PageMoves(t)
            /\ target[t].pc = "http" /\ target'[t].pc = "queued"
            /\ target'[t].result = target[t].result
            BY <1>1, <1>4, <1>6, <2>1, <2>2, QueuesPage DEF HttpNeedsBrowser, PageMoves, Browsing
      <3>2. Joins(t)
            BY <1>1, <1>2, <1>3, <1>6, <2>1, <2>2, <3>1
            DEF HttpNeedsBrowser, Joins, Waits, Browsing
      <3>3. SessionMoves(t)
            BY <1>1, <1>6, <2>1, <2>2, <3>1 DEF HttpNeedsBrowser, SessionMoves, Launching
      <3>4. CrawlHears(t)
            BY <1>1, <1>4, <1>6, <2>1, <2>2, <3>1
            DEF HttpNeedsBrowser, CrawlHears, Throws, FallbackFails, Counts, unchangedHealth
      <3>5. CountersMove
            BY <1>1, <1>6, <2>1, <2>2
           
            DEF HttpNeedsBrowser, CountersMove, Releases, FallbackFails, Counts, NotOpened,
                Opened,
                unchangedListing, unchangedHealth
      <3> QED
          BY <3>1, <3>2, <3>3, <3>4, <3>5 DEF PageEffect
    <2>3. CASE ~(fallbacks < MaxFallbacks /\ ~spent)
      <3>1. /\ PageMoves(t)
            /\ target[t].pc = "http" /\ target'[t].pc = "done" /\ target'[t].result = "denied"
            BY <1>1, <1>4, <1>6, <2>1, <2>3, SettlesPage DEF HttpNeedsBrowser, PageMoves, Browsing
      <3>2. Keeps(t)
            BY <1>1, <1>2, <1>3, <1>6, <2>1, <2>3, <3>1
            DEF HttpNeedsBrowser, Keeps, Waits, Browsing
      <3>3. SessionMoves(t)
            BY <1>1, <1>6, <2>1, <2>3, <3>1 DEF HttpNeedsBrowser, SessionMoves, Launching
      <3>4. CrawlHears(t)
            BY <1>1, <1>4, <1>6, <2>1, <2>3, <3>1
            DEF HttpNeedsBrowser, CrawlHears, Throws, FallbackFails, Counts, unchangedHealth
      <3>5. CountersMove
            BY <1>1, <1>6, <2>1, <2>3
           
            DEF HttpNeedsBrowser, CountersMove, Releases, FallbackFails, Counts, NotOpened,
                Opened,
                unchangedListing, unchangedHealth
      <3> QED
          BY <3>1, <3>2, <3>3, <3>4, <3>5 DEF PageEffect
    <2> QED
        BY <2>2, <2>3
  <1>7. CASE StopsWaiting(t)
    <2>1. /\ PageMoves(t)
          /\ target[t].pc \in {"http", "pause"} /\ target'[t].pc = "done"
          /\ target'[t].result = "thrown"
          BY <1>1, <1>4, <1>7, SettlesPage DEF StopsWaiting, Throws, PageMoves, Browsing
    <2>2. Keeps(t)
          BY <1>1, <1>2, <1>3, <1>7, <2>1 DEF StopsWaiting, Throws, Keeps, Waits, Browsing
    <2>3. SessionMoves(t)
          BY <1>1, <1>7, <2>1 DEF StopsWaiting, Throws, SessionMoves, Launching
    <2>4. CrawlHears(t)
          BY <1>1, <1>4, <1>7, <2>1
          DEF StopsWaiting, Throws, CrawlHears, FallbackFails, Counts, unchangedHealth
    <2>5. CountersMove
          BY <1>1, <1>7
         
          DEF StopsWaiting, Throws, CountersMove, Releases, FallbackFails, Counts,
              NotOpened, Opened,
              unchangedListing, unchangedHealth
    <2> QED
        BY <2>1, <2>2, <2>3, <2>4, <2>5 DEF PageEffect
  <1>8. CASE PauseEnds(t)
    <2>1. /\ PageMoves(t)
          /\ target[t].pc = "pause" /\ target'[t].pc = "done"
          /\ target'[t].result = target[t].result
          BY <1>1, <1>4, <1>8, MovesPage DEF PauseEnds, PageMoves, Browsing
    <2>2. Keeps(t)
          BY <1>1, <1>2, <1>3, <1>8, <2>1 DEF PauseEnds, Keeps, Waits, Browsing
    <2>3. SessionMoves(t)
          BY <1>1, <1>8, <2>1 DEF PauseEnds, SessionMoves, Launching
    <2>4. CrawlHears(t)
          BY <1>1, <1>4, <1>8, <2>1
          DEF PauseEnds, CrawlHears, Throws, FallbackFails, Counts, unchangedHealth
    <2>5. CountersMove
          BY <1>1, <1>8
          DEF PauseEnds, CountersMove, Releases, FallbackFails, Counts, NotOpened, Opened,
              unchangedListing, unchangedHealth
    <2> QED
        BY <2>1, <2>2, <2>3, <2>4, <2>5 DEF PageEffect
  <1>9. CASE FallbackStarts(t)
    <2>1. CASE aborted /\ Throws(t) /\ Releases /\ UNCHANGED session
      <3>1. /\ PageMoves(t)
            /\ target[t].pc = "queued" /\ target'[t].pc = "done" /\ target'[t].result = "thrown"
            BY <1>1, <1>4, <1>9, <2>1, SettlesPage DEF FallbackStarts, Throws, PageMoves, Browsing
      <3>2. Leaves(t)
            BY <1>1, <1>2, <1>3, <1>9, <2>1, <3>1
            DEF FallbackStarts, Throws, Leaves, Waits, Browsing, Releases
      <3>3. SessionMoves(t)
            BY <1>1, <1>9, <2>1, <3>1 DEF FallbackStarts, Throws, SessionMoves, Launching
      <3>4. CrawlHears(t)
            BY <1>1, <1>4, <1>9, <2>1, <3>1
            DEF FallbackStarts, Throws, CrawlHears, FallbackFails, Counts, unchangedHealth
      <3>5. CountersMove
            BY <1>1, <1>9, <2>1
           
            DEF FallbackStarts, Throws, CountersMove, Releases, FallbackFails, Counts,
                NotOpened, Opened,
                unchangedListing, unchangedHealth
      <3> QED
          BY <3>1, <3>2, <3>3, <3>4, <3>5 DEF PageEffect
    <2>2. CASE /\ session = "none" /\ session' = "launching"
               /\ Moves(t, "launch")
               /\ UNCHANGED <<crawl, queue, spent>>
      <3>1. /\ PageMoves(t)
            /\ target[t].pc = "queued" /\ target'[t].pc = "launch"
            /\ target'[t].result = target[t].result
            BY <1>1, <1>4, <1>9, <2>2, MovesPage DEF FallbackStarts, PageMoves, Browsing
      <3>2. Keeps(t)
            BY <1>1, <1>2, <1>3, <1>9, <2>2, <3>1 DEF FallbackStarts, Keeps, Waits, Browsing
      <3>3. SessionMoves(t)
            BY <1>1, <1>9, <2>2, <3>1 DEF FallbackStarts, SessionMoves, Launching
      <3>4. CrawlHears(t)
            BY <1>1, <1>4, <1>9, <2>2, <3>1
            DEF FallbackStarts, CrawlHears, Throws, FallbackFails, Counts, unchangedHealth
      <3>5. CountersMove
            BY <1>1, <1>9, <2>2
            DEF FallbackStarts, CountersMove, Releases, FallbackFails, Counts, NotOpened, Opened,
                unchangedListing, unchangedHealth
      <3> QED
          BY <3>1, <3>2, <3>3, <3>4, <3>5 DEF PageEffect
    <2>3. CASE /\ session = "open"
               /\ Moves(t, "page")
               /\ UNCHANGED <<crawl, queue, spent, session>>
      <3>1. /\ PageMoves(t)
            /\ target[t].pc = "queued" /\ target'[t].pc = "page"
            /\ target'[t].result = target[t].result
            BY <1>1, <1>4, <1>9, <2>3, MovesPage DEF FallbackStarts, PageMoves, Browsing
      <3>2. Keeps(t)
            BY <1>1, <1>2, <1>3, <1>9, <2>3, <3>1 DEF FallbackStarts, Keeps, Waits, Browsing
      <3>3. SessionMoves(t)
            BY <1>1, <1>9, <2>3, <3>1 DEF FallbackStarts, SessionMoves, Launching
      <3>4. CrawlHears(t)
            BY <1>1, <1>4, <1>9, <2>3, <3>1
            DEF FallbackStarts, CrawlHears, Throws, FallbackFails, Counts, unchangedHealth
      <3>5. CountersMove
            BY <1>1, <1>9, <2>3
            DEF FallbackStarts, CountersMove, Releases, FallbackFails, Counts, NotOpened, Opened,
                unchangedListing, unchangedHealth
      <3> QED
          BY <3>1, <3>2, <3>3, <3>4, <3>5 DEF PageEffect
    <2> QED
        BY <1>9, <2>1, <2>2, <2>3 DEF FallbackStarts
  <1>10. CASE BrowserOpens(t)
    <2>1. /\ PageMoves(t)
          /\ target[t].pc \in {"launch", "relaunch"} /\ target'[t].pc = "page"
          /\ target'[t].result = target[t].result
          BY <1>1, <1>4, <1>10, MovesPage DEF BrowserOpens, PageMoves, Browsing
    <2>2. Keeps(t)
          BY <1>1, <1>2, <1>3, <1>10, <2>1 DEF BrowserOpens, Keeps, Waits, Browsing
    <2>3. SessionMoves(t)
          BY <1>1, <1>10, <2>1 DEF BrowserOpens, SessionMoves, Launching, Opened
    <2>4. CrawlHears(t)
          BY <1>1, <1>4, <1>10, <2>1
          DEF BrowserOpens, CrawlHears, Throws, FallbackFails, Counts, unchangedHealth
    <2>5. CountersMove
          BY <1>1, <1>10
          DEF BrowserOpens, CountersMove, Releases, FallbackFails, Counts, NotOpened, Opened,
              unchangedListing, unchangedHealth
    <2> QED
        BY <2>1, <2>2, <2>3, <2>4, <2>5 DEF PageEffect
  <1>11. CASE BrowserFails(t)
    <2>1. CASE /\ target[t].pc = "launch"
               /\ Moves(t, "relaunch")
               /\ UNCHANGED <<crawl, queue, session, spent>>
               /\ unchangedHealth
      <3>1. /\ PageMoves(t)
            /\ target'[t].pc = "relaunch" /\ target'[t].result = target[t].result
            BY <1>1, <1>4, <1>11, <2>1, MovesPage DEF BrowserFails, PageMoves, Browsing
      <3>2. Keeps(t)
            BY <1>1, <1>2, <1>3, <1>11, <2>1, <3>1 DEF BrowserFails, Keeps, Waits, Browsing
      <3>3. SessionMoves(t)
            BY <1>1, <1>11, <2>1, <3>1 DEF BrowserFails, SessionMoves, Launching
      <3>4. CrawlHears(t)
            BY <1>1, <1>4, <1>11, <2>1, <3>1
            DEF BrowserFails, CrawlHears, Throws, FallbackFails, Counts, unchangedHealth
      <3>5. CountersMove
            BY <1>1, <1>11, <2>1, NotOpenedStray
            DEF BrowserFails, CountersMove, unchangedListing, unchangedHealth
      <3> QED
          BY <3>1, <3>2, <3>3, <3>4, <3>5 DEF PageEffect
    <2>2. CASE /\ target[t].pc = "relaunch"
               /\ session' = "none"
               /\ FallbackFails(t, FALSE)
      <3>1. /\ PageMoves(t)
            /\ target'[t].pc = "pause" /\ target'[t].result = "failed"
            BY <1>1, <1>4, <1>11, <2>2, SettlesPage
            DEF BrowserFails, FallbackFails, PageMoves, Browsing
      <3>2. Leaves(t)
            BY <1>1, <1>2, <1>3, <1>11, <2>2, <3>1
            DEF BrowserFails, FallbackFails, Leaves, Waits, Browsing, Releases
      <3>3. SessionMoves(t)
            BY <1>1, <1>11, <2>2, <3>1 DEF BrowserFails, FallbackFails, SessionMoves, Launching
      <3>4. CrawlHears(t)
            BY <1>1, <1>4, <1>11, <2>2, <3>1
            DEF BrowserFails, FallbackFails, CrawlHears, Throws, Counts, unchangedHealth
      <3>5. CountersMove
            BY <1>1, <1>11, <2>2, NotOpenedStray, ReleasesSpent, CountsHealth
            DEF BrowserFails, FallbackFails, CountersMove, unchangedListing
      <3> QED
          BY <3>1, <3>2, <3>3, <3>4, <3>5 DEF PageEffect
    <2>3. CASE /\ target[t].pc = "launch"
               /\ session' = "none"
               /\ Throws(t)
               /\ Releases
               /\ unchangedHealth
      <3>1. /\ PageMoves(t)
            /\ target'[t].pc = "done" /\ target'[t].result = "thrown"
            BY <1>1, <1>4, <1>11, <2>3, SettlesPage DEF BrowserFails, Throws, PageMoves, Browsing
      <3>2. Leaves(t)
            BY <1>1, <1>2, <1>3, <1>11, <2>3, <3>1
            DEF BrowserFails, Throws, Leaves, Waits, Browsing, Releases
      <3>3. SessionMoves(t)
            BY <1>1, <1>11, <2>3, <3>1 DEF BrowserFails, Throws, SessionMoves, Launching
      <3>4. CrawlHears(t)
            BY <1>1, <1>4, <1>11, <2>3, <3>1
            DEF BrowserFails, Throws, CrawlHears, FallbackFails, Counts, unchangedHealth
      <3>5. CountersMove
            BY <1>1, <1>11, <2>3, NotOpenedStray, ReleasesSpent
            DEF BrowserFails, CountersMove, unchangedListing, unchangedHealth
      <3> QED
          BY <3>1, <3>2, <3>3, <3>4, <3>5 DEF PageEffect
    <2> QED
        BY <1>11, <2>1, <2>2, <2>3 DEF BrowserFails
  <1>12. CASE PageLoads(t)
    <2>1. /\ PageMoves(t)
          /\ target[t].pc = "page" /\ target'[t].pc = "cool"
          /\ target'[t].result = target[t].result
          BY <1>1, <1>4, <1>12, MovesPage DEF PageLoads, PageMoves, Browsing
    <2>2. Keeps(t)
          BY <1>1, <1>2, <1>3, <1>12, <2>1 DEF PageLoads, Keeps, Waits, Browsing
    <2>3. SessionMoves(t)
          BY <1>1, <1>12, <2>1 DEF PageLoads, SessionMoves, Launching
    <2>4. CrawlHears(t)
          BY <1>1, <1>4, <1>12, <2>1
          DEF PageLoads, CrawlHears, Throws, FallbackFails, Counts, unchangedHealth
    <2>5. CountersMove
          BY <1>1, <1>12
          DEF PageLoads, CountersMove, Releases, FallbackFails, Counts, NotOpened, Opened,
              unchangedListing, unchangedHealth
    <2> QED
        BY <2>1, <2>2, <2>3, <2>4, <2>5 DEF PageEffect
  <1>13. CASE PageFails(t)
    <2> PICK timedOut \in BOOLEAN : FallbackFails(t, timedOut)
        BY <1>13 DEF PageFails
    <2>1. /\ PageMoves(t)
          /\ target[t].pc = "page" /\ target'[t].pc = "pause" /\ target'[t].result = "failed"
          BY <1>1, <1>4, <1>13, SettlesPage DEF PageFails, FallbackFails, PageMoves, Browsing
    <2>2. Leaves(t)
          BY <1>1, <1>2, <1>3, <1>13, <2>1
          DEF PageFails, FallbackFails, Leaves, Waits, Browsing, Releases
    <2>3. SessionMoves(t)
          BY <1>1, <1>13, <2>1 DEF PageFails, FallbackFails, SessionMoves, Launching
    <2>4. CrawlHears(t)
          BY <1>1, <1>4, <1>13, <2>1
          DEF PageFails, FallbackFails, CrawlHears, Throws, Counts, unchangedHealth
    <2>5. CountersMove
          BY <1>1, <1>13, ReleasesSpent, CountsHealth
          DEF PageFails, FallbackFails, CountersMove, unchangedListing
    <2> QED
        BY <2>1, <2>2, <2>3, <2>4, <2>5 DEF PageEffect
  <1>14. CASE CooldownEnds(t)
    <2> PICK result \in {"page", "blocked"} :
               Settles(t, IF target[t].reason = "status" THEN "pause" ELSE "done", result)
        BY <1>14 DEF CooldownEnds
    <2>1. /\ PageMoves(t)
          /\ target[t].pc = "cool" /\ target'[t].pc \in {"pause", "done"}
          /\ target'[t].result = result
          BY <1>1, <1>4, <1>14, SettlesPage DEF CooldownEnds, PageMoves, Browsing
    <2>2. Leaves(t)
          BY <1>1, <1>2, <1>3, <1>14, <2>1 DEF CooldownEnds, Leaves, Waits, Browsing, Releases
    <2>3. SessionMoves(t)
          BY <1>1, <1>14, <2>1 DEF CooldownEnds, SessionMoves, Launching
    <2>4. CrawlHears(t)
          BY <1>1, <1>4, <1>14, <2>1
          DEF CooldownEnds, CrawlHears, Throws, FallbackFails, Counts, unchangedHealth
    <2>5. CountersMove
          BY <1>1, <1>14
          DEF CooldownEnds, CountersMove, Releases, FallbackFails, Counts, NotOpened, Opened,
              unchangedListing, unchangedHealth
    <2> QED
        BY <2>1, <2>2, <2>3, <2>4, <2>5 DEF PageEffect
  <1>15. CASE FallbackAborted(t)
    <2>1. /\ PageMoves(t)
          /\ target[t].pc \in {"page", "cool"} /\ target'[t].pc = "done"
          /\ target'[t].result = "thrown"
          BY <1>1, <1>4, <1>15, SettlesPage DEF FallbackAborted, Throws, PageMoves, Browsing
    <2>2. Leaves(t)
          BY <1>1, <1>2, <1>3, <1>15, <2>1
          DEF FallbackAborted, Throws, Leaves, Waits, Browsing, Releases
    <2>3. SessionMoves(t)
          BY <1>1, <1>15, <2>1 DEF FallbackAborted, Throws, SessionMoves, Launching
    <2>4. CrawlHears(t)
          BY <1>1, <1>4, <1>15, <2>1
          DEF FallbackAborted, Throws, CrawlHears, FallbackFails, Counts, unchangedHealth
    <2>5. CountersMove
          BY <1>1, <1>15
         
          DEF FallbackAborted, Throws, CountersMove, Releases, FallbackFails, Counts,
              NotOpened, Opened,
              unchangedListing, unchangedHealth
    <2> QED
        BY <2>1, <2>2, <2>3, <2>4, <2>5 DEF PageEffect
  <1> QED
      BY <1>5, <1>6, <1>7, <1>8, <1>9, <1>10, <1>11, <1>12, <1>13, <1>14, <1>15
      DEF TargetStep

-----------------------------------------------------------------------------
(* A step of a page preserves the invariant of the crawl                   *)

LEMMA PageStepPreserves ==
  ASSUME CrawlIInv, NEW t \in Targets, TargetStep(t)
  PROVE  CrawlIInv'
  <1>1. /\ PageMoves(t)
        /\ Keeps(t) \/ Joins(t) \/ Leaves(t)
        /\ SessionMoves(t)
        /\ CrawlHears(t)
        /\ CountersMove
        BY PageStep DEF PageEffect
  <1>2. /\ target \in [Targets -> Target]
        /\ queue \in Seq(Targets)
        /\ Distinct(queue)
        /\ \A u \in Targets : Waits(target[u]) <=> IsIn(u, queue)
        BY DEF CrawlIInv, CrawlTypeOK, QueueHoldsWaiting
  <1>3. /\ crawl \in {"details", "throwing", "thrown"}
        /\ crawl' \in {"details", "throwing", "thrown"}
        /\ crawl \in {"throwing", "thrown"} => crawl' = crawl
        BY <1>1 DEF CrawlIInv, CrawlTypeOK, NothingBegun, ReturnsSettled, BatchSettled, Listing,
                    Over, Untouched, PageMoves, CrawlHears
  <1>4. /\ queue' \in Seq(Targets)
        /\ Distinct(queue')
        /\ \A u \in Targets : Waits(target'[u]) <=> IsIn(u, queue')
    <2>1. CASE Keeps(t)
          BY <1>1, <1>2, <2>1 DEF Keeps, PageMoves
    <2>2. CASE Joins(t)
      <3>1. ~IsIn(t, queue)
            BY <1>2, <2>2 DEF Joins
      <3>2. Waits(target'[t])
            BY <2>2 DEF Joins, Waits
      <3> QED
          BY <1>1, <1>2, <2>2, <3>1, <3>2, AppendQueue DEF Joins, PageMoves
    <2>3. CASE Leaves(t)
          BY <1>1, <1>2, <2>3, TailQueue DEF Leaves, PageMoves
    <2> QED
        BY <1>1, <2>1, <2>2, <2>3
  <1>5. CrawlTypeOK'
    <2>1. session' \in {"none", "launching", "open", "closed"}
          BY <1>1 DEF SessionMoves, CrawlIInv, CrawlTypeOK
    <2> QED
        BY <1>1, <1>3, <1>4, <2>1 DEF CrawlTypeOK, CrawlIInv, PageMoves, CountersMove, Over
  <1>6. NothingBegun'
        BY <1>3 DEF NothingBegun, Listing
  <1>7. BegunInOrder'
        BY <1>1 DEF CrawlIInv, BegunInOrder, PageMoves, CountersMove
  <1>8. ResultsAreKnown'
    <2>1. ASSUME NEW u \in Targets
          PROVE  /\ target'[u].pc \in {"pause", "done"} => target'[u].result # "none"
                 /\ target'[u].result = "thrown" => crawl' \in {"throwing", "thrown"}
                 /\ target'[u].result = "denied" => degraded'
          BY <1>1, <1>3 DEF CrawlIInv, ResultsAreKnown, PageMoves, CrawlHears
    <2> QED
        BY <1>1, <2>1 DEF ResultsAreKnown, CrawlHears
  <1>9. ReturnsSettled'
        BY <1>3 DEF ReturnsSettled
  <1>10. FallbacksAreSerial'
    <2>1. ASSUME NEW u \in Targets, target'[u].pc \in Browsing
          PROVE  queue' # <<>> /\ Head(queue') = u
      <3>1. CASE u = t
            BY <1>1, <2>1, <3>1 DEF Keeps, Joins, Leaves, Waits, Browsing
      <3>2. CASE u # t
        <4>1. queue # <<>> /\ Head(queue) = u
              BY <1>1, <2>1, <3>2 DEF CrawlIInv, FallbacksAreSerial, PageMoves
        <4>2. CASE Keeps(t)
              BY <4>1, <4>2 DEF Keeps
        <4>3. CASE Joins(t)
              BY <1>2, <4>1, <4>3, AppendQueue DEF Joins
        <4>4. CASE Leaves(t)
              BY <3>2, <4>1, <4>4 DEF Leaves
        <4> QED
            BY <1>1, <4>2, <4>3, <4>4
      <3> QED
          BY <3>1, <3>2
    <2>2. ASSUME session' = "launching"
          PROVE  \E u \in Targets : Launching(target'[u])
      <3>1. CASE session' = session /\ (Launching(target[t]) <=> Launching(target'[t]))
        <4>1. PICK u \in Targets : Launching(target[u])
              BY <1>3, <2>2, <3>1 DEF CrawlIInv, FallbacksAreSerial, Launching
        <4>2. Launching(target'[u])
              BY <1>1, <3>1, <4>1 DEF PageMoves
        <4> QED
            BY <4>2
      <3>2. CASE Launching(target'[t])
            BY <3>2
      <3> QED
          BY <1>1, <2>2, <3>1, <3>2 DEF SessionMoves
    <2> QED
        BY <1>1, <2>1, <2>2 DEF FallbacksAreSerial, CountersMove, Launching
  <1>11. BrowserIsClosed'
    <2> SUFFICES ASSUME crawl' \in Over, session' = "open"
                 PROVE  stray'
        BY DEF BrowserIsClosed
    <2>1. crawl \in Over
          BY <1>1, <1>3 DEF CrawlHears, Over
    <2>2. session = "open" => stray
          BY <2>1 DEF CrawlIInv, BrowserIsClosed
    <2>3. session' = session \/ stray'
          BY <1>1, <2>1 DEF SessionMoves
    <2> QED
        BY <1>1, <2>2, <2>3 DEF CountersMove
  <1> QED
      BY <1>4, <1>5, <1>6, <1>7, <1>8, <1>9, <1>10, <1>11 DEF CrawlIInv, QueueHoldsWaiting

-----------------------------------------------------------------------------
(* The steps of the listing and of the batches preserve it                 *)

LEMMA ListingStepPreserves ==
  ASSUME CrawlIInv, ListingStep
  PROVE  CrawlIInv'
  <1>1. /\ crawl \in {"http", "retry", "launch", "relaunch", "page"}
        /\ crawl' \in {"retry", "launch", "relaunch", "page", "details", "throwing"}
        /\ UNCHANGED <<target, queue, spent, timeouts, failures, degraded, aborted>>
        BY DEF ListingStep, Listed, RetryListing, ListingNeedsBrowser, ListingBrowserOpens,
               ListingBrowserFails, ListingFails, unchangedDetails
  <1>2. /\ \A t \in Targets : target[t] = Untouched
        /\ queue = <<>>
        /\ ~degraded
        BY <1>1 DEF CrawlIInv, NothingBegun, Listing
  <1>3. \A t \in Targets : target[t].pc = "idle" /\ target[t].result = "none"
        BY <1>2 DEF Untouched
  <1>4. session = "launching" => crawl \in {"launch", "relaunch"}
        BY <1>3 DEF CrawlIInv, FallbacksAreSerial
  <1>5. links' \in 0..MaxTargets
        BY DEF CrawlIInv, CrawlTypeOK, ListingStep, Listed, RetryListing, ListingNeedsBrowser,
               ListingBrowserOpens, ListingBrowserFails, ListingFails
  <1>6. fallbacks' \in Nat /\ fallbacks' <= MaxFallbacks
        BY DetailCrawlAssumption
       
        DEF DetailCrawlAssumption, CrawlIInv, CrawlTypeOK, FallbacksAreSerial, ListingStep,
            Listed,
            RetryListing, ListingNeedsBrowser, ListingBrowserOpens, ListingBrowserFails, ListingFails
  <1>7. session' \in {"none", "launching", "open", "closed"}
        BY DEF CrawlIInv, CrawlTypeOK, ListingStep, Listed, RetryListing, ListingNeedsBrowser,
               ListingBrowserOpens, ListingBrowserFails, ListingFails, Opened
  <1>8. session' = "launching" => crawl' \in {"launch", "relaunch"}
        BY <1>4 DEF ListingStep, Listed, RetryListing, ListingNeedsBrowser,
               ListingBrowserOpens, ListingBrowserFails, ListingFails, Opened
  <1>9. stray' \in BOOLEAN
        BY DEF CrawlIInv, CrawlTypeOK, ListingStep, Listed, RetryListing, ListingNeedsBrowser,
               ListingBrowserOpens, ListingBrowserFails, ListingFails, Opened, NotOpened
  <1>10. empty' \in BOOLEAN
        BY DEF CrawlIInv, CrawlTypeOK, ListingStep, Listed, RetryListing, ListingNeedsBrowser,
               ListingBrowserOpens, ListingBrowserFails, ListingFails
  <1>11. stopReason' \in {"completed", "budget_reached", "source_degraded"}
        BY DEF CrawlIInv, CrawlTypeOK, ListingStep, Listed, RetryListing, ListingNeedsBrowser,
               ListingBrowserOpens, ListingBrowserFails, ListingFails
  <1>12. CrawlTypeOK'
        BY <1>1, <1>5, <1>6, <1>7, <1>9, <1>10, <1>11 DEF CrawlIInv, CrawlTypeOK, Over
  <1>13. NothingBegun'
        BY <1>1, <1>2 DEF NothingBegun
  <1>14. BegunInOrder'
        BY <1>1, <1>3, <1>5 DEF BegunInOrder, Targets
  <1>15. ResultsAreKnown'
        BY <1>1, <1>2, <1>3 DEF ResultsAreKnown
  <1>16. ReturnsSettled'
        BY <1>1 DEF ReturnsSettled
  <1>17. QueueHoldsWaiting'
        BY <1>1 DEF CrawlIInv, QueueHoldsWaiting
  <1>18. FallbacksAreSerial'
        BY <1>1, <1>3, <1>6, <1>8 DEF FallbacksAreSerial, Browsing
  <1>19. BrowserIsClosed'
        BY <1>1 DEF BrowserIsClosed, Over
  <1> QED
      BY <1>12, <1>13, <1>14, <1>15, <1>16, <1>17, <1>18, <1>19 DEF CrawlIInv

\* The pages of the next batch are those behind the ones that are begun.
LEMMA NextBatchIs ==
  ASSUME CrawlTypeOK, NEW k \in 0..links, \A t \in Targets : target[t].pc # "idle" <=> t <= k
  PROVE  NextBatch = {t \in 1..links : k < t /\ t <= k + Concurrency}
  <1>1. {t \in Targets : target[t].pc # "idle"} = 1..k
        BY DetailCrawlAssumption DEF CrawlTypeOK, Targets, DetailCrawlAssumption
  <1>2. Cardinality(1..k) = k
        BY FS_Interval DEF CrawlTypeOK
  <1> QED
      BY <1>1, <1>2 DEF NextBatch

LEMMA BegunIs ==
  ASSUME NEW pc, NEW result
  PROVE  [Untouched EXCEPT !.pc = pc, !.result = result]
           = [pc |-> pc, reason |-> "none", result |-> result]
  <1> DEFINE moved == [Untouched EXCEPT !.pc = pc]
  <1>1. moved = [pc |-> pc, reason |-> "none", result |-> "none"]
        BY DEF Untouched
  <1>2. [Untouched EXCEPT !.pc = pc, !.result = result] = [moved EXCEPT !.result = result]
        OBVIOUS
  <1> HIDE DEF moved
  <1>3. [moved EXCEPT !.result = result] = [pc |-> pc, reason |-> "none", result |-> result]
        BY <1>1
  <1> QED
      BY <1>2, <1>3

LEMMA StartBatchPreserves ==
  ASSUME CrawlIInv, StartBatch
  PROVE  CrawlIInv'
  <1> DEFINE begun == [pc |-> IF aborted THEN "done" ELSE "http", reason |-> "none",
                       result |-> IF aborted THEN "thrown" ELSE "none"]
  <1>1. /\ crawl = "details"
        /\ crawl' = IF aborted THEN "throwing" ELSE "details"
        /\ target' = [t \in Targets |-> IF t \in NextBatch THEN begun ELSE target[t]]
        /\ UNCHANGED <<queue, session, fallbacks, spent, stray>>
        /\ UNCHANGED <<links, empty, aborted, timeouts, failures, degraded, stopReason>>
    <2> DEFINE pc == IF aborted THEN "done" ELSE "http"
               result == IF aborted THEN "thrown" ELSE "none"
    <2>1. [Untouched EXCEPT !.pc = pc, !.result = result] = begun
      <3> HIDE DEF pc, result
      <3>1. [Untouched EXCEPT !.pc = pc, !.result = result]
              = [pc |-> pc, reason |-> "none", result |-> result]
            BY BegunIs
      <3> QED
          BY <3>1 DEF pc, result
    <2> QED
        BY <2>1 DEF StartBatch, unchangedListing, unchangedHealth
  <1>2. \A t \in Targets : target[t].pc \in {"idle", "done"}
        BY DEF StartBatch, BatchSettled
  <1>3. begun \in Target
        BY DEF Target
  <1>4. CrawlTypeOK'
        BY <1>1, <1>3 DEF CrawlIInv, CrawlTypeOK
  <1>5. NothingBegun'
        BY <1>1 DEF NothingBegun, Listing
  <1>6. BegunInOrder'
    <2>1. PICK k \in 0..links : \A t \in Targets : target[t].pc # "idle" <=> t <= k
          BY DEF CrawlIInv, BegunInOrder
    <2>2. NextBatch = {t \in 1..links : k < t /\ t <= k + Concurrency}
          BY <2>1, NextBatchIs DEF CrawlIInv
    <2>3. /\ links \in Nat /\ k \in Nat /\ k <= links /\ links <= MaxTargets /\ MaxTargets \in Nat
          /\ Concurrency \in Nat
          BY DetailCrawlAssumption DEF DetailCrawlAssumption, CrawlIInv, CrawlTypeOK
    <2>4. begun.pc # "idle"
          OBVIOUS
    <2> DEFINE last == IF k + Concurrency <= links THEN k + Concurrency ELSE links
    <2>5. last \in 0..links
          BY <2>3
    <2>6. ASSUME NEW t \in Targets
          PROVE  target'[t].pc # "idle" <=> t <= last
      <3>1. CASE t \in NextBatch
            BY <1>1, <2>2, <2>3, <2>4, <3>1 DEF Targets
      <3>2. CASE t \notin NextBatch
        <4>1. target'[t] = target[t]
              BY <1>1, <3>2
        <4>2. t <= last <=> t <= k
              BY <2>2, <2>3, <3>2 DEF Targets
        <4> QED
            BY <2>1, <4>1, <4>2
      <3> QED
          BY <3>1, <3>2
    <2> QED
        BY <1>1, <2>5, <2>6 DEF BegunInOrder
  <1>7. ResultsAreKnown'
    <2>1. ASSUME NEW t \in Targets
          PROVE  /\ target'[t].pc \in {"pause", "done"} => target'[t].result # "none"
                 /\ target'[t].result = "thrown" => crawl' \in {"throwing", "thrown"}
                 /\ target'[t].result = "denied" => degraded'
      <3>1. CASE t \in NextBatch
            BY <1>1, <3>1
      <3>2. CASE t \notin NextBatch
            BY <1>1, <3>2 DEF CrawlIInv, ResultsAreKnown
      <3> QED
          BY <3>1, <3>2
    <2> QED
        BY <1>1, <2>1 DEF CrawlIInv, ResultsAreKnown
  <1>8. ReturnsSettled'
        BY <1>1 DEF ReturnsSettled
  <1>9. \A t \in Targets : ~Waits(target[t]) /\ ~Waits(target'[t])
        BY <1>1, <1>2 DEF Waits, Browsing
  <1>10. QueueHoldsWaiting'
        BY <1>1, <1>9 DEF CrawlIInv, QueueHoldsWaiting
  <1>11. FallbacksAreSerial'
    <2>1. session # "launching"
          BY <1>1, <1>2 DEF CrawlIInv, FallbacksAreSerial
    <2>2. \A t \in Targets : target'[t].pc \notin Browsing
          BY <1>9 DEF Waits
    <2> QED
        BY <1>1, <2>1, <2>2 DEF CrawlIInv, FallbacksAreSerial
  <1>12. BrowserIsClosed'
        BY <1>1 DEF BrowserIsClosed, Over
  <1> QED
      BY <1>4, <1>5, <1>6, <1>7, <1>8, <1>10, <1>11, <1>12 DEF CrawlIInv

LEMMA EndDetailsPreserves ==
  ASSUME CrawlIInv, EndDetails
  PROVE  CrawlIInv'
  <1>1. /\ crawl = "details"
        /\ crawl' = "returning"
        /\ stopReason' \in {stopReason, "source_degraded"}
       
        /\ UNCHANGED <<target, queue, session, fallbacks, spent, timeouts, failures, degraded, stray>>
        /\ UNCHANGED <<links, empty, aborted>>
        BY DEF EndDetails, unchangedListing
  <1>2. CrawlTypeOK'
        BY <1>1 DEF CrawlIInv, CrawlTypeOK
  <1>3. NothingBegun' /\ BrowserIsClosed'
        BY <1>1 DEF NothingBegun, Listing, BrowserIsClosed, Over
  <1>4. BegunInOrder' /\ QueueHoldsWaiting'
        BY <1>1 DEF CrawlIInv, BegunInOrder, QueueHoldsWaiting
  <1>5. ResultsAreKnown'
        BY <1>1 DEF CrawlIInv, ResultsAreKnown
  <1>6. ReturnsSettled'
    <2>1. BatchSettled'
          BY <1>1 DEF EndDetails, BatchSettled
    <2>2. ASSUME stopReason' = "completed", NEW t \in 1..links
          PROVE  target[t].result \in {"page", "blocked", "failed"}
      <3>1. ~degraded /\ NextBatch = {}
            BY <1>1, <2>2 DEF EndDetails, CrawlIInv, ResultsAreKnown
      <3>2. PICK k \in 0..links : \A u \in Targets : target[u].pc # "idle" <=> u <= k
            BY DEF CrawlIInv, BegunInOrder
      <3>3. {u \in 1..links : k < u /\ u <= k + Concurrency} = {}
            BY <3>1, <3>2, NextBatchIs DEF CrawlIInv
      <3>4. /\ links \in Nat /\ k \in Nat /\ k <= links /\ links <= MaxTargets /\ MaxTargets \in Nat
            /\ Concurrency \in Nat \ {0}
            BY DetailCrawlAssumption DEF DetailCrawlAssumption, CrawlIInv, CrawlTypeOK
      <3>5. k = links
        <4>1. k + 1 \notin 1..links
              BY <3>3, <3>4
        <4> QED
            BY <3>4, <4>1
      <3>6. t \in Targets /\ target[t].pc = "done"
            BY <3>2, <3>4, <3>5 DEF Targets, EndDetails, BatchSettled
      <3>7. target[t].result \notin {"none", "thrown", "denied"}
            BY <1>1, <3>1, <3>6 DEF CrawlIInv, ResultsAreKnown
      <3> QED
          BY <3>6, <3>7 DEF CrawlIInv, CrawlTypeOK, Target
    <2> QED
        BY <1>1, <2>1, <2>2 DEF ReturnsSettled
  <1>7. FallbacksAreSerial'
        BY <1>1 DEF CrawlIInv, FallbacksAreSerial
  <1> QED
      BY <1>2, <1>3, <1>4, <1>5, <1>6, <1>7 DEF CrawlIInv

LEMMA ClosePreserves ==
  ASSUME CrawlIInv, Close
  PROVE  CrawlIInv'
  <1>1. /\ crawl \in {"returning", "throwing"}
        /\ crawl' = IF crawl = "returning" THEN "returned" ELSE "thrown"
        /\ session' = IF session = "open" THEN "closed" ELSE session
        /\ UNCHANGED <<target, queue, fallbacks, spent, stray>>
        /\ UNCHANGED <<links, empty, aborted, timeouts, failures, degraded, stopReason>>
        BY DEF Close, unchangedListing, unchangedHealth
  <1>2. CrawlTypeOK'
        BY <1>1 DEF CrawlIInv, CrawlTypeOK, Over
  <1>3. NothingBegun' /\ BrowserIsClosed'
        BY <1>1 DEF NothingBegun, Listing, BrowserIsClosed
  <1>4. BegunInOrder' /\ QueueHoldsWaiting'
        BY <1>1 DEF CrawlIInv, BegunInOrder, QueueHoldsWaiting
  <1>5. ResultsAreKnown'
        BY <1>1 DEF CrawlIInv, ResultsAreKnown
  <1>6. ReturnsSettled'
        BY <1>1 DEF CrawlIInv, ReturnsSettled, BatchSettled
  <1>7. FallbacksAreSerial'
        BY <1>1 DEF CrawlIInv, FallbacksAreSerial
  <1> QED
      BY <1>2, <1>3, <1>4, <1>5, <1>6, <1>7 DEF CrawlIInv

LEMMA CrawlStepPreserves ==
  ASSUME CrawlIInv, CrawlStep
  PROVE  CrawlIInv'
  BY ListingStepPreserves, StartBatchPreserves, EndDetailsPreserves, ClosePreserves,
     PageStepPreserves
  DEF CrawlStep, BatchStep

-----------------------------------------------------------------------------
(* The job                                                                 *)

LEMMA BeginCrawlEstablishes ==
  ASSUME CrawlIInv, BeginCrawl
  PROVE  CrawlIInv'
  <1>1. Untouched \in Target /\ Untouched.pc = "idle" /\ Untouched.result = "none"
        BY DEF Untouched, Target
  <1>2. /\ target' \in [Targets -> Target]
        /\ \A t \in Targets : target'[t] = Untouched
        BY <1>1 DEF BeginCrawl
  <1>3. MaxTargets \in Nat /\ MaxFallbacks \in Nat
        BY DetailCrawlAssumption DEF DetailCrawlAssumption
  <1>4. CrawlTypeOK'
    <2>1. queue' = <<>> /\ links' \in 0..MaxTargets
          BY <1>3 DEF BeginCrawl
    <2>2. queue' \in Seq(Targets)
          BY <2>1
    <2> QED
        BY <1>2, <2>1, <2>2 DEF BeginCrawl, CrawlIInv, CrawlTypeOK
  <1>5. NothingBegun'
        BY <1>2 DEF BeginCrawl, NothingBegun
  <1>6. BegunInOrder'
        BY <1>1, <1>2, <1>3 DEF BeginCrawl, BegunInOrder, Targets
  <1>7. ResultsAreKnown' /\ ReturnsSettled'
        BY <1>1, <1>2 DEF BeginCrawl, ResultsAreKnown, ReturnsSettled
  <1>8. QueueHoldsWaiting'
        BY <1>1, <1>2 DEF BeginCrawl, QueueHoldsWaiting, Distinct, IsIn, Waits, Browsing
  <1>9. FallbacksAreSerial' /\ BrowserIsClosed'
        BY <1>1, <1>2, <1>3
        DEF BeginCrawl, FallbacksAreSerial, BrowserIsClosed, Browsing, Over
  <1> QED
      BY <1>4, <1>5, <1>6, <1>7, <1>8, <1>9 DEF CrawlIInv

LEMMA CrawlStands ==
  ASSUME CrawlIInv, unchangedCrawl, aborted' \in BOOLEAN
  PROVE  CrawlIInv'
  BY DEF CrawlIInv, unchangedCrawl, CrawlTypeOK, NothingBegun, BegunInOrder, ResultsAreKnown,
         ReturnsSettled, BatchSettled, QueueHoldsWaiting, FallbacksAreSerial, BrowserIsClosed

LEMMA CrawlUntouched ==
  ASSUME CrawlIInv, UNCHANGED crawlVars
  PROVE  CrawlIInv'
  BY CrawlStands DEF crawlVars, unchangedCrawl, CrawlIInv, CrawlTypeOK

\* The part of TypeOK that is about the job alone.
JobVarsOK ==
  /\ job \in {"planning", "crawling", "sending", "saving", "failing"} \cup Ended
  /\ attempt \in Nat
  /\ timer \in {"on", "off", "fired"}
  /\ collected \subseteq Offers
  /\ batch \subseteq Offers
  /\ sent \in [Offers -> Nat]

LEMMA NextAttemptPreserves ==
  ASSUME IInv, NextAttempt
  PROVE  CrawlIInv' /\ job' \in {"crawling", "failing"} /\ attempt' \in Nat
  BY BeginCrawlEstablishes DEF NextAttempt, IInv, TypeOK

LEMMA JobStepPreserves ==
  ASSUME IInv, JobStep
  PROVE  IInv'
  <1>1. JobVarsOK /\ CrawlIInv /\ SentIsCollected
        BY DEF IInv, TypeOK, JobVarsOK
  <1>2. ASSUME CrawlIInv', JobVarsOK', UNCHANGED <<collected, sent>>
        PROVE  IInv'
        BY <1>1, <1>2 DEF IInv, TypeOK, JobVarsOK, SentIsCollected, CrawlIInv
  <1>3. CASE Plan
        BY <1>1, <1>2, <1>3, NextAttemptPreserves DEF Plan, JobVarsOK
  <1>4. CASE PlanFails
        BY <1>1, <1>2, <1>4, CrawlUntouched DEF PlanFails, JobVarsOK
  <1>5. CASE Collect
    <2>1. PICK found \in SUBSET Offers :
             /\ collected' = collected \cup found
             /\ batch' \in SUBSET (found \ collected)
             /\ sent' = [o \in Offers |-> sent[o] + (IF o \in batch' THEN 1 ELSE 0)]
          BY <1>5 DEF Collect
    <2>2. CrawlIInv'
          BY <1>1, <1>5, CrawlUntouched DEF Collect
    <2>3. sent' \in [Offers -> Nat]
          BY <1>1, <2>1 DEF JobVarsOK
    <2>4. JobVarsOK'
          BY <1>1, <1>5, <2>1, <2>3 DEF Collect, JobVarsOK
    <2>5. SentIsCollected'
      <3> SUFFICES ASSUME NEW o \in Offers
                   PROVE  sent'[o] <= 1 /\ (sent'[o] = 1 => o \in collected')
          BY DEF SentIsCollected
      <3>1. /\ sent[o] \in Nat /\ sent[o] <= 1 /\ (sent[o] = 1 => o \in collected)
            /\ sent'[o] = sent[o] + (IF o \in batch' THEN 1 ELSE 0)
            BY <1>1, <2>1 DEF JobVarsOK, SentIsCollected
      <3>2. CASE o \in batch'
        <4>1. o \notin collected /\ o \in collected'
              BY <2>1, <3>2
        <4> QED
            BY <3>1, <3>2, <4>1
      <3>3. CASE o \notin batch'
            BY <2>1, <3>1, <3>3
      <3> QED
          BY <3>2, <3>3
    <2> QED
        BY <2>2, <2>4, <2>5 DEF IInv, TypeOK, JobVarsOK, CrawlIInv
  <1>6. CASE CrawlThrows
        BY <1>1, <1>2, <1>6, CrawlUntouched DEF CrawlThrows, JobVarsOK
  <1>7. CASE Sent
    <2>1. CASE NextAttempt /\ UNCHANGED timer
          BY <1>1, <1>2, <1>7, <2>1, NextAttemptPreserves DEF Sent, JobVarsOK
    <2>2. CASE /\ job' = "saving"
               /\ timer' = IF timer = "on" THEN "off" ELSE timer
               /\ UNCHANGED attempt
               /\ UNCHANGED crawlVars
          BY <1>1, <1>2, <1>7, <2>2, CrawlUntouched DEF Sent, JobVarsOK
    <2> QED
        BY <1>7, <2>1, <2>2 DEF Sent
  <1>8. CASE SendFails
        BY <1>1, <1>2, <1>8, CrawlUntouched DEF SendFails, JobVarsOK
  <1>9. CASE Complete
        BY <1>1, <1>2, <1>9, CrawlUntouched DEF Complete, JobVarsOK, Ended
  <1>10. CASE CompleteFails
        BY <1>1, <1>2, <1>10, CrawlUntouched DEF CompleteFails, JobVarsOK
  <1>11. CASE Fail
        BY <1>1, <1>2, <1>11, CrawlUntouched DEF Fail, JobVarsOK, Ended
  <1> QED
      BY <1>3, <1>4, <1>5, <1>6, <1>7, <1>8, <1>9, <1>10, <1>11 DEF JobStep

LEMMA NextPreserves ==
  ASSUME IInv, [Next]_vars
  PROVE  IInv'
  <1>1. CASE JobStep
        BY <1>1, JobStepPreserves
  <1>2. CASE CrawlStep /\ UNCHANGED jobVars
        BY <1>2, CrawlStepPreserves
        DEF IInv, TypeOK, jobVars, SentIsCollected, CrawlIInv
  <1>3. CASE ScrapeTimesOut
        BY <1>3, CrawlStands DEF ScrapeTimesOut, IInv, TypeOK, SentIsCollected, CrawlIInv
  <1>4. CASE TaskTimesOut
        BY <1>4, CrawlStands
        DEF TaskTimesOut, jobVars, IInv, TypeOK, SentIsCollected, CrawlIInv
  <1>5. CASE UNCHANGED vars
        BY <1>5, CrawlUntouched DEF vars, jobVars, IInv, TypeOK, SentIsCollected, CrawlIInv
  <1> QED
      BY <1>1, <1>2, <1>3, <1>4, <1>5 DEF Next

LEMMA InitEstablishes ==
  ASSUME Init
  PROVE  IInv
  <1>1. Untouched \in Target /\ Untouched.pc = "idle" /\ Untouched.result = "none"
        BY DEF Untouched, Target
  <1>2. /\ target \in [Targets -> Target]
        /\ \A t \in Targets : target[t] = Untouched
        BY <1>1 DEF Init, CrawlInit
  <1>3. MaxTargets \in Nat /\ MaxFallbacks \in Nat
        BY DetailCrawlAssumption DEF DetailCrawlAssumption
  <1>4. TypeOK
    <2>1. queue = <<>> /\ links \in 0..MaxTargets
          BY <1>3 DEF Init, CrawlInit
    <2>2. queue \in Seq(Targets)
          BY <2>1
    <2>3. CrawlTypeOK
          BY <1>2, <2>1, <2>2 DEF Init, CrawlInit, CrawlTypeOK, Over
    <2> QED
        BY <2>3 DEF Init, TypeOK
  <1>5. NothingBegun
        BY <1>2 DEF Init, CrawlInit, NothingBegun
  <1>6. BegunInOrder
        BY <1>1, <1>2, <1>3 DEF Init, CrawlInit, BegunInOrder, Targets
  <1>7. ResultsAreKnown /\ ReturnsSettled
        BY <1>1, <1>2 DEF Init, CrawlInit, ResultsAreKnown, ReturnsSettled
  <1>8. QueueHoldsWaiting
        BY <1>1, <1>2 DEF Init, CrawlInit, QueueHoldsWaiting, Distinct, IsIn, Waits, Browsing
  <1>9. FallbacksAreSerial /\ BrowserIsClosed
        BY <1>1, <1>2, <1>3
        DEF Init, CrawlInit, FallbacksAreSerial, BrowserIsClosed, Browsing, Over
  <1>10. SentIsCollected
        BY DEF Init, SentIsCollected
  <1> QED
      BY <1>4, <1>5, <1>6, <1>7, <1>8, <1>9, <1>10 DEF IInv, CrawlIInv, TypeOK

LEMMA InductiveInvariant == Spec => []IInv
  <1>1. Init => IInv
        BY InitEstablishes
  <1>2. IInv /\ [Next]_vars => IInv'
        BY NextPreserves
  <1> QED
      BY <1>1, <1>2, PTL DEF Spec

-----------------------------------------------------------------------------
(* Theorems                                                                *)

\* Type correctness of the job and of its crawl.
THEOREM TypeCorrect == Spec => []TypeOK
  <1>1. IInv => TypeOK
        BY DEF IInv
  <1> QED
      BY <1>1, InductiveInvariant, PTL

\* However many pages need a fallback and whenever the crawl is aborted, one of them at a
\* time has the browser, the one in front of browserFallbackQueue, and no more fallbacks
\* are taken than browserFallbackMaxCount.
THEOREM FallbacksSerial == Spec => []FallbacksAreSerial
  <1>1. IInv => FallbacksAreSerial
        BY DEF IInv, CrawlIInv
  <1> QED
      BY <1>1, InductiveInvariant, PTL

\* crawlPracujPl returns "completed" only with a result for every detail page.
THEOREM CompletedHasAll == Spec => []CompletedMeansAll
  <1>1. IInv => CompletedMeansAll
        BY DEF IInv, CrawlIInv, ReturnsSettled, CompletedMeansAll
  <1> QED
      BY <1>1, InductiveInvariant, PTL

\* The finally block of crawlPracujPl leaves no browser behind, other than one that was
\* still being launched when the crawl ended or whose context could not be made.
THEOREM BrowserClosed == Spec => []BrowserIsClosed
  <1>1. IInv => BrowserIsClosed
        BY DEF IInv, CrawlIInv
  <1> QED
      BY <1>1, InductiveInvariant, PTL

\* However many attempts find an offer, emitAcceptedOffers sends it in one batch at most.
THEOREM SentOnce == Spec => []OffersSentOnce
  <1>1. IInv => OffersSentOnce
        BY DEF IInv, SentIsCollected, OffersSentOnce
  <1> QED
      BY <1>1, InductiveInvariant, PTL

=============================================================================
