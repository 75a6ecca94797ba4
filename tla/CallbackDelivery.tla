--------------------------- MODULE CallbackDelivery ---------------------------
(***************************************************************************)
(* How the outcome of a scrape travels from the worker to the API.  Every  *)
(* execution of a run has one event id and reports COMPLETED or FAILED     *)
(* with it (runScrapeJob): notifyCallback tries several times, an outcome  *)
(* nobody took becomes a dead letter on the disk of the worker, and an     *)
(* operator replays the dead letters.  A call that the worker gave up may  *)
(* still be handled; the API registers the event before it acts on it and  *)
(* answers 200 to whatever it ignores.                                     *)
(***************************************************************************)
EXTENDS Naturals

CONSTANTS
  Executions,      \* executions of the task of one run, each with its event id
  MaxAttempts,     \* WORKER_CALLBACK_RETRY_ATTEMPTS
  ScrapeAttempts,  \* crawl attempts of each execution, its payload's attemptNo
  Faults           \* which of the failures below occur, by execution

CallbackDeliveryAssumption ==
  /\ MaxAttempts \in Nat \ {0}
  /\ ScrapeAttempts \in [Executions -> Nat \ {0}]
  /\ Faults \in [Executions ->
                  SUBSET {"lost", "crash", "abort", "audit", "disk", "restart"}]

ASSUME CallbackDeliveryAssumption

VARIABLES
  run,         \* what the API holds the run for
  registered,  \* job_source_callback_events: the attempt of each event, 0 for none
  call,        \* how far each POST to the API is
  worker,      \* how far each execution is with its report
  letter,      \* the dead letter of each execution
  orphaned,    \* a handler failed between registering and deciding the run (history)
  faulty       \* executions whose worker, disk or audit insert failed (history)

vars == <<run, registered, call, worker, letter, orphaned, faulty>>

-----------------------------------------------------------------------------

Outcomes == {"COMPLETED", "FAILED"}

\* The POSTs of an execution: those of notifyCallback by attempt, and the replay of
\* its dead letter, of which there is one at a time, as number 0.
Calls == [of : Executions, status : Outcomes, no : 0..MaxAttempts]

Call(e, n) == [of |-> e, status |-> worker[e].status, no |-> n]

\* The attempt number the API reads: a dead letter is stored without the number of
\* the POST, and attemptNo stands in for it.
AttemptOf(c) == IF c.no > 0 THEN c.no
                ELSE IF c.status = "FAILED" THEN 1 ELSE ScrapeAttempts[c.of]

Reports == [pc : {"scraping", "sending", "waiting", "answered", "refused", "pausing",
                   "burying", "acked", "over"},
            status : Outcomes, attempt : 1..MaxAttempts]

TypeOK ==
  /\ run \in {"active"} \cup Outcomes
  /\ registered \in [Executions -> Nat]
  /\ call \in [Calls -> {"none", "sent", "insert", "decide"}]
  /\ worker \in [Executions -> Reports]
  /\ letter \in [Executions ->
                  {"none", "kept", "waiting", "answered", "refused", "replayed"}]
  /\ orphaned \in BOOLEAN
  /\ faulty \subseteq Executions

Init ==
  /\ run = "active"
  /\ registered = [e \in Executions |-> 0]
  /\ call = [c \in Calls |-> "none"]
  /\ worker = [e \in Executions |->
                 [pc |-> "scraping", status |-> "COMPLETED", attempt |-> 1]]
  /\ letter = [e \in Executions |-> "none"]
  /\ orphaned = FALSE
  /\ faulty = {}

-----------------------------------------------------------------------------
(* The API                                                                 *)

Step(c, pc) == call' = [call EXCEPT ![c] = pc]

Report(e, pc) == worker' = [worker EXCEPT ![e].pc = pc]

File(e, state) == letter' = [letter EXCEPT ![e] = state]

\* The handler is done: the answer reaches the poster if it still waits for this call.
Answer(c, answer) ==
  /\ Step(c, "none")
  /\ IF c.no = 0 /\ letter[c.of] = "waiting"
     THEN File(c.of, answer) ELSE UNCHANGED letter
  /\ IF worker[c.of].pc = "waiting" /\ c = Call(c.of, worker[c.of].attempt)
     THEN Report(c.of, answer) ELSE UNCHANGED worker

\* The request does not reach the handler, or is refused before it reads anything.
Lose(c) ==
  /\ "lost" \in Faults[c.of]
  /\ call[c] = "sent"
  /\ Answer(c, "refused")
  /\ UNCHANGED <<run, registered, orphaned, faulty>>

\* Variant: an attempt must follow one that was registered.
AttemptInOrderStrict(attempt) ==
  attempt > 1 => \E e \in Executions : registered[e] + 1 = attempt

\* A retry is neither older than the latest attempt registered for the run nor, when
\* there is one, skips an attempt.
AttemptInOrder(attempt) ==
  attempt > 1 =>
    /\ \A e \in Executions : attempt >= registered[e]
    /\ (\E e \in Executions : registered[e] > 0) =>
         \E e \in Executions : attempt <= registered[e] + 1

\* registerCallbackEvent looks the event and the latest attempt up.  What it rejects
\* is answered 200.
Check(c) ==
  /\ call[c] = "sent"
  /\ IF registered[c.of] > 0 \/ ~AttemptInOrder(AttemptOf(c))
     THEN Answer(c, "answered")
     ELSE Step(c, "insert") /\ UNCHANGED <<worker, letter>>
  /\ UNCHANGED <<run, registered, orphaned, faulty>>

\* The insert of the event; the unique key turns a second one into a duplicate.
Insert(c) ==
  /\ call[c] = "insert"
  /\ IF registered[c.of] > 0
     THEN Answer(c, "answered") /\ UNCHANGED registered
     ELSE /\ registered' = [registered EXCEPT ![c.of] = AttemptOf(c)]
          /\ Step(c, "decide")
          /\ UNCHANGED <<worker, letter>>
  /\ UNCHANGED <<run, orphaned, faulty>>

Decided(c) == IF run = "active" THEN c.status ELSE run

\* The rest of completeScrape; a run that is already final stays as it is.
Decide(c) ==
  /\ call[c] = "decide"
  /\ run' = Decided(c)
  /\ Answer(c, "answered")
  /\ UNCHANGED <<registered, orphaned, faulty>>

\* A statement throws or the API dies, before or after the run was updated.
Crash(c) ==
  /\ "crash" \in Faults[c.of]
  /\ \/ call[c] = "insert" /\ UNCHANGED <<run, orphaned>>
     \/ /\ call[c] = "decide"
        /\ run' \in {run, Decided(c)}
        /\ orphaned' = (orphaned \/ run' = "active")
  /\ Answer(c, "refused")
  /\ UNCHANGED <<registered, faulty>>

-----------------------------------------------------------------------------
(* notifyCallback                                                          *)

\* The scrape ends, or throws.
Finish(e) ==
  /\ worker[e].pc = "scraping"
  /\ \E status \in Outcomes :
       worker' = [worker EXCEPT ![e].pc = "sending", ![e].status = status]
  /\ UNCHANGED <<run, registered, call, letter, orphaned, faulty>>

Send(e) ==
  /\ worker[e].pc = "sending"
  /\ Step(Call(e, worker[e].attempt), "sent")
  /\ Report(e, "waiting")
  /\ UNCHANGED <<run, registered, letter, orphaned, faulty>>

Ack(e) ==
  /\ worker[e].pc = "answered"
  /\ Report(e, "acked")
  /\ UNCHANGED <<run, registered, call, letter, orphaned, faulty>>

\* The fetch is refused or its connection breaks, whatever becomes of the request;
\* or recording the acceptance of a failure callback throws.
Failing(e) ==
  \/ worker[e].pc = "refused"
  \/ worker[e].pc = "waiting" /\ "lost" \in Faults[e]
  \/ worker[e].pc = "answered" /\ worker[e].status = "FAILED" /\ "audit" \in Faults[e]

\* Variant: one more attempt than configured.
FailAttemptLate(e) ==
  /\ Failing(e)
  /\ Report(e, IF worker[e].attempt <= MaxAttempts THEN "pausing" ELSE "burying")
  /\ UNCHANGED <<run, registered, call, letter, orphaned, faulty>>

FailAttempt(e) ==
  /\ Failing(e)
  /\ Report(e, IF worker[e].attempt < MaxAttempts THEN "pausing" ELSE "burying")
  /\ UNCHANGED <<run, registered, call, letter, orphaned, faulty>>

Retry(e) ==
  /\ worker[e].pc = "pausing"
  /\ worker' = [worker EXCEPT ![e].pc = "sending", ![e].attempt = @ + 1]
  /\ UNCHANGED <<run, registered, call, letter, orphaned, faulty>>

Reporting == {"sending", "waiting", "answered", "refused", "pausing"}

\* Reporting the success threw: the failure is reported, with the same event id.
ReportFailure(e) ==
  worker' = [worker EXCEPT ![e] = [pc |-> "sending", status |-> "FAILED", attempt |-> 1]]

\* Variant: the failure callback hears the signal too.
AbortAnyReport(e) ==
  /\ "abort" \in Faults[e]
  /\ worker[e].pc \in Reporting
  /\ IF worker[e].attempt = MaxAttempts THEN Report(e, "burying")
     ELSE IF worker[e].status = "COMPLETED" THEN ReportFailure(e)
     ELSE Report(e, "over")
  /\ UNCHANGED <<run, registered, call, letter, orphaned, faulty>>

\* The task times out while it reports its success: the fetch fails, and so does the
\* pause before the next attempt, if there is one.  The failure callback has no signal.
Abort(e) ==
  /\ "abort" \in Faults[e]
  /\ worker[e].pc \in Reporting
  /\ worker[e].status = "COMPLETED"
  /\ IF worker[e].attempt = MaxAttempts THEN Report(e, "burying") ELSE ReportFailure(e)
  /\ UNCHANGED <<run, registered, call, letter, orphaned, faulty>>

\* The audit inserts around the failure callback are not caught: with one of them
\* the attempts end, and nothing is kept.
Abandon(e) ==
  /\ "audit" \in Faults[e]
  /\ worker[e].status = "FAILED"
  /\ Failing(e)
  /\ Report(e, "over")
  /\ faulty' = faulty \cup {e}
  /\ UNCHANGED <<run, registered, call, letter, orphaned>>

\* persistDeadLetter writes the file ...
Bury(e) ==
  /\ worker[e].pc = "burying"
  /\ File(e, "kept")
  /\ Report(e, "over")
  /\ UNCHANGED <<run, registered, call, orphaned, faulty>>

\* ... or throws.
BuryFails(e) ==
  /\ "disk" \in Faults[e]
  /\ worker[e].pc = "burying"
  /\ IF worker[e].status = "COMPLETED" THEN ReportFailure(e) /\ UNCHANGED faulty
     ELSE Report(e, "over") /\ faulty' = faulty \cup {e}
  /\ UNCHANGED <<run, registered, call, letter, orphaned>>

\* The worker dies, perhaps with its disk.
Die(e) ==
  /\ "restart" \in Faults[e]
  /\ worker[e].pc \notin {"scraping", "acked"}
  /\ Report(e, "over")
  /\ faulty' = faulty \cup {e}
  /\ \/ UNCHANGED letter
     \/ letter[e] # "replayed" /\ File(e, "none")
  /\ UNCHANGED <<run, registered, call, orphaned>>

-----------------------------------------------------------------------------
(* replayDeadLetters                                                       *)

\* The payload of the dead letter is posted; one replay of it at a time is handled ...
Replay(e) ==
  /\ letter[e] = "kept"
  /\ call[Call(e, 0)] = "none"
  /\ File(e, "waiting")
  /\ Step(Call(e, 0), "sent")
  /\ UNCHANGED <<run, registered, worker, orphaned, faulty>>

\* ... and its file removed when the API accepts it ...
ReplayAccepted(e) ==
  /\ letter[e] = "answered"
  /\ File(e, "replayed")
  /\ UNCHANGED <<run, registered, call, worker, orphaned, faulty>>

\* Variant: a refused dead letter stays behind.
ReplayFailedOnce(e) ==
  /\ letter[e] \in {"waiting", "answered"} /\ {"lost", "restart"} \cap Faults[e] # {}
  /\ File(e, "kept")
  /\ UNCHANGED <<run, registered, call, worker, orphaned, faulty>>

\* ... unless the replay is refused, breaks, or stops before it removes the file.
ReplayFailed(e) ==
  /\ \/ letter[e] = "refused"
     \/ letter[e] \in {"waiting", "answered"} /\ {"lost", "restart"} \cap Faults[e] # {}
  /\ File(e, "kept")
  /\ UNCHANGED <<run, registered, call, worker, orphaned, faulty>>

-----------------------------------------------------------------------------

Handle(c) == Check(c) \/ Insert(c) \/ Decide(c)

Deliver(e) == Send(e) \/ Ack(e) \/ FailAttempt(e) \/ Retry(e) \/ Bury(e)

Replays(e) == Replay(e) \/ ReplayAccepted(e) \/ ReplayFailed(e)

Next == \/ \E c \in Calls : Handle(c) \/ Lose(c) \/ Crash(c)
        \/ \E e \in Executions : \/ Finish(e) \/ Deliver(e) \/ Replays(e)
                                 \/ Abort(e) \/ Abandon(e) \/ BuryFails(e) \/ Die(e)

Spec == Init /\ [][Next]_vars

\* Handlers and workers go on, a fetch does not wait for ever, dead letters are
\* replayed again and again, and not every replay is lost on its way to the insert.
\* The posts of an execution are finitely many, so one condition serves them all.
Fairness ==
  \A e \in Executions :
    LET Own == {c \in Calls : c.of = e}
        Replayed == {c \in Own : c.no = 0}
    IN /\ WF_vars(\E c \in Own \ Replayed : Handle(c))
       /\ WF_vars(\E c \in Replayed : Handle(c))
       /\ WF_vars(Deliver(e))
       /\ WF_vars(Replays(e))
       /\ SF_vars(\E c \in Replayed : Check(c))
       /\ SF_vars(\E c \in Replayed : Insert(c))

FairSpec == Spec /\ Fairness

-----------------------------------------------------------------------------
(* Properties                                                              *)

SomeRegistered == \E e \in Executions : registered[e] > 0

\* A registered event has decided the run or is about to, unless its handler failed.
RegisteredDecides ==
  SomeRegistered => run # "active" \/ orphaned \/ \E c \in Calls : call[c] = "decide"

Acknowledged(e) == worker[e].pc = "acked" \/ letter[e] = "replayed"

\* The worker forgets an outcome because the API answered 200 only when the run is
\* decided or being decided, although 200 is also the answer to what the API rejects
\* as a duplicate, stale or out of order; a handler that failed after registering is
\* the one exception.
AcknowledgedTookEffect ==
  \A e \in Executions : Acknowledged(e) =>
    run # "active" \/ orphaned \/ \E c \in Calls : call[c] = "decide"

\* An execution that ends its report without an answer leaves a dead letter, also when
\* its task timed out in the middle, unless its worker, its disk or its audit failed.
UndeliveredIsKept ==
  \A e \in Executions :
    worker[e].pc = "over" => letter[e] # "none" \/ e \in faulty

\* Every execution that begins to report gets the run decided, if need be by a replay.
EveryReportDecides ==
  \A e \in Executions :
    worker[e].pc # "scraping" ~> run # "active" \/ orphaned \/ e \in faulty

\* An acknowledged outcome took effect, or is taking effect.
AcknowledgedIsDecided ==
  \A e \in Executions : Acknowledged(e) =>
    run # "active" \/ \E c \in Calls : call[c] = "decide"

=============================================================================
