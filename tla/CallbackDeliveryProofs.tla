------------------------ MODULE CallbackDeliveryProofs ------------------------
(***************************************************************************)
(* Theorems about CallbackDelivery for any number of executions, attempts  *)
(* of the worker and attempts of the crawl, and for any of the failures.   *)
(***************************************************************************)
EXTENDS CallbackDelivery, TLAPS

\* A call is posted once: an execution has no call yet that is later than its current
\* attempt, and none for a failure while it reports a success.
PostedOnce ==
  \A c \in Calls :
    call[c] # "none" /\ c.no > 0 =>
      LET w == worker[c.of] IN
        /\ w.pc # "scraping"
        /\ c.status = "FAILED" => w.status = "FAILED"
        /\ c.status = w.status => c.no <= w.attempt
        /\ c.status = w.status /\ w.pc = "sending" => c.no # w.attempt

PauseHasNext ==
  \A e \in Executions : worker[e].pc = "pausing" => worker[e].attempt < MaxAttempts

DecidesRegistered == \A c \in Calls : call[c] = "decide" => registered[c.of] > 0

\* An answer of 200 says that some event of the run is registered.
AnswerNeedsEvent ==
  \A e \in Executions :
    worker[e].pc \in {"answered", "acked"} \/ letter[e] \in {"answered", "replayed"} =>
      SomeRegistered

\* The inductive invariant behind the three invariants of the run.
IInv ==
  /\ TypeOK
  /\ PostedOnce
  /\ PauseHasNext
  /\ DecidesRegistered
  /\ RegisteredDecides
  /\ AnswerNeedsEvent
  /\ UndeliveredIsKept


-----------------------------------------------------------------------------
(* Typing                                                                  *)

LEMMA CallType ==
  ASSUME TypeOK, NEW e \in Executions, NEW n \in 0..MaxAttempts
  PROVE  /\ Call(e, n) \in Calls
         /\ Call(e, n).of = e /\ Call(e, n).no = n /\ Call(e, n).status = worker[e].status
  BY DEF TypeOK, Call, Calls, Reports

\* What the end of a handler does to whoever posted the call, and to nobody else.
LEMMA AnswerEffect ==
  ASSUME TypeOK, NEW c \in Calls, NEW answer \in {"answered", "refused"}, Answer(c, answer)
  PROVE  /\ call' \in [Calls -> {"none", "sent", "insert", "decide"}]
         /\ call'[c] = "none"
         /\ \A d \in Calls \ {c} : call'[d] = call[d]
         /\ worker' \in [Executions -> Reports]
         /\ \A e \in Executions :
              \/ worker'[e] = worker[e]
              \/ /\ worker[e].pc = "waiting" /\ worker'[e].pc = answer
                 /\ worker'[e].status = worker[e].status
                 /\ worker'[e].attempt = worker[e].attempt
         /\ letter' \in [Executions ->
                           {"none", "kept", "waiting", "answered", "refused", "replayed"}]
         /\ \A e \in Executions :
              letter'[e] = letter[e] \/ (letter[e] = "waiting" /\ letter'[e] = answer)
  <1>1. c.of \in Executions
    BY DEF Calls
  <1>2. \/ worker' = worker
        \/ worker[c.of].pc = "waiting" /\ Report(c.of, answer)
    BY DEF Answer
  <1>3. \/ letter' = letter
        \/ letter[c.of] = "waiting" /\ File(c.of, answer)
    BY DEF Answer
  <1>4. /\ call' \in [Calls -> {"none", "sent", "insert", "decide"}]
        /\ call'[c] = "none"
        /\ \A d \in Calls \ {c} : call'[d] = call[d]
    BY DEF Answer, Step, TypeOK
  <1>5. /\ worker' \in [Executions -> Reports]
        /\ \A e \in Executions :
             \/ worker'[e] = worker[e]
             \/ /\ worker[e].pc = "waiting" /\ worker'[e].pc = answer
                /\ worker'[e].status = worker[e].status
                /\ worker'[e].attempt = worker[e].attempt
    <2>1. CASE worker' = worker
      BY <2>1 DEF TypeOK
    <2>2. CASE worker[c.of].pc = "waiting" /\ Report(c.of, answer)
      <3> DEFINE w == worker[c.of]
                 v == [w EXCEPT !.pc = answer]
      <3>1. w \in Reports
        BY <1>1 DEF TypeOK
      <3>2. /\ v \in Reports /\ v.pc = answer
            /\ v.status = w.status /\ v.attempt = w.attempt
        BY <3>1 DEF Reports
      <3>3. worker' = [worker EXCEPT ![c.of] = v]
        BY <2>2 DEF Report
      <3> HIDE DEF v
      <3> QED
        BY <1>1, <2>2, <3>2, <3>3 DEF TypeOK
    <2> QED
      BY <1>2, <2>1, <2>2
  <1>6. /\ letter' \in [Executions ->
                          {"none", "kept", "waiting", "answered", "refused", "replayed"}]
        /\ \A e \in Executions :
             letter'[e] = letter[e] \/ (letter[e] = "waiting" /\ letter'[e] = answer)
    BY <1>1, <1>3 DEF TypeOK, File
  <1> QED
    BY <1>4, <1>5, <1>6

LEMMA AttemptType ==
  ASSUME NEW c \in Calls
  PROVE  AttemptOf(c) \in Nat /\ AttemptOf(c) > 0
  BY CallbackDeliveryAssumption DEF CallbackDeliveryAssumption, Calls, AttemptOf

\* A report is rejected only when some event of the run is registered.
LEMMA RejectionNeedsEvent ==
  ASSUME TypeOK, NEW c \in Calls,
         registered[c.of] > 0 \/ ~AttemptInOrder(AttemptOf(c))
  PROVE  SomeRegistered
  BY AttemptType DEF TypeOK, AttemptInOrder, SomeRegistered, Calls

-----------------------------------------------------------------------------
(* The inductive step: the API                                             *)

\* The end of a handler keeps what the invariant says of the posters.
LEMMA AnswerKeepsPosters ==
  ASSUME IInv, NEW c \in Calls, NEW answer \in {"answered", "refused"}, Answer(c, answer),
         answer = "answered" => SomeRegistered',
         SomeRegistered => SomeRegistered', UNCHANGED faulty
  PROVE  PostedOnce' /\ PauseHasNext' /\ AnswerNeedsEvent' /\ UndeliveredIsKept'
  <1> USE AnswerEffect DEF IInv
  <1>1. PostedOnce'
    <2> SUFFICES ASSUME NEW d \in Calls, call'[d] # "none", d.no > 0
                 PROVE  LET w == worker'[d.of] IN
                          /\ w.pc # "scraping"
                          /\ d.status = "FAILED" => w.status = "FAILED"
                          /\ d.status = w.status => d.no <= w.attempt
                          /\ d.status = w.status /\ w.pc = "sending" => d.no # w.attempt
      BY DEF PostedOnce
    <2>1. d # c /\ call[d] # "none" /\ d.of \in Executions
      BY DEF Calls
    <2> QED
      BY <2>1 DEF PostedOnce
  <1>2. PauseHasNext'
    BY DEF PauseHasNext
  <1>3. AnswerNeedsEvent'
    BY DEF AnswerNeedsEvent
  <1>4. UndeliveredIsKept'
    BY DEF UndeliveredIsKept
  <1> QED
    BY <1>1, <1>2, <1>3, <1>4

LEMMA LoseStep ==
  ASSUME IInv, NEW c \in Calls, Lose(c)
  PROVE  IInv'
  <1>1. Answer(c, "refused") /\ call[c] = "sent"
        /\ UNCHANGED <<run, registered, orphaned, faulty>>
    BY DEF Lose
  <1>2. PostedOnce' /\ PauseHasNext' /\ AnswerNeedsEvent' /\ UndeliveredIsKept'
    BY <1>1, AnswerKeepsPosters DEF SomeRegistered
  <1>3. TypeOK'
    BY <1>1, AnswerEffect DEF IInv, TypeOK
  <1>4. DecidesRegistered' /\ RegisteredDecides'
    BY <1>1, AnswerEffect DEF IInv, DecidesRegistered, RegisteredDecides, SomeRegistered
  <1> QED
    BY <1>2, <1>3, <1>4 DEF IInv

LEMMA CheckStep ==
  ASSUME IInv, NEW c \in Calls, Check(c)
  PROVE  IInv'
  <1>1. CASE registered[c.of] > 0 \/ ~AttemptInOrder(AttemptOf(c))
    <2>1. Answer(c, "answered") /\ call[c] = "sent"
          /\ UNCHANGED <<run, registered, orphaned, faulty>>
      BY <1>1 DEF Check
    <2>2. SomeRegistered /\ SomeRegistered'
      BY <1>1, <2>1, RejectionNeedsEvent DEF IInv, SomeRegistered
    <2>3. PostedOnce' /\ PauseHasNext' /\ AnswerNeedsEvent' /\ UndeliveredIsKept'
      BY <2>1, <2>2, AnswerKeepsPosters
    <2>4. TypeOK'
      BY <2>1, AnswerEffect DEF IInv, TypeOK
    <2>5. DecidesRegistered' /\ RegisteredDecides'
      BY <2>1, AnswerEffect DEF IInv, DecidesRegistered, RegisteredDecides, SomeRegistered
    <2> QED
      BY <2>3, <2>4, <2>5 DEF IInv
  <1>2. CASE ~(registered[c.of] > 0 \/ ~AttemptInOrder(AttemptOf(c)))
    <2>1. Step(c, "insert") /\ call[c] = "sent"
          /\ UNCHANGED <<run, registered, worker, letter, orphaned, faulty>>
      BY <1>2 DEF Check
    <2>2. TypeOK'
      BY <2>1 DEF IInv, TypeOK, Step
    <2>3. PostedOnce'
      BY <2>1 DEF IInv, TypeOK, PostedOnce, Step
    <2>4. DecidesRegistered' /\ RegisteredDecides'
      BY <2>1 DEF IInv, TypeOK, DecidesRegistered, RegisteredDecides, SomeRegistered, Step
    <2>5. PauseHasNext' /\ AnswerNeedsEvent' /\ UndeliveredIsKept'
      BY <2>1 DEF IInv, PauseHasNext, AnswerNeedsEvent, SomeRegistered, UndeliveredIsKept
    <2> QED
      BY <2>2, <2>3, <2>4, <2>5 DEF IInv
  <1> QED
    BY <1>1, <1>2

LEMMA InsertStep ==
  ASSUME IInv, NEW c \in Calls, Insert(c)
  PROVE  IInv'
  <1>0. c.of \in Executions /\ registered[c.of] \in Nat
    BY DEF IInv, TypeOK, Calls
  <1>1. CASE registered[c.of] > 0
    <2>1. Answer(c, "answered") /\ call[c] = "insert"
          /\ UNCHANGED <<run, registered, orphaned, faulty>>
      BY <1>1 DEF Insert
    <2>2. SomeRegistered /\ SomeRegistered'
      BY <1>0, <1>1, <2>1 DEF SomeRegistered
    <2>3. PostedOnce' /\ PauseHasNext' /\ AnswerNeedsEvent' /\ UndeliveredIsKept'
      BY <2>1, <2>2, AnswerKeepsPosters
    <2>4. TypeOK'
      BY <2>1, AnswerEffect DEF IInv, TypeOK
    <2>5. DecidesRegistered' /\ RegisteredDecides'
      BY <2>1, AnswerEffect DEF IInv, DecidesRegistered, RegisteredDecides, SomeRegistered
    <2> QED
      BY <2>3, <2>4, <2>5 DEF IInv
  <1>2. CASE ~(registered[c.of] > 0)
    <2>1. /\ Step(c, "decide") /\ call[c] = "insert"
          /\ registered' = [registered EXCEPT ![c.of] = AttemptOf(c)]
          /\ UNCHANGED <<run, worker, letter, orphaned, faulty>>
      BY <1>2 DEF Insert
    <2>2. TypeOK'
      BY <2>1, <1>0, AttemptType DEF IInv, TypeOK, Step
    <2>3. SomeRegistered' /\ \A e \in Executions : registered[e] > 0 => registered'[e] > 0
      BY <2>1, <1>0, AttemptType DEF IInv, TypeOK, SomeRegistered
    <2>4. registered'[c.of] > 0 /\ call'[c] = "decide"
          /\ \A d \in Calls \ {c} : call'[d] = call[d]
      BY <2>1, <1>0, AttemptType DEF IInv, TypeOK, Step
    <2>5. PostedOnce'
      BY <2>1, <2>4 DEF IInv, PostedOnce
    <2>6. DecidesRegistered' /\ RegisteredDecides'
      BY <2>3, <2>4 DEF IInv, DecidesRegistered, RegisteredDecides, Calls
    <2>7. PauseHasNext' /\ AnswerNeedsEvent' /\ UndeliveredIsKept'
      BY <2>1, <2>3 DEF IInv, PauseHasNext, AnswerNeedsEvent, UndeliveredIsKept
    <2> QED
      BY <2>2, <2>5, <2>6, <2>7 DEF IInv
  <1> QED
    BY <1>1, <1>2

LEMMA DecidedType ==
  ASSUME TypeOK, NEW c \in Calls
  PROVE  Decided(c) \in Outcomes
  BY DEF TypeOK, Calls, Decided, Outcomes

LEMMA DecideStep ==
  ASSUME IInv, NEW c \in Calls, Decide(c)
  PROVE  IInv'
  <1>1. Answer(c, "answered") /\ call[c] = "decide" /\ run' \in Outcomes
        /\ UNCHANGED <<registered, orphaned, faulty>>
    BY DecidedType DEF Decide, IInv
  <1>2. SomeRegistered /\ SomeRegistered'
    BY <1>1 DEF IInv, DecidesRegistered, SomeRegistered, Calls
  <1>3. PostedOnce' /\ PauseHasNext' /\ AnswerNeedsEvent' /\ UndeliveredIsKept'
    BY <1>1, <1>2, AnswerKeepsPosters
  <1>4. TypeOK'
    BY <1>1, AnswerEffect DEF IInv, TypeOK
  <1>5. DecidesRegistered' /\ RegisteredDecides'
    BY <1>1, AnswerEffect DEF IInv, DecidesRegistered, RegisteredDecides, Outcomes
  <1> QED
    BY <1>3, <1>4, <1>5 DEF IInv

LEMMA CrashStep ==
  ASSUME IInv, NEW c \in Calls, Crash(c)
  PROVE  IInv'
  <1>1. Answer(c, "refused") /\ UNCHANGED <<registered, faulty>>
    BY DEF Crash
  <1>2. \/ call[c] = "insert" /\ UNCHANGED <<run, orphaned>>
        \/ /\ call[c] = "decide" /\ run' \in {run} \cup Outcomes
           /\ orphaned' \in BOOLEAN /\ (run' # "active" \/ orphaned')
    BY DecidedType DEF Crash, IInv, TypeOK
  <1>3. PostedOnce' /\ PauseHasNext' /\ AnswerNeedsEvent' /\ UndeliveredIsKept'
    BY <1>1, AnswerKeepsPosters DEF SomeRegistered
  <1>4. TypeOK'
    BY <1>1, <1>2, AnswerEffect DEF IInv, TypeOK
  <1>5. DecidesRegistered'
    BY <1>1, AnswerEffect DEF IInv, DecidesRegistered
  <1>6. RegisteredDecides'
    BY <1>1, <1>2, AnswerEffect DEF IInv, RegisteredDecides, SomeRegistered
  <1> QED
    BY <1>3, <1>4, <1>5, <1>6 DEF IInv

-----------------------------------------------------------------------------
(* The inductive step: notifyCallback                                      *)

\* From w to v a report goes on without returning to an attempt it posted.
Advances(w, v) ==
  /\ v.pc # "scraping"
  /\ \/ w.pc = "scraping"
     \/ w.status = "COMPLETED" /\ v.status = "FAILED"
     \/ /\ v.status = w.status /\ v.attempt >= w.attempt
        /\ v.pc = "sending" => v.attempt > w.attempt

LEMMA AdvanceStep ==
  ASSUME IInv, NEW e \in Executions, NEW v \in Reports,
         worker' = [worker EXCEPT ![e] = v], Advances(worker[e], v),
         v.pc = "pausing" => v.attempt < MaxAttempts,
         v.pc \in {"answered", "acked"} => SomeRegistered,
         UNCHANGED <<run, registered, call, orphaned>>,
         faulty' \in {faulty, faulty \cup {e}},
         letter' = letter \/ letter' = [letter EXCEPT ![e] = "kept"]
           \/ letter' = [letter EXCEPT ![e] = "none"],
         (v.pc = "over" => letter'[e] # "none" \/ e \in faulty')
  PROVE  IInv'
  <1>1. /\ worker' \in [Executions -> Reports] /\ worker'[e] = v
        /\ \A f \in Executions \ {e} : worker'[f] = worker[f]
    BY DEF IInv, TypeOK
  <1>2. /\ letter' \in [Executions ->
                          {"none", "kept", "waiting", "answered", "refused", "replayed"}]
        /\ letter'[e] = letter[e] \/ letter'[e] \in {"kept", "none"}
        /\ \A f \in Executions \ {e} : letter'[f] = letter[f]
    BY DEF IInv, TypeOK
  <1>3. TypeOK'
    BY <1>1, <1>2 DEF IInv, TypeOK
  <1>4. PostedOnce'
    <2> SUFFICES ASSUME NEW d \in Calls, call'[d] # "none", d.no > 0
                 PROVE  LET w == worker'[d.of] IN
                          /\ w.pc # "scraping"
                          /\ d.status = "FAILED" => w.status = "FAILED"
                          /\ d.status = w.status => d.no <= w.attempt
                          /\ d.status = w.status /\ w.pc = "sending" => d.no # w.attempt
      BY DEF PostedOnce
    <2>1. d.of \in Executions /\ d.status \in Outcomes /\ d.no \in Nat
      BY CallbackDeliveryAssumption DEF Calls, CallbackDeliveryAssumption
    <2>2. LET w == worker[d.of] IN
            /\ w.pc # "scraping"
            /\ d.status = "FAILED" => w.status = "FAILED"
            /\ d.status = w.status => d.no <= w.attempt
            /\ d.status = w.status /\ w.pc = "sending" => d.no # w.attempt
      BY DEF IInv, PostedOnce
    <2>3. CASE d.of = e
      <3>1. worker[e].attempt \in Nat /\ v.attempt \in Nat
        BY CallbackDeliveryAssumption DEF IInv, TypeOK, Reports, CallbackDeliveryAssumption
      <3> QED
        BY <1>1, <2>1, <2>2, <2>3, <3>1 DEF Advances, Outcomes
    <2>4. CASE d.of # e
      BY <1>1, <2>1, <2>2, <2>4
    <2> QED
      BY <2>3, <2>4
  <1>5. PauseHasNext'
    BY <1>1 DEF IInv, PauseHasNext
  <1>6. DecidesRegistered' /\ RegisteredDecides'
    BY DEF IInv, DecidesRegistered, RegisteredDecides, SomeRegistered
  <1>7. AnswerNeedsEvent'
    BY <1>1, <1>2 DEF IInv, AnswerNeedsEvent, SomeRegistered
  <1>8. UndeliveredIsKept'
    BY <1>1, <1>2 DEF IInv, UndeliveredIsKept
  <1> QED
    BY <1>3, <1>4, <1>5, <1>6, <1>7, <1>8 DEF IInv

\* The record a worker holds once it moved to pc.
LEMMA MovedTo ==
  ASSUME TypeOK, NEW e \in Executions,
         NEW pc \in {"scraping", "sending", "waiting", "answered", "refused",
                     "pausing", "burying", "acked", "over"}
  PROVE  LET v == [worker[e] EXCEPT !.pc = pc] IN
           /\ v \in Reports /\ v.pc = pc
           /\ v.status = worker[e].status /\ v.attempt = worker[e].attempt
           /\ v.attempt \in Nat
           /\ Report(e, pc) => worker' = [worker EXCEPT ![e] = v]
           /\ pc \notin {"scraping", "sending"} => Advances(worker[e], v)
  BY CallbackDeliveryAssumption DEF TypeOK, Reports, Report, Advances, CallbackDeliveryAssumption

LEMMA FinishStep ==
  ASSUME IInv, NEW e \in Executions, Finish(e)
  PROVE  IInv'
  <1>1. PICK status \in Outcomes :
          worker' = [worker EXCEPT ![e].pc = "sending", ![e].status = status]
    BY DEF Finish
  <1> DEFINE v == [worker[e] EXCEPT !.pc = "sending", !.status = status]
  <1>2. v \in Reports /\ v.pc = "sending" /\ worker' = [worker EXCEPT ![e] = v]
    BY <1>1 DEF IInv, TypeOK, Reports
  <1>3. Advances(worker[e], v)
    BY <1>2 DEF Finish, Advances
  <1> QED
    BY <1>2, <1>3, AdvanceStep DEF Finish

LEMMA SendStep ==
  ASSUME IInv, NEW e \in Executions, Send(e)
  PROVE  IInv'
  <1> DEFINE n == worker[e].attempt
             c == Call(e, n)
             v == [worker[e] EXCEPT !.pc = "waiting"]
  <1>1. n \in 1..MaxAttempts /\ n > 0 /\ n \in 0..MaxAttempts
    BY CallbackDeliveryAssumption DEF IInv, TypeOK, Reports, CallbackDeliveryAssumption
  <1>2. /\ c \in Calls /\ c.of = e /\ c.no = n /\ c.status = worker[e].status
    BY <1>1, CallType DEF IInv
  <1>3. call[c] = "none"
    BY <1>1, <1>2 DEF Send, IInv, PostedOnce
  <1>4. /\ v \in Reports /\ v.pc = "waiting" /\ v.status = worker[e].status
        /\ v.attempt = n /\ worker' = [worker EXCEPT ![e] = v]
    BY MovedTo DEF Send, IInv
  <1>5. /\ worker' \in [Executions -> Reports] /\ worker'[e] = v
        /\ \A f \in Executions \ {e} : worker'[f] = worker[f]
    BY <1>4 DEF IInv, TypeOK
  <1>6. /\ call' \in [Calls -> {"none", "sent", "insert", "decide"}] /\ call'[c] = "sent"
        /\ \A d \in Calls \ {c} : call'[d] = call[d]
    BY <1>2 DEF Send, Step, IInv, TypeOK
  <1>7. UNCHANGED <<run, registered, letter, orphaned, faulty>>
    BY DEF Send
  <1> HIDE DEF n, c, v
  <1>8. TypeOK'
    BY <1>5, <1>6, <1>7 DEF IInv, TypeOK
  <1>9. PostedOnce'
    <2> SUFFICES ASSUME NEW d \in Calls, call'[d] # "none", d.no > 0
                 PROVE  LET w == worker'[d.of] IN
                          /\ w.pc # "scraping"
                          /\ d.status = "FAILED" => w.status = "FAILED"
                          /\ d.status = w.status => d.no <= w.attempt
                          /\ d.status = w.status /\ w.pc = "sending" => d.no # w.attempt
      BY DEF PostedOnce
    <2>1. d.of \in Executions
      BY DEF Calls
    <2>2. CASE d = c
      BY <1>1, <1>2, <1>4, <1>5, <2>2
    <2>3. CASE d # c
      BY <1>4, <1>5, <1>6, <2>1, <2>3 DEF IInv, PostedOnce, n
    <2> QED
      BY <2>2, <2>3
  <1>10. PauseHasNext' /\ AnswerNeedsEvent' /\ UndeliveredIsKept'
    BY <1>4, <1>5, <1>7
       DEF IInv, PauseHasNext, AnswerNeedsEvent, UndeliveredIsKept, SomeRegistered
  <1>11. DecidesRegistered' /\ RegisteredDecides'
    BY <1>2, <1>3, <1>6, <1>7
       DEF IInv, DecidesRegistered, RegisteredDecides, SomeRegistered
  <1> QED
    BY <1>8, <1>9, <1>10, <1>11 DEF IInv

LEMMA AckStep ==
  ASSUME IInv, NEW e \in Executions, Ack(e)
  PROVE  IInv'
  <1> DEFINE v == [worker[e] EXCEPT !.pc = "acked"]
  <1>1. v \in Reports /\ v.pc = "acked" /\ worker' = [worker EXCEPT ![e] = v]
        /\ Advances(worker[e], v)
    BY MovedTo DEF Ack, IInv
  <1>2. SomeRegistered
    BY DEF Ack, IInv, AnswerNeedsEvent
  <1> QED
    BY <1>1, <1>2, AdvanceStep DEF Ack

LEMMA FailAttemptStep ==
  ASSUME IInv, NEW e \in Executions, FailAttempt(e)
  PROVE  IInv'
  <1>1. PICK pc \in {"pausing", "burying"} :
          /\ Report(e, pc)
          /\ pc = "pausing" => worker[e].attempt < MaxAttempts
    BY DEF FailAttempt
  <1> DEFINE v == [worker[e] EXCEPT !.pc = pc]
  <1>2. /\ v \in Reports /\ v.pc = pc /\ v.attempt = worker[e].attempt
        /\ worker' = [worker EXCEPT ![e] = v] /\ Advances(worker[e], v)
    <2>1. pc \in {"scraping", "sending", "waiting", "answered", "refused",
                 "pausing", "burying", "acked", "over"}
          /\ pc \notin {"scraping", "sending"}
      OBVIOUS
    <2>2. TypeOK
      BY DEF IInv
    <2> QED
      BY <1>1, <2>1, <2>2, MovedTo
  <1> HIDE DEF v
  <1> QED
    BY <1>1, <1>2, AdvanceStep DEF FailAttempt

LEMMA RetryStep ==
  ASSUME IInv, NEW e \in Executions, Retry(e)
  PROVE  IInv'
  <1> DEFINE v == [worker[e] EXCEPT !.pc = "sending", !.attempt = @ + 1]
  <1>1. worker[e].attempt \in 1..MaxAttempts /\ worker[e].attempt < MaxAttempts
    BY DEF Retry, IInv, PauseHasNext, TypeOK, Reports
  <1>2. worker[e].attempt + 1 \in 1..MaxAttempts
    BY <1>1, CallbackDeliveryAssumption DEF CallbackDeliveryAssumption
  <1>3. /\ v \in Reports /\ v.pc = "sending" /\ v.attempt = worker[e].attempt + 1
        /\ v.status = worker[e].status
    BY <1>2 DEF IInv, TypeOK, Reports
  <1>4. worker' = [worker EXCEPT ![e] = v]
    BY DEF Retry, IInv, TypeOK
  <1>5. Advances(worker[e], v)
    BY <1>1, <1>3 DEF Advances
  <1> QED
    BY <1>3, <1>4, <1>5, AdvanceStep DEF Retry

\* Reporting a failure instead of a success starts from the first attempt.
LEMMA FailureReportStep ==
  ASSUME IInv, NEW e \in Executions, worker[e].status = "COMPLETED", ReportFailure(e),
         UNCHANGED <<run, registered, call, letter, orphaned, faulty>>
  PROVE  IInv'
  <1> DEFINE v == [pc |-> "sending", status |-> "FAILED", attempt |-> 1]
  <1>1. v \in Reports /\ Advances(worker[e], v) /\ v.pc = "sending"
    BY CallbackDeliveryAssumption
       DEF Reports, Outcomes, Advances, CallbackDeliveryAssumption
  <1>2. worker' = [worker EXCEPT ![e] = v]
    BY DEF ReportFailure
  <1> QED
    BY <1>1, <1>2, AdvanceStep

LEMMA AbortStep ==
  ASSUME IInv, NEW e \in Executions, Abort(e)
  PROVE  IInv'
  <1> DEFINE v == [worker[e] EXCEPT !.pc = "burying"]
  <1>1. CASE Report(e, "burying")
    <2>1. v \in Reports /\ v.pc = "burying" /\ worker' = [worker EXCEPT ![e] = v]
          /\ Advances(worker[e], v)
      BY <1>1, MovedTo DEF IInv
    <2> QED
      BY <2>1, AdvanceStep DEF Abort
  <1>2. CASE ReportFailure(e)
    BY <1>2, FailureReportStep DEF Abort
  <1> QED
    BY <1>1, <1>2 DEF Abort

LEMMA AbandonStep ==
  ASSUME IInv, NEW e \in Executions, Abandon(e)
  PROVE  IInv'
  <1> DEFINE v == [worker[e] EXCEPT !.pc = "over"]
  <1>1. v \in Reports /\ v.pc = "over" /\ worker' = [worker EXCEPT ![e] = v]
        /\ Advances(worker[e], v)
    BY MovedTo DEF Abandon, IInv
  <1> QED
    BY <1>1, AdvanceStep DEF Abandon

LEMMA BuryStep ==
  ASSUME IInv, NEW e \in Executions, Bury(e)
  PROVE  IInv'
  <1> DEFINE v == [worker[e] EXCEPT !.pc = "over"]
  <1>1. v \in Reports /\ v.pc = "over" /\ worker' = [worker EXCEPT ![e] = v]
        /\ Advances(worker[e], v)
    BY MovedTo DEF Bury, IInv
  <1>2. letter' = [letter EXCEPT ![e] = "kept"] /\ letter'[e] = "kept"
    BY DEF Bury, File, IInv, TypeOK
  <1> QED
    BY <1>1, <1>2, AdvanceStep DEF Bury

LEMMA BuryFailsStep ==
  ASSUME IInv, NEW e \in Executions, BuryFails(e)
  PROVE  IInv'
  <1> DEFINE v == [worker[e] EXCEPT !.pc = "over"]
  <1>1. CASE worker[e].status = "COMPLETED"
    BY <1>1, FailureReportStep DEF BuryFails
  <1>2. CASE worker[e].status # "COMPLETED"
    <2>1. v \in Reports /\ v.pc = "over" /\ worker' = [worker EXCEPT ![e] = v]
          /\ Advances(worker[e], v)
      BY <1>2, MovedTo DEF BuryFails, IInv
    <2> QED
      BY <1>2, <2>1, AdvanceStep DEF BuryFails
  <1> QED
    BY <1>1, <1>2

LEMMA DieStep ==
  ASSUME IInv, NEW e \in Executions, Die(e)
  PROVE  IInv'
  <1> DEFINE v == [worker[e] EXCEPT !.pc = "over"]
  <1>1. v \in Reports /\ v.pc = "over" /\ worker' = [worker EXCEPT ![e] = v]
        /\ Advances(worker[e], v)
    BY MovedTo DEF Die, IInv
  <1>2. letter' = letter \/ letter' = [letter EXCEPT ![e] = "none"]
    BY DEF Die, File
  <1>3. e \in faulty' /\ faulty' = faulty \cup {e}
    BY DEF Die
  <1> QED
    BY <1>1, <1>2, <1>3, AdvanceStep DEF Die

-----------------------------------------------------------------------------
(* The inductive step: replayDeadLetters                                   *)

\* A letter that is there stays there, and goes only after an answer of 200.
LEMMA LetterStep ==
  ASSUME IInv, NEW e \in Executions,
         NEW state \in {"kept", "waiting", "replayed"}, File(e, state),
         state = "replayed" => SomeRegistered,
         UNCHANGED <<run, registered, worker, orphaned, faulty>>
  PROVE  /\ letter' \in [Executions ->
                           {"none", "kept", "waiting", "answered", "refused", "replayed"}]
         /\ PauseHasNext' /\ AnswerNeedsEvent' /\ UndeliveredIsKept'
  <1>1. /\ letter' \in [Executions ->
                          {"none", "kept", "waiting", "answered", "refused", "replayed"}]
        /\ letter'[e] = state /\ \A f \in Executions \ {e} : letter'[f] = letter[f]
    BY DEF File, IInv, TypeOK
  <1>2. AnswerNeedsEvent' /\ UndeliveredIsKept'
    BY <1>1 DEF IInv, AnswerNeedsEvent, UndeliveredIsKept, SomeRegistered
  <1> QED
    BY <1>1, <1>2 DEF IInv, PauseHasNext

LEMMA ReplayStep ==
  ASSUME IInv, NEW e \in Executions, Replay(e)
  PROVE  IInv'
  <1> DEFINE c == Call(e, 0)
  <1>1. c \in Calls /\ c.no = 0
    BY CallType, CallbackDeliveryAssumption DEF IInv, CallbackDeliveryAssumption
  <1>2. /\ call[c] = "none" /\ File(e, "waiting") /\ Step(c, "sent")
        /\ UNCHANGED <<run, registered, worker, orphaned, faulty>>
    BY DEF Replay
  <1> HIDE DEF c
  <1>3. /\ call' \in [Calls -> {"none", "sent", "insert", "decide"}] /\ call'[c] = "sent"
        /\ \A d \in Calls \ {c} : call'[d] = call[d]
    BY <1>1, <1>2 DEF Step, IInv, TypeOK
  <1>4. /\ letter' \in [Executions ->
                          {"none", "kept", "waiting", "answered", "refused", "replayed"}]
        /\ PauseHasNext' /\ AnswerNeedsEvent' /\ UndeliveredIsKept'
    BY <1>2, LetterStep
  <1>5. TypeOK'
    BY <1>2, <1>3, <1>4 DEF IInv, TypeOK
  <1>6. PostedOnce'
    BY <1>1, <1>2, <1>3 DEF IInv, PostedOnce
  <1>7. DecidesRegistered' /\ RegisteredDecides'
    BY <1>1, <1>2, <1>3 DEF IInv, DecidesRegistered, RegisteredDecides, SomeRegistered
  <1> QED
    BY <1>4, <1>5, <1>6, <1>7 DEF IInv

\* The answer to a replay removes the letter or leaves it, and touches nothing else.
LEMMA ReplayDoneStep ==
  ASSUME IInv, NEW e \in Executions, ReplayAccepted(e) \/ ReplayFailed(e)
  PROVE  IInv'
  <1>1. PICK state \in {"kept", "replayed"} :
          File(e, state) /\ (state = "replayed" => letter[e] = "answered")
    BY DEF ReplayAccepted, ReplayFailed
  <1>2. UNCHANGED <<run, registered, call, worker, orphaned, faulty>>
    BY DEF ReplayAccepted, ReplayFailed
  <1>3. state = "replayed" => SomeRegistered
    BY <1>1 DEF IInv, AnswerNeedsEvent
  <1>4. /\ letter' \in [Executions ->
                          {"none", "kept", "waiting", "answered", "refused", "replayed"}]
        /\ PauseHasNext' /\ AnswerNeedsEvent' /\ UndeliveredIsKept'
    BY <1>1, <1>2, <1>3, LetterStep
  <1>5. TypeOK' /\ PostedOnce' /\ DecidesRegistered' /\ RegisteredDecides'
    BY <1>2, <1>4
       DEF IInv, TypeOK, PostedOnce, DecidesRegistered, RegisteredDecides, SomeRegistered
  <1> QED
    BY <1>4, <1>5 DEF IInv

-----------------------------------------------------------------------------
(* The theorems                                                            *)

LEMMA InitIInv == Init => IInv
  <1> SUFFICES ASSUME Init PROVE IInv
    OBVIOUS
  <1>1. TypeOK
    <2>1. [pc |-> "scraping", status |-> "COMPLETED", attempt |-> 1] \in Reports
      BY CallbackDeliveryAssumption DEF Reports, Outcomes, CallbackDeliveryAssumption
    <2> QED
      BY <2>1 DEF Init, TypeOK
  <1>2. PostedOnce /\ PauseHasNext /\ DecidesRegistered
    BY DEF Init, PostedOnce, PauseHasNext, DecidesRegistered
  <1>3. RegisteredDecides /\ AnswerNeedsEvent /\ UndeliveredIsKept
    BY DEF Init, RegisteredDecides, SomeRegistered, AnswerNeedsEvent, UndeliveredIsKept
  <1> QED
    BY <1>1, <1>2, <1>3 DEF IInv

LEMMA StepIInv == IInv /\ [Next]_vars => IInv'
  <1> SUFFICES ASSUME IInv, [Next]_vars PROVE IInv'
    OBVIOUS
  <1>1. CASE \E c \in Calls : Handle(c) \/ Lose(c) \/ Crash(c)
    BY <1>1, CheckStep, InsertStep, DecideStep, LoseStep, CrashStep DEF Handle
  <1>2. CASE \E e \in Executions : Finish(e) \/ Deliver(e)
    BY <1>2, FinishStep, SendStep, AckStep, FailAttemptStep, RetryStep, BuryStep
       DEF Deliver
  <1>3. CASE \E e \in Executions : Abort(e) \/ Abandon(e) \/ BuryFails(e) \/ Die(e)
    BY <1>3, AbortStep, AbandonStep, BuryFailsStep, DieStep
  <1>4. CASE \E e \in Executions : Replays(e)
    BY <1>4, ReplayStep, ReplayDoneStep DEF Replays
  <1>5. CASE UNCHANGED vars
    BY <1>5 DEF vars, IInv, TypeOK, PostedOnce, PauseHasNext, DecidesRegistered,
                RegisteredDecides, SomeRegistered, AnswerNeedsEvent, UndeliveredIsKept
  <1> QED
    BY <1>1, <1>2, <1>3, <1>4, <1>5 DEF Next

\* The invariant holds in every reachable state.
THEOREM InvariantHolds == Spec => []IInv
  BY InitIInv, StepIInv, PTL DEF Spec

\* The variables keep their types; notifyCallback in particular posts no more often than
\* WORKER_CALLBACK_RETRY_ATTEMPTS says.
THEOREM TypeCorrect == Spec => []TypeOK
  <1>1. IInv => TypeOK
    BY DEF IInv
  <1> QED
    BY <1>1, InvariantHolds, PTL

\* Whatever the API answers 200 to, the run is decided, being decided, or was registered
\* by a handler that failed: the acknowledgement of a duplicate, stale or out-of-order
\* callback loses nothing by itself.
THEOREM AcknowledgementIsSafe == Spec => []AcknowledgedTookEffect
  <1>1. IInv => AcknowledgedTookEffect
    BY DEF IInv, AnswerNeedsEvent, RegisteredDecides, AcknowledgedTookEffect, Acknowledged
  <1> QED
    BY <1>1, InvariantHolds, PTL

\* A report that ends without an answer has left a dead letter, unless the worker, its
\* disk or its audit failed.
THEOREM NothingUndeliveredIsLost == Spec => []UndeliveredIsKept
  <1>1. IInv => UndeliveredIsKept
    BY DEF IInv
  <1> QED
    BY <1>1, InvariantHolds, PTL

=============================================================================
