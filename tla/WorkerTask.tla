----------------------------- MODULE WorkerTask -----------------------------
(***************************************************************************)
(* The ingress of the scrape worker.  Cloud Tasks delivers the task of a   *)
(* run at least once, to any instance of the worker, and again when it is  *)
(* refused or the connection breaks.  The POST /tasks handler of           *)
(* createTaskServer claims the run's row of worker_task_executions, hands  *)
(* the task to the TaskRunner of its process (a bounded queue in front of  *)
(* a bounded number of slots) and answers when the task is over.  The      *)
(* payload is the same in every delivery, so the lease every claim writes  *)
(* is the instant the dispatcher put there.                                *)
(***************************************************************************)
EXTENDS Integers, Sequences

CONSTANTS
  Runs,           \* scrape runs, one task each
  Deliveries,     \* HTTP deliveries of the tasks
  RunOf,          \* the run whose task a delivery carries
  Workers,        \* instances of the worker process
  MaxConcurrent,  \* WORKER_MAX_CONCURRENT_TASKS
  MaxQueue,       \* WORKER_MAX_QUEUE_SIZE
  Faults          \* which of the failures "claim", "persist", "restart" occur

WorkerTaskAssumption ==
  /\ RunOf \in [Deliveries -> Runs]
  /\ "nowhere" \notin Workers
  /\ MaxConcurrent \in Nat \ {0}
  /\ MaxQueue \in Nat \ {0}
  /\ Faults \subseteq {"claim", "persist", "restart"}

ASSUME WorkerTaskAssumption

VARIABLES
  execution,  \* the rows of worker_task_executions, by run
  due,        \* runs whose lease instant (payload.leaseExpiresAt) has passed
  queue,      \* TaskRunner.queue of each worker
  active,     \* TaskRunner.active of each worker
  req,        \* the handlers of the deliveries
  unclaimed   \* runs of which a delivery was taken on without a claim (history)

vars == <<execution, due, queue, active, req, unclaimed>>

-----------------------------------------------------------------------------

Outcomes == {"completed", "failed", "timed_out"}

\* A row; lease: lease_expires_at is the payload's instant, otherwise null.  An
\* execution in progress has one, a finished one has none.
Executions == [status : {"accepted", "started"}, lease : {TRUE}]
              \cup [status : {"none"} \cup Outcomes, lease : {FALSE}]

\* claimed: before enqueueAndWait; queued; starting: in a slot, before the started
\* hook; running: handleTask against the timeout; ending: before the terminal hook;
\* releasing: after it, before the slot is given back.
InSlot == {"starting", "running", "ending", "releasing"}
Points == {"new", "claimed", "queued", "answered"} \cup InSlot

Handlers == [pc : Points, at : Workers \cup {"nowhere"}, outcome : Outcomes \cup {"none"}]

\* A delivery that no worker handles: still to come (again), or acknowledged.
Away(pc) == [pc |-> pc, at |-> "nowhere", outcome |-> "none"]

TypeOK ==
  /\ execution \in [Runs -> Executions]
  /\ due \in SUBSET Runs
  /\ queue \in [Workers -> Seq(Deliveries)]
  /\ active \in [Workers -> Int]
  /\ req \in [Deliveries -> Handlers]
  /\ unclaimed \in SUBSET Runs

Init ==
  /\ execution = [r \in Runs |-> [status |-> "none", lease |-> FALSE]]
  /\ due = {}
  /\ queue = [w \in Workers |-> << >>]
  /\ active = [w \in Workers |-> 0]
  /\ req = [d \in Deliveries |-> Away("new")]
  /\ unclaimed = {}

-----------------------------------------------------------------------------
(* Claiming the task                                                       *)

\* Variant: only a started execution holds its row.
ClaimableUnlessStarted(r) == \/ execution[r].status # "started"
                             \/ execution[r].lease /\ r \in due

\* The insert, or the WHERE of its ON CONFLICT DO UPDATE.  A null lease is never
\* due, so only a terminal status frees such a row.
Claimable(r) == \/ execution[r].status = "none"
                \/ execution[r].lease /\ r \in due
                \/ execution[r].status \in Outcomes

Claimed(r) == [execution EXCEPT ![r] = [status |-> "accepted", lease |-> TRUE]]

\* claimWorkerTaskExecution takes the row in one statement ...
Claim(d, w) ==
  /\ req[d].pc = "new"
  /\ Claimable(RunOf[d])
  /\ execution' = Claimed(RunOf[d])
  /\ req' = [req EXCEPT ![d].pc = "claimed", ![d].at = w]
  /\ UNCHANGED <<due, queue, active, unclaimed>>

\* ... or finds it taken: 202, and Cloud Tasks is done with the delivery ...
Duplicate(d) ==
  /\ req[d].pc = "new"
  /\ ~Claimable(RunOf[d])
  /\ req' = [req EXCEPT ![d] = Away("answered")]
  /\ UNCHANGED <<execution, due, queue, active, unclaimed>>

\* ... or throws, though the row may have been taken: the task goes on unclaimed.
SkipClaim(d, w) ==
  /\ "claim" \in Faults
  /\ req[d].pc = "new"
  /\ \/ UNCHANGED execution
     \/ Claimable(RunOf[d]) /\ execution' = Claimed(RunOf[d])
  /\ req' = [req EXCEPT ![d].pc = "claimed", ![d].at = w]
  /\ unclaimed' = unclaimed \cup {RunOf[d]}
  /\ UNCHANGED <<due, queue, active>>

-----------------------------------------------------------------------------
(* TaskRunner                                                              *)

\* pump: how many tasks its loop moves from the head of the queue q into free
\* slots when busy of them are in use ...
Pumped(q, busy) ==
  LET free == IF MaxConcurrent > busy THEN MaxConcurrent - busy ELSE 0
  IN IF Len(q) < free THEN Len(q) ELSE free

\* ... and what that makes of the handlers reqs that its caller left.
Pump(w, reqs, q, busy) ==
  LET n == Pumped(q, busy)
      started == {q[i] : i \in 1..n}
  IN /\ queue' = [queue EXCEPT ![w] = SubSeq(q, n + 1, Len(q))]
     /\ active' = [active EXCEPT ![w] = busy + n]
     /\ req' = [d \in Deliveries |->
                  IF d \in started THEN [reqs[d] EXCEPT !.pc = "starting"] ELSE reqs[d]]

\* enqueueAndWait: the limit is compared before the push, the pump runs after it.
Enqueue(d) ==
  LET w == req[d].at IN
    /\ req[d].pc = "claimed"
    /\ Len(queue[w]) < MaxQueue
    /\ Pump(w, [req EXCEPT ![d].pc = "queued"], Append(queue[w], d), active[w])
    /\ UNCHANGED <<execution, due, unclaimed>>

\* The queue is full: 429, on which Cloud Tasks tries again.  The claim stays.
Reject(d) ==
  /\ req[d].pc = "claimed"
  /\ Len(queue[req[d].at]) >= MaxQueue
  /\ req' = [req EXCEPT ![d] = Away("new")]
  /\ UNCHANGED <<execution, due, queue, active, unclaimed>>

\* updateWorkerTaskExecution: UPDATE ... WHERE source_run_id = ?, whoever claimed it.
\* A failed update is logged and dropped.
Persist(r, status, lease) ==
  \/ execution' = IF execution[r].status = "none" THEN execution
                  ELSE [execution EXCEPT ![r] = [status |-> status, lease |-> lease]]
  \/ "persist" \in Faults /\ UNCHANGED execution

\* run: the started hook, which also writes the payload's lease again ...
Start(d) ==
  /\ req[d].pc = "starting"
  /\ Persist(RunOf[d], "started", TRUE)
  /\ req' = [req EXCEPT ![d].pc = "running"]
  /\ UNCHANGED <<due, queue, active, unclaimed>>

\* ... the race of handleTask with the timeout, where the scrape ends, throws or
\* is given up on ...
End(d) ==
  /\ req[d].pc = "running"
  /\ \E outcome \in Outcomes :
       req' = [req EXCEPT ![d].pc = "ending", ![d].outcome = outcome]
  /\ UNCHANGED <<execution, due, queue, active, unclaimed>>

\* Variant: the terminal hook leaves lease_expires_at alone.
WriteOutcomeKeepsLease(d) ==
  /\ req[d].pc = "ending"
  /\ Persist(RunOf[d], req[d].outcome, execution[RunOf[d]].lease)
  /\ req' = [req EXCEPT ![d].pc = "releasing", ![d].outcome = "none"]
  /\ UNCHANGED <<due, queue, active, unclaimed>>

\* ... and the terminal hook, which clears the lease.
WriteOutcome(d) ==
  /\ req[d].pc = "ending"
  /\ Persist(RunOf[d], req[d].outcome, FALSE)
  /\ req' = [req EXCEPT ![d].pc = "releasing", ![d].outcome = "none"]
  /\ UNCHANGED <<due, queue, active, unclaimed>>

Replied(d) == [req EXCEPT ![d] = Away("answered")]

\* Variant: only an enqueue pumps.
ReleaseWithoutPump(d) ==
  /\ req[d].pc = "releasing"
  /\ active' = [active EXCEPT ![req[d].at] = @ - 1]
  /\ req' = Replied(d)
  /\ UNCHANGED <<execution, due, queue, unclaimed>>

\* The handler answers 200 for every outcome; the slot is given back and refilled.
Release(d) ==
  LET w == req[d].at IN
    /\ req[d].pc = "releasing"
    /\ Pump(w, Replied(d), queue[w], active[w] - 1)
    /\ UNCHANGED <<execution, due, unclaimed>>

-----------------------------------------------------------------------------
(* Time and failures                                                       *)

\* The lease of a run's payload runs out.
Expire(r) ==
  /\ r \notin due
  /\ due' = due \cup {r}
  /\ UNCHANGED <<execution, queue, active, req, unclaimed>>

\* The instance dies; its memory is gone, its connections break and Cloud Tasks
\* tries again.
Restart(w) ==
  /\ "restart" \in Faults
  /\ \E d \in Deliveries : req[d].at = w
  /\ queue' = [queue EXCEPT ![w] = << >>]
  /\ active' = [active EXCEPT ![w] = 0]
  /\ req' = [d \in Deliveries |-> IF req[d].at = w THEN Away("new") ELSE req[d]]
  /\ UNCHANGED <<execution, due, unclaimed>>

-----------------------------------------------------------------------------

Deliver(d, w) == Claim(d, w) \/ Duplicate(d) \/ SkipClaim(d, w)

\* The next step of the handler of a delivery.
Step(d) == Enqueue(d) \/ Reject(d) \/ Start(d) \/ End(d) \/ WriteOutcome(d) \/ Release(d)

Next == \/ \E d \in Deliveries : Step(d) \/ \E w \in Workers : Deliver(d, w)
        \/ \E r \in Runs : Expire(r)
        \/ \E w \in Workers : Restart(w)

Spec == Init /\ [][Next]_vars

\* The database answers or fails, and the timeout ends a scrape that does not end.
FairSpec == Spec /\ \A d \in Deliveries : WF_vars(Step(d))

-----------------------------------------------------------------------------
(* Properties                                                              *)

\* A task is live from its claim to the terminal hook.
Live(d) == req[d].pc \in {"claimed", "queued", "starting", "running", "ending"}

\* A queue holds the deliveries that wait at its worker, each of them once.
Waiting(w, q, reqs) ==
  /\ \A i \in 1..Len(q) : reqs[q[i]].pc = "queued" /\ reqs[q[i]].at = w
  /\ \A i, j \in 1..Len(q) : q[i] = q[j] => i = j

\* As long as nothing excuses it, the row of a live task is not up for a claim.
LeaseHeld ==
  \A d \in Deliveries :
    Live(d) /\ RunOf[d] \notin due \cup unclaimed =>
      execution[RunOf[d]].status \in {"accepted", "started"}

\* Two deliveries of one run are at work together, on any instances, only when the
\* lease has run out or a claim of the run was skipped because the database failed:
\* the terminal status that frees the row is the last thing an execution writes.
OneExecutionPerLease ==
  \A d, e \in Deliveries :
    d # e /\ RunOf[d] = RunOf[e] /\ Live(d) /\ Live(e) =>
      RunOf[d] \in due \cup unclaimed

\* Every delivery a worker takes in is answered or, when the worker dies, comes
\* again: no task is forgotten in the queue.
EveryRequestAnswered ==
  \A d \in Deliveries : req[d].at # "nowhere" ~> req[d].at = "nowhere"

\* A delivery is dismissed as a duplicate only while another delivery of the run
\* is live: Cloud Tasks will not send the task again.
DuplicatesHaveALiveTwin ==
  [][\A d \in Deliveries :
       req[d].pc = "new" /\ req'[d].pc = "answered" =>
         \E e \in Deliveries : RunOf[e] = RunOf[d] /\ Live(e)]_vars

=============================================================================
