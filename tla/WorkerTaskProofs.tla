-------------------------- MODULE WorkerTaskProofs --------------------------
(***************************************************************************)
(* Theorems about WorkerTask for any number of runs, deliveries and worker *)
(* instances, any limits and any of the failures.                          *)
(***************************************************************************)
EXTENDS WorkerTask, SequenceTheorems, FiniteSetTheorems, TLAPS

\* Every delivery that a worker handles knows its worker.
Placed ==
  \A d \in Deliveries : req[d].pc \notin {"new", "answered"} => req[d].at \in Workers

\* The inductive invariant behind OneExecutionPerLease.
IInv ==
  /\ TypeOK
  /\ Placed
  /\ \A w \in Workers : Waiting(w, queue[w], req)
  /\ LeaseHeld
  /\ OneExecutionPerLease

\* The tasks that occupy a slot of worker w when the handlers are reqs.
Busy(w, reqs) == {d \in Deliveries : reqs[d].at = w /\ reqs[d].pc \in InSlot}

\* Every task that waits at w is in q, its queue.
Listed(w, q, reqs) ==
  \A d \in Deliveries :
    reqs[d].pc = "queued" /\ reqs[d].at = w => \E i \in 1..Len(q) : q[i] = d

\* TaskRunner.active counts the tasks in the slots of w, on no path one too many or
\* too few, the limits hold, and no task waits beside a free slot or is forgotten.
SlotsOf(w) ==
  /\ IsFiniteSet(Busy(w, req)) /\ active[w] = Cardinality(Busy(w, req))
  /\ active[w] <= MaxConcurrent
  /\ Len(queue[w]) <= MaxQueue
  /\ queue[w] # << >> => active[w] = MaxConcurrent
  /\ Listed(w, queue[w], req)

\* The slots of every worker process are accounted for in every state.
SlotsAccounted == \A w \in Workers : SlotsOf(w)

-----------------------------------------------------------------------------
(* The queue and the pump                                                  *)

LEMMA AwayType == \A pc \in {"new", "answered"} : Away(pc) \in Handlers
  BY DEF Away, Handlers, Points, InSlot

LEMMA PumpedBounds ==
  ASSUME NEW q \in Seq(Deliveries), NEW busy \in Int
  PROVE  Pumped(q, busy) \in 0..Len(q)
  BY WorkerTaskAssumption DEF WorkerTaskAssumption, Pumped

\* The first n tasks of a queue.
FirstOf(q, n) == {q[i] : i \in 1..n}

\* The pump moves the first tasks of the queue into slots.
LEMMA PumpShape ==
  ASSUME queue \in [Workers -> Seq(Deliveries)], active \in [Workers -> Int],
         NEW w \in Workers, NEW reqs,
         NEW q \in Seq(Deliveries), NEW busy \in Int, Pump(w, reqs, q, busy)
  PROVE  /\ Pumped(q, busy) \in 0..Len(q)
         /\ queue'[w] \in Seq(Deliveries)
         /\ Len(queue'[w]) = Len(q) - Pumped(q, busy)
         /\ \A i \in 1..Len(queue'[w]) : queue'[w][i] = q[Pumped(q, busy) + i]
         /\ queue' = [queue EXCEPT ![w] = queue'[w]]
         /\ active' = [active EXCEPT ![w] = busy + Pumped(q, busy)]
         /\ req' = [d \in Deliveries |-> IF d \in FirstOf(q, Pumped(q, busy))
                                         THEN [reqs[d] EXCEPT !.pc = "starting"] ELSE reqs[d]]
  <1> DEFINE n == Pumped(q, busy)
             started == {q[i] : i \in 1..n}
             rest == SubSeq(q, n + 1, Len(q))
  <1>1. n \in 0..Len(q)
    BY PumpedBounds
  <1> HIDE DEF n
  <1>2. rest \in Seq(Deliveries) /\ Len(rest) = Len(q) - n
          /\ \A i \in 1..Len(rest) : rest[i] = q[n + i]
    <2>1. \A i \in n + 1..Len(q) : q[i] \in Deliveries
      BY <1>1
    <2>2. n + 1 \in Int /\ Len(q) \in Int
      BY <1>1
    <2>3. /\ rest \in Seq(Deliveries)
          /\ Len(rest) = IF n + 1 <= Len(q) THEN Len(q) - (n + 1) + 1 ELSE 0
          /\ \A i \in 1..Len(q) - (n + 1) + 1 : rest[i] = q[(n + 1) + i - 1]
      BY <2>1, <2>2, SubSeqProperties
    <2>4. Len(rest) = Len(q) - n
      BY <2>3, <1>1
    <2>5. ASSUME NEW i \in 1..Len(rest) PROVE rest[i] = q[n + i]
      <3> HIDE DEF rest
      <3>1. i \in 1..Len(q) - (n + 1) + 1 /\ (n + 1) + i - 1 = n + i
        BY <2>4, <1>1
      <3> QED
        BY <3>1, <2>3
    <2> QED
      BY <2>3, <2>4, <2>5
  <1> HIDE DEF rest
  <1>3. /\ queue' = [queue EXCEPT ![w] = rest]
        /\ active' = [active EXCEPT ![w] = busy + n]
        /\ req' = [d \in Deliveries |->
                     IF d \in started THEN [reqs[d] EXCEPT !.pc = "starting"] ELSE reqs[d]]
    BY DEF Pump, n, rest
  <1>4. queue'[w] = rest
    BY <1>3
  <1>5. req' = [d \in Deliveries |-> IF d \in FirstOf(q, n)
                                     THEN [reqs[d] EXCEPT !.pc = "starting"] ELSE reqs[d]]
    BY <1>3 DEF FirstOf
  <1> QED
    BY <1>1, <1>2, <1>3, <1>4, <1>5 DEF n

\* The pump takes tasks off the head of the queue, starts them and does nothing else.
LEMMA PumpEffect ==
  ASSUME queue \in [Workers -> Seq(Deliveries)], active \in [Workers -> Int],
         NEW w \in Workers, NEW reqs \in [Deliveries -> Handlers],
         NEW q \in Seq(Deliveries), NEW busy \in Int,
         Waiting(w, q, reqs), Pump(w, reqs, q, busy)
  PROVE  /\ queue' \in [Workers -> Seq(Deliveries)]
         /\ active' \in [Workers -> Int]
         /\ req' \in [Deliveries -> Handlers]
         /\ Waiting(w, queue'[w], req')
         /\ \A v \in Workers \ {w} : queue'[v] = queue[v]
         /\ \A d \in Deliveries :
              \/ req'[d] = reqs[d]
              \/ /\ reqs[d].pc = "queued" /\ reqs[d].at = w
                 /\ req'[d] = [reqs[d] EXCEPT !.pc = "starting"]
  <1> DEFINE n == Pumped(q, busy)
             started == {q[i] : i \in 1..n}
             rest == queue'[w]
  <1>1. n \in 0..Len(q)
    BY PumpShape
  <1>2. rest \in Seq(Deliveries) /\ Len(rest) = Len(q) - n
          /\ \A i \in 1..Len(rest) : rest[i] = q[n + i]
    BY PumpShape
  <1>3. /\ queue' = [queue EXCEPT ![w] = rest]
        /\ active' = [active EXCEPT ![w] = busy + n]
        /\ req' = [d \in Deliveries |->
                     IF d \in started THEN [reqs[d] EXCEPT !.pc = "starting"] ELSE reqs[d]]
    BY PumpShape DEF FirstOf
  <1> HIDE DEF n, rest
  <1>4. \A d \in started : reqs[d].pc = "queued" /\ reqs[d].at = w
    BY <1>1 DEF Waiting
  <1>5. \A h \in Handlers : [h EXCEPT !.pc = "starting"] \in Handlers
    BY DEF Handlers, Points, InSlot
  <1>6. req' \in [Deliveries -> Handlers]
    BY <1>3, <1>5
  <1>7. queue'[w] = rest
    BY <1>3
  <1>8. \A i \in 1..Len(rest) : rest[i] \in Deliveries /\ rest[i] \notin started
    <2> SUFFICES ASSUME NEW i \in 1..Len(rest), NEW j \in 1..n, rest[i] = q[j]
                 PROVE  FALSE
      BY <1>2
    <2>1. n + i \in 1..Len(q) /\ j \in 1..Len(q) /\ q[n + i] = q[j] /\ n + i # j
      BY <1>1, <1>2
    <2> QED
      BY <2>1 DEF Waiting
  <1>9. Waiting(w, rest, req')
    <2>1. ASSUME NEW i \in 1..Len(rest)
          PROVE  req'[rest[i]].pc = "queued" /\ req'[rest[i]].at = w
      <3>1. req'[rest[i]] = reqs[rest[i]] /\ rest[i] = q[n + i] /\ n + i \in 1..Len(q)
        BY <1>1, <1>2, <1>3, <1>8
      <3> QED
        BY <3>1 DEF Waiting
    <2>2. ASSUME NEW i \in 1..Len(rest), NEW j \in 1..Len(rest), rest[i] = rest[j]
          PROVE  i = j
      <3>1. n + i \in 1..Len(q) /\ n + j \in 1..Len(q) /\ q[n + i] = q[n + j]
        BY <1>1, <1>2, <2>2
      <3>2. n + i = n + j
        BY <3>1 DEF Waiting
      <3> QED
        BY <3>2, <1>1
    <2> QED
      BY <2>1, <2>2 DEF Waiting
  <1>10. /\ queue' \in [Workers -> Seq(Deliveries)]
         /\ active' \in [Workers -> Int]
         /\ \A v \in Workers \ {w} : queue'[v] = queue[v]
    BY <1>1, <1>2, <1>3
  <1>11. \A d \in Deliveries :
              \/ req'[d] = reqs[d]
              \/ /\ reqs[d].pc = "queued" /\ reqs[d].at = w
                 /\ req'[d] = [reqs[d] EXCEPT !.pc = "starting"]
    BY <1>3, <1>4
  <1> QED
    BY <1>6, <1>7, <1>9, <1>10, <1>11

\* Handlers that keep what is queued keep the queues.
LEMMA WaitingKept ==
  ASSUME NEW w \in Workers, NEW q \in Seq(Deliveries),
         NEW old, NEW new, Waiting(w, q, old),
         \A d \in Deliveries : old[d].pc = "queued" /\ old[d].at = w => new[d] = old[d]
  PROVE  Waiting(w, q, new)
  BY DEF Waiting

\* A step of a handler that does not wait in a queue keeps the queues.
LEMMA QueuesKept ==
  ASSUME TypeOK, \A w \in Workers : Waiting(w, queue[w], req), queue' = queue,
         \A d \in Deliveries : req[d].pc = "queued" => req'[d] = req[d]
  PROVE  \A w \in Workers : Waiting(w, queue'[w], req')
  <1> SUFFICES ASSUME NEW w \in Workers PROVE Waiting(w, queue[w], req')
    OBVIOUS
  <1>1. queue[w] \in Seq(Deliveries)
    BY DEF TypeOK
  <1> QED
    BY <1>1 DEF Waiting

\* A task that joins the end of a queue waits there like the others.
LEMMA JoinedWaits ==
  ASSUME NEW w \in Workers, NEW d \in Deliveries,
         NEW old \in [Deliveries -> Handlers], NEW new \in [Deliveries -> Handlers],
         NEW s \in Seq(Deliveries), NEW q \in Seq(Deliveries),
         Len(q) = Len(s) + 1, q[Len(q)] = d, \A i \in 1..Len(s) : q[i] = s[i],
         Waiting(w, s, old), old[d].pc # "queued",
         new[d].pc = "queued", new[d].at = w, \A e \in Deliveries \ {d} : new[e] = old[e]
  PROVE  Waiting(w, q, new)
  <1>1. \A i \in 1..Len(s) :
          s[i] \in Deliveries \ {d} /\ new[s[i]] = old[s[i]]
    BY DEF Waiting
  <1>2. \A i \in 1..Len(q) : i \in 1..Len(s) \/ i = Len(q)
    OBVIOUS
  <1>3. ASSUME NEW i \in 1..Len(q)
        PROVE  new[q[i]].pc = "queued" /\ new[q[i]].at = w
    <2>1. CASE i \in 1..Len(s)
      <3>1. old[s[i]].pc = "queued" /\ old[s[i]].at = w
        BY <2>1 DEF Waiting
      <3>2. q[i] = s[i] /\ new[s[i]] = old[s[i]]
        BY <2>1, <1>1
      <3> QED
        BY <3>1, <3>2
    <2>2. CASE i = Len(q)
      BY <2>2
    <2> QED
      BY <2>1, <2>2, <1>2
  <1>4. ASSUME NEW i \in 1..Len(q), NEW j \in 1..Len(q), q[i] = q[j]
        PROVE  i = j
    <2>1. CASE i \in 1..Len(s) /\ j \in 1..Len(s)
      BY <2>1, <1>4 DEF Waiting
    <2>2. CASE i = Len(q) /\ j \in 1..Len(s)
      BY <2>2, <1>4, <1>1
    <2>3. CASE i \in 1..Len(s) /\ j = Len(q)
      BY <2>3, <1>4, <1>1
    <2> QED
      BY <2>1, <2>2, <2>3, <1>2
  <1> QED
    BY <1>3, <1>4 DEF Waiting

-----------------------------------------------------------------------------
(* Leases                                                                  *)

\* Where no row changes and no task comes to life, leases stay held.
LEMMA LeasesKept ==
  ASSUME LeaseHeld, OneExecutionPerLease, execution' = execution,
         due \subseteq due', unclaimed \subseteq unclaimed',
         \A d \in Deliveries : Live(d)' => Live(d)
  PROVE  LeaseHeld' /\ OneExecutionPerLease'
  BY DEF LeaseHeld, OneExecutionPerLease

LEMMA InitIInv == Init => IInv
  <1> SUFFICES ASSUME Init PROVE IInv
    OBVIOUS
  <1>1. << >> \in Seq(Deliveries)
    OBVIOUS
  <1>2. TypeOK
    BY <1>1, AwayType DEF Init, TypeOK, Executions
  <1>3. \A w \in Workers : Waiting(w, queue[w], req)
    BY DEF Init, Waiting
  <1>4. LeaseHeld /\ OneExecutionPerLease
    BY DEF Init, LeaseHeld, OneExecutionPerLease, Live, Away
  <1>5. Placed
    BY DEF Init, Placed, Away
  <1> QED
    BY <1>2, <1>3, <1>4, <1>5 DEF IInv

\* A claim writes one row.
LEMMA ClaimedType ==
  ASSUME TypeOK, NEW r \in Runs
  PROVE  /\ Claimed(r) \in [Runs -> Executions]
         /\ Claimed(r)[r].status = "accepted"
         /\ \A s \in Runs \ {r} : Claimed(r)[s] = execution[s]
  <1>1. [status |-> "accepted", lease |-> TRUE] \in Executions
    BY DEF Executions
  <1> QED
    BY <1>1 DEF TypeOK, Claimed

\* Only an unclaimable row has a live task that nothing excuses.
LEMMA ClaimStep ==
  ASSUME IInv, NEW d \in Deliveries, NEW w \in Workers, Claim(d, w)
  PROVE  IInv'
  <1> USE WorkerTaskAssumption DEF WorkerTaskAssumption
  <1>1. TypeOK'
    <2>1. [req[d] EXCEPT !.pc = "claimed", !.at = w] \in Handlers
      BY DEF IInv, TypeOK, Handlers, Points
    <2>2. req' \in [Deliveries -> Handlers]
      BY <2>1 DEF Claim, IInv, TypeOK
    <2>3. execution' \in [Runs -> Executions]
      BY ClaimedType DEF Claim, IInv
    <2> QED
      BY <2>2, <2>3 DEF Claim, IInv, TypeOK
  <1>2. \A v \in Workers : Waiting(v, queue'[v], req')
    BY QueuesKept DEF IInv, Claim, TypeOK
  <1>3. req'[d].pc = "claimed" /\ \A e \in Deliveries \ {d} : req'[e] = req[e]
    BY DEF Claim, IInv, TypeOK, Handlers
  <1>4. \A e \in Deliveries \ {d} : RunOf[e] = RunOf[d] /\ Live(e) =>
          RunOf[d] \in due \cup unclaimed
    BY DEF Claim, Claimable, IInv, LeaseHeld, Outcomes
  <1>5. execution'[RunOf[d]].status = "accepted"
          /\ \A r \in Runs \ {RunOf[d]} : execution'[r] = execution[r]
    BY ClaimedType DEF Claim, IInv
  <1>6. due' = due /\ unclaimed' = unclaimed
    BY DEF Claim
  <1>7. \A e \in Deliveries \ {d} : Live(e)' <=> Live(e)
    BY <1>3 DEF Live
  <1>8. LeaseHeld'
    BY <1>3, <1>5, <1>6, <1>7 DEF IInv, LeaseHeld
  <1>9. OneExecutionPerLease'
    BY <1>4, <1>6, <1>7 DEF IInv, OneExecutionPerLease
  <1>10. req'[d].at = w
    BY DEF Claim, IInv, TypeOK, Handlers
  <1>11. Placed'
    BY <1>3, <1>10 DEF IInv, Placed
  <1> QED
    BY <1>1, <1>2, <1>8, <1>9, <1>11 DEF IInv

LEMMA DuplicateStep ==
  ASSUME IInv, NEW d \in Deliveries, Duplicate(d)
  PROVE  IInv'
  <1>1. req' \in [Deliveries -> Handlers]
    BY AwayType DEF Duplicate, IInv, TypeOK
  <1>2. \A e \in Deliveries \ {d} : req'[e] = req[e]
    BY DEF Duplicate, IInv, TypeOK
  <1>3. req'[d].pc = "answered"
    BY DEF Duplicate, IInv, TypeOK, Away
  <1>4. \A v \in Workers : Waiting(v, queue'[v], req')
    BY <1>2, QueuesKept DEF IInv, Duplicate
  <1>5. LeaseHeld' /\ OneExecutionPerLease'
    BY <1>2, <1>3, LeasesKept DEF IInv, Duplicate, Live
  <1>6. Placed'
    BY <1>2, <1>3 DEF IInv, Placed
  <1> QED
    BY <1>1, <1>4, <1>5, <1>6 DEF IInv, TypeOK, Duplicate

LEMMA SkipClaimStep ==
  ASSUME IInv, NEW d \in Deliveries, NEW w \in Workers, SkipClaim(d, w)
  PROVE  IInv'
  <1> USE WorkerTaskAssumption DEF WorkerTaskAssumption
  <1>1. [req[d] EXCEPT !.pc = "claimed", !.at = w] \in Handlers
    BY DEF IInv, TypeOK, Handlers, Points
  <1>2. req' \in [Deliveries -> Handlers]
    BY <1>1 DEF SkipClaim, IInv, TypeOK
  <1>3. \A e \in Deliveries \ {d} : req'[e] = req[e]
    BY DEF SkipClaim, IInv, TypeOK
  <1>4. \A v \in Workers : Waiting(v, queue'[v], req')
    BY <1>3, QueuesKept DEF IInv, SkipClaim
  <1>5. RunOf[d] \in unclaimed' /\ unclaimed \subseteq unclaimed' /\ due' = due
    BY DEF SkipClaim
  <1>5a. /\ execution' \in [Runs -> Executions]
         /\ \A r \in Runs \ {RunOf[d]} : execution'[r] = execution[r]
    <2>1. CASE UNCHANGED execution
      BY <2>1 DEF IInv, TypeOK
    <2>2. CASE execution' = Claimed(RunOf[d])
      BY <2>2, ClaimedType DEF IInv
    <2> QED
      BY <2>1, <2>2 DEF SkipClaim
  <1>6. \A e \in Deliveries \ {d} : Live(e)' <=> Live(e)
    BY <1>3 DEF Live
  <1>7. LeaseHeld' /\ OneExecutionPerLease'
    BY <1>5, <1>5a, <1>6 DEF IInv, LeaseHeld, OneExecutionPerLease
  <1>8. TypeOK'
    BY <1>2, <1>5a DEF IInv, TypeOK, SkipClaim
  <1>9. req'[d].at = w
    BY DEF SkipClaim, IInv, TypeOK, Handlers
  <1>10. Placed'
    BY <1>3, <1>9 DEF IInv, Placed
  <1> QED
    BY <1>4, <1>7, <1>8, <1>10 DEF IInv

-----------------------------------------------------------------------------
(* Enqueue and release                                                     *)

\* A step that pumps one queue, and before it moved one delivery of that worker that
\* did not wait, without bringing it to life.
LEMMA PumpStep ==
  ASSUME IInv, NEW d \in Deliveries, NEW w \in Workers, req[d].at = w,
         req[d].pc # "queued",
         NEW reqs \in [Deliveries -> Handlers],
         \A e \in Deliveries \ {d} : reqs[e] = req[e],
         reqs[d].pc \in {"queued", "answered"},
         reqs[d].pc = "queued" => Live(d) /\ reqs[d].at = w,
         NEW q \in Seq(Deliveries), NEW busy \in Int,
         Waiting(w, q, reqs), Pump(w, reqs, q, busy),
         UNCHANGED <<execution, due, unclaimed>>
  PROVE  IInv'
  <1>1. queue \in [Workers -> Seq(Deliveries)] /\ active \in [Workers -> Int]
    BY DEF IInv, TypeOK
  <1>2. /\ queue' \in [Workers -> Seq(Deliveries)]
        /\ active' \in [Workers -> Int]
        /\ req' \in [Deliveries -> Handlers]
        /\ Waiting(w, queue'[w], req')
        /\ \A v \in Workers \ {w} : queue'[v] = queue[v]
        /\ \A e \in Deliveries :
             \/ req'[e] = reqs[e]
             \/ /\ reqs[e].pc = "queued" /\ reqs[e].at = w
                /\ req'[e] = [reqs[e] EXCEPT !.pc = "starting"]
    BY <1>1, PumpEffect
  <1>3. ASSUME NEW v \in Workers \ {w} PROVE Waiting(v, queue'[v], req')
    <2>1. \A i \in 1..Len(queue[v]) : queue[v][i] \in Deliveries
      BY <1>1
    <2>2. \A e \in Deliveries : req[e].pc = "queued" /\ req[e].at = v => req'[e] = req[e]
      BY <1>2
    <2>3. Waiting(v, queue[v], req)
      BY DEF IInv
    <2>4. \A i \in 1..Len(queue[v]) : req'[queue[v][i]] = req[queue[v][i]]
      BY <2>1, <2>2, <2>3 DEF Waiting
    <2>5. queue'[v] = queue[v]
      BY <1>2
    <2> QED
      BY <2>3, <2>4, <2>5 DEF Waiting
  <1>4. \A e \in Deliveries : Live(e)' => Live(e)
    <2> SUFFICES ASSUME NEW e \in Deliveries, Live(e)' PROVE Live(e)
      OBVIOUS
    <2>1. CASE e = d
      BY <1>2, <2>1 DEF Live
    <2>2. CASE e # d
      BY <1>2, <2>2 DEF Live
    <2> QED
      BY <2>1, <2>2
  <1>5. LeaseHeld' /\ OneExecutionPerLease'
    BY <1>4, LeasesKept DEF IInv
  <1>6. TypeOK'
    BY <1>2 DEF IInv, TypeOK
  <1>7. Placed'
    <2> SUFFICES ASSUME NEW e \in Deliveries, req'[e].pc \notin {"new", "answered"}
                 PROVE  req'[e].at \in Workers
      BY DEF Placed
    <2>0. reqs[e].pc \notin {"new", "answered"}
      BY <1>2
    <2>1. reqs[e].at \in Workers
      <3>1. CASE e = d
        BY <2>0, <3>1
      <3>2. CASE e # d
        BY <2>0, <3>2 DEF IInv, Placed
      <3> QED
        BY <3>1, <3>2
    <2>2. reqs[e] \in Handlers
      OBVIOUS
    <2>3. req'[e].at = reqs[e].at
      BY <1>2, <2>2 DEF Handlers
    <2> QED
      BY <1>2, <2>1, <2>3
  <1> QED
    BY <1>2, <1>3, <1>5, <1>6, <1>7 DEF IInv

LEMMA EnqueueStep ==
  ASSUME IInv, NEW d \in Deliveries, Enqueue(d)
  PROVE  IInv'
  <1> DEFINE w == req[d].at
             reqs == [req EXCEPT ![d].pc = "queued"]
             q == Append(queue[w], d)
  <1>0. req[d].at \in Workers
    BY DEF Enqueue, IInv, Placed
  <1>1. /\ req[d].pc = "claimed"
        /\ Pump(w, reqs, q, active[w])
        /\ UNCHANGED <<execution, due, unclaimed>>
    BY DEF Enqueue
  <1>2. queue[w] \in Seq(Deliveries) /\ active[w] \in Int
    BY <1>0 DEF IInv, TypeOK
  <1>3. q \in Seq(Deliveries) /\ Len(q) = Len(queue[w]) + 1 /\ q[Len(q)] = d
          /\ \A i \in 1..Len(queue[w]) : q[i] = queue[w][i]
    BY <1>2
  <1>4. [req[d] EXCEPT !.pc = "queued"] \in Handlers
    BY DEF IInv, TypeOK, Handlers, Points
  <1>5. reqs \in [Deliveries -> Handlers]
    BY <1>4 DEF IInv, TypeOK
  <1>6. reqs[d].pc = "queued" /\ reqs[d].at = w
          /\ \A e \in Deliveries \ {d} : reqs[e] = req[e]
    BY DEF IInv, TypeOK, Handlers
  <1> HIDE DEF reqs, q
  <1>7. Waiting(w, q, reqs)
    <2>1. Waiting(w, queue[w], req)
      BY <1>0 DEF IInv
    <2>2. req \in [Deliveries -> Handlers] /\ req[d].pc # "queued"
      BY <1>1 DEF IInv, TypeOK
    <2> QED
      BY <1>0, <1>2, <1>3, <1>5, <1>6, <2>1, <2>2, JoinedWaits
  <1>8. Live(d) /\ w \in Workers
    BY <1>0, <1>1 DEF Live
  <1> HIDE DEF w
  <1> QED
    BY <1>1, <1>2, <1>3, <1>5, <1>6, <1>7, <1>8, PumpStep DEF w

LEMMA ReleaseStep ==
  ASSUME IInv, NEW d \in Deliveries, Release(d)
  PROVE  IInv'
  <1> DEFINE w == req[d].at
             reqs == Replied(d)
  <1>0. req[d].at \in Workers
    BY DEF Release, IInv, Placed
  <1>1. /\ req[d].pc = "releasing"
        /\ Pump(w, reqs, queue[w], active[w] - 1)
        /\ UNCHANGED <<execution, due, unclaimed>>
    BY DEF Release
  <1>2. queue[w] \in Seq(Deliveries) /\ active[w] - 1 \in Int
    BY <1>0 DEF IInv, TypeOK
  <1>3. reqs \in [Deliveries -> Handlers]
    BY AwayType DEF Replied, IInv, TypeOK
  <1>4. reqs[d].pc = "answered" /\ \A e \in Deliveries \ {d} : reqs[e] = req[e]
    BY DEF Replied, IInv, TypeOK, Away
  <1> HIDE DEF reqs
  <1>5. Waiting(w, queue[w], reqs)
    <2>1. Waiting(w, queue[w], req)
      BY <1>0 DEF IInv
    <2>2. \A i \in 1..Len(queue[w]) : reqs[queue[w][i]] = req[queue[w][i]]
      BY <1>1, <1>2, <1>4, <2>1 DEF Waiting
    <2> QED
      BY <2>1, <2>2 DEF Waiting
  <1> QED
    BY <1>0, <1>1, <1>2, <1>3, <1>4, <1>5, PumpStep

LEMMA RejectStep ==
  ASSUME IInv, NEW d \in Deliveries, Reject(d)
  PROVE  IInv'
  <1>1. req' \in [Deliveries -> Handlers]
    BY AwayType DEF Reject, IInv, TypeOK
  <1>2. \A e \in Deliveries \ {d} : req'[e] = req[e]
    BY DEF Reject, IInv, TypeOK
  <1>3. req[d].pc = "claimed" /\ req'[d].pc = "new"
    BY DEF Reject, IInv, TypeOK, Away
  <1>4. \A v \in Workers : Waiting(v, queue'[v], req')
    BY <1>2, <1>3, QueuesKept DEF IInv, Reject
  <1>5. LeaseHeld' /\ OneExecutionPerLease'
    BY <1>2, <1>3, LeasesKept DEF IInv, Reject, Live
  <1>6. Placed'
    BY <1>2, <1>3 DEF IInv, Placed
  <1> QED
    BY <1>1, <1>4, <1>5, <1>6 DEF IInv, TypeOK, Reject

-----------------------------------------------------------------------------
(* A task in its slot                                                      *)

\* What a hook leaves in the row of run r, whether or not it gets through.
LEMMA PersistEffect ==
  ASSUME TypeOK, NEW r \in Runs, NEW status, NEW lease,
         [status |-> status, lease |-> lease] \in Executions,
         Persist(r, status, lease)
  PROVE  /\ execution' \in [Runs -> Executions]
         /\ execution'[r].status \in {execution[r].status, status}
         /\ \A s \in Runs \ {r} : execution'[s] = execution[s]
  <1>1. CASE UNCHANGED execution
    BY <1>1 DEF TypeOK
  <1>2. CASE execution' = [execution EXCEPT ![r] = [status |-> status, lease |-> lease]]
    <2>2. execution'[r] = [status |-> status, lease |-> lease]
            /\ \A s \in Runs \ {r} : execution'[s] = execution[s]
      BY <1>2 DEF TypeOK
    <2>3. execution' \in [Runs -> Executions]
      BY <1>2 DEF TypeOK
    <2> QED
      BY <2>2, <2>3
  <1> QED
    BY <1>1, <1>2 DEF Persist

\* A handler that goes from one point in its slot to the next stays at its worker.
LEMMA SlotStep ==
  ASSUME IInv, NEW d \in Deliveries, NEW pc \in InSlot,
         NEW outcome \in Outcomes \cup {"none"},
         req[d].pc \in {"starting", "running", "ending"},
         req' = [req EXCEPT ![d] = [@ EXCEPT !.pc = pc, !.outcome = outcome]],
         UNCHANGED <<due, queue, unclaimed, active>>
  PROVE  /\ req' \in [Deliveries -> Handlers]
         /\ req'[d].pc = pc
         /\ \A e \in Deliveries \ {d} : req'[e] = req[e]
         /\ \A v \in Workers : Waiting(v, queue'[v], req')
         /\ Placed'
  <1>1. [req[d] EXCEPT !.pc = pc, !.outcome = outcome] \in Handlers
    BY DEF IInv, TypeOK, Handlers, Points
  <1>2. req' \in [Deliveries -> Handlers]
    BY <1>1 DEF IInv, TypeOK
  <1>3. /\ req'[d].pc = pc /\ req'[d].at = req[d].at
        /\ \A e \in Deliveries \ {d} : req'[e] = req[e]
    BY DEF IInv, TypeOK, Handlers
  <1>4. \A v \in Workers : Waiting(v, queue'[v], req')
    BY <1>3, QueuesKept DEF IInv
  <1>5. Placed'
    BY <1>3 DEF IInv, Placed
  <1> QED
    BY <1>2, <1>3, <1>4, <1>5

LEMMA StartStep ==
  ASSUME IInv, NEW d \in Deliveries, Start(d)
  PROVE  IInv'
  <1> USE WorkerTaskAssumption DEF WorkerTaskAssumption
  <1>1. req[d] \in Handlers /\ RunOf[d] \in Runs
    BY DEF IInv, TypeOK
  <1>2. [req[d] EXCEPT !.pc = "running"]
          = [req[d] EXCEPT !.pc = "running", !.outcome = req[d].outcome]
    BY <1>1 DEF Handlers
  <1>3. req' = [req EXCEPT ![d] = [@ EXCEPT !.pc = "running", !.outcome = req[d].outcome]]
    BY <1>2 DEF Start, IInv, TypeOK
  <1>4. req[d].outcome \in Outcomes \cup {"none"} /\ "running" \in InSlot
    BY <1>1 DEF Handlers, InSlot
  <1>5. /\ req' \in [Deliveries -> Handlers]
        /\ req'[d].pc = "running"
        /\ \A e \in Deliveries \ {d} : req'[e] = req[e]
        /\ \A v \in Workers : Waiting(v, queue'[v], req')
        /\ Placed'
    BY <1>3, <1>4, SlotStep DEF Start
  <1>6. /\ execution' \in [Runs -> Executions]
        /\ execution'[RunOf[d]].status \in {execution[RunOf[d]].status, "started"}
        /\ \A s \in Runs \ {RunOf[d]} : execution'[s] = execution[s]
    BY <1>1, PersistEffect DEF Start, IInv, Executions
  <1>7. \A e \in Deliveries : Live(e)' <=> Live(e)
    BY <1>5 DEF Live, Start
  <1>8. LeaseHeld'
    BY <1>6, <1>7 DEF IInv, LeaseHeld, Start
  <1>9. OneExecutionPerLease'
    BY <1>7 DEF IInv, OneExecutionPerLease, Start
  <1> QED
    BY <1>5, <1>6, <1>8, <1>9 DEF IInv, TypeOK, Start

LEMMA EndStep ==
  ASSUME IInv, NEW d \in Deliveries, End(d)
  PROVE  IInv'
  <1>1. PICK outcome \in Outcomes :
          req' = [req EXCEPT ![d].pc = "ending", ![d].outcome = outcome]
    BY DEF End
  <1>2. req' = [req EXCEPT ![d] = [@ EXCEPT !.pc = "ending", !.outcome = outcome]]
    BY <1>1 DEF IInv, TypeOK
  <1>3. /\ req' \in [Deliveries -> Handlers]
        /\ req'[d].pc = "ending"
        /\ \A e \in Deliveries \ {d} : req'[e] = req[e]
        /\ \A v \in Workers : Waiting(v, queue'[v], req')
        /\ Placed'
    BY <1>2, SlotStep DEF End, InSlot
  <1>4. LeaseHeld' /\ OneExecutionPerLease'
    BY <1>3, LeasesKept DEF IInv, End, Live
  <1> QED
    BY <1>3, <1>4 DEF IInv, TypeOK, End

\* The row becomes free, and the execution that freed it is no longer live.
LEMMA WriteOutcomeStep ==
  ASSUME IInv, NEW d \in Deliveries, WriteOutcome(d)
  PROVE  IInv'
  <1> USE WorkerTaskAssumption DEF WorkerTaskAssumption
  <1>1. req[d] \in Handlers /\ RunOf[d] \in Runs
    BY DEF IInv, TypeOK
  <1>2. req' = [req EXCEPT ![d] = [@ EXCEPT !.pc = "releasing", !.outcome = "none"]]
    BY DEF WriteOutcome, IInv, TypeOK
  <1>3. /\ req' \in [Deliveries -> Handlers]
        /\ req'[d].pc = "releasing"
        /\ \A e \in Deliveries \ {d} : req'[e] = req[e]
        /\ \A v \in Workers : Waiting(v, queue'[v], req')
        /\ Placed'
    BY <1>2, SlotStep DEF WriteOutcome, InSlot
  <1>4. Persist(RunOf[d], req[d].outcome, FALSE)
    BY DEF WriteOutcome
  <1>5. /\ execution' \in [Runs -> Executions]
        /\ \A s \in Runs \ {RunOf[d]} : execution'[s] = execution[s]
    <2>1. CASE req[d].outcome \in Outcomes
      BY <1>1, <1>4, <2>1, PersistEffect DEF IInv, Executions
    <2>2. CASE req[d].outcome = "none"
      BY <1>1, <1>4, <2>2, PersistEffect DEF IInv, Executions
    <2> QED
      BY <1>1, <2>1, <2>2 DEF Handlers
  <1>6. Live(d) /\ ~Live(d)' /\ \A e \in Deliveries \ {d} : Live(e)' <=> Live(e)
    BY <1>3 DEF Live, WriteOutcome
  <1>7. due' = due /\ unclaimed' = unclaimed
    BY DEF WriteOutcome
  <1>8. \A e \in Deliveries \ {d} : Live(e) /\ RunOf[e] = RunOf[d] =>
          RunOf[d] \in due \cup unclaimed
    BY <1>6 DEF IInv, OneExecutionPerLease
  <1>9. LeaseHeld'
    BY <1>5, <1>6, <1>7, <1>8 DEF IInv, LeaseHeld
  <1>10. OneExecutionPerLease'
    BY <1>6, <1>7 DEF IInv, OneExecutionPerLease
  <1> QED
    BY <1>3, <1>5, <1>9, <1>10 DEF IInv, TypeOK, WriteOutcome

-----------------------------------------------------------------------------
(* Time and failures                                                       *)

LEMMA ExpireStep ==
  ASSUME IInv, NEW r \in Runs, Expire(r)
  PROVE  IInv'
  <1>1. \A e \in Deliveries : Live(e)' => Live(e)
    BY DEF Expire, Live
  <1>2. LeaseHeld' /\ OneExecutionPerLease'
    BY <1>1, LeasesKept DEF IInv, Expire
  <1>3. \A v \in Workers : Waiting(v, queue'[v], req')
    BY DEF IInv, Expire, Waiting
  <1> QED
    BY <1>2, <1>3 DEF IInv, TypeOK, Expire, Placed

LEMMA RestartStep ==
  ASSUME IInv, NEW w \in Workers, Restart(w)
  PROVE  IInv'
  <1>1. \A e \in Deliveries :
          req'[e] = IF req[e].at = w THEN Away("new") ELSE req[e]
    BY DEF Restart
  <1>2. req' \in [Deliveries -> Handlers]
    BY AwayType DEF Restart, IInv, TypeOK
  <1>3. /\ queue \in [Workers -> Seq(Deliveries)] /\ << >> \in Seq(Deliveries)
        /\ queue' = [queue EXCEPT ![w] = << >>] /\ active' = [active EXCEPT ![w] = 0]
    BY DEF Restart, IInv, TypeOK
  <1>4. TypeOK'
    BY <1>2, <1>3 DEF Restart, IInv, TypeOK
  <1>5. ASSUME NEW v \in Workers PROVE Waiting(v, queue'[v], req')
    <2>1. CASE v = w
      BY <1>3, <2>1 DEF Waiting
    <2>2. CASE v # w
      <3>1. queue'[v] = queue[v] /\ Waiting(v, queue[v], req)
              /\ \A i \in 1..Len(queue[v]) : queue[v][i] \in Deliveries
        BY <1>3, <2>2 DEF IInv
      <3>2. \A i \in 1..Len(queue[v]) : req'[queue[v][i]] = req[queue[v][i]]
        BY <1>1, <2>2, <3>1 DEF Waiting
      <3> QED
        BY <3>1, <3>2 DEF Waiting
    <2> QED
      BY <2>1, <2>2
  <1>6. LeaseHeld' /\ OneExecutionPerLease'
    BY <1>1, LeasesKept DEF IInv, Restart, Live, Away
  <1>7. Placed'
    BY <1>1 DEF IInv, Placed, Away
  <1> QED
    BY <1>4, <1>5, <1>6, <1>7 DEF IInv

-----------------------------------------------------------------------------
(* Slots                                                                   *)

\* A queue that holds every task once starts as many tasks as it loses places.
LEMMA FirstOfCardinality ==
  ASSUME NEW q \in Seq(Deliveries), NEW n \in 0..Len(q),
         \A i, j \in 1..Len(q) : q[i] = q[j] => i = j
  PROVE  IsFiniteSet(FirstOf(q, n)) /\ Cardinality(FirstOf(q, n)) = n
  <1> DEFINE f == [i \in 1..n |-> q[i]]
  <1>1. IsFiniteSet(1..n) /\ Cardinality(1..n) = n
    <2>1. n \in Int /\ 1 \in Int
      OBVIOUS
    <2> QED
      BY <2>1, FS_Interval
  <1>2. f \in Surjection(1..n, FirstOf(q, n))
    BY DEF Surjection, FirstOf
  <1>3. f \in Injection(1..n, FirstOf(q, n))
    BY DEF Injection, IsInjective, FirstOf
  <1>4. IsFiniteSet(FirstOf(q, n))
    BY <1>1, <1>2, FS_Surjection
  <1>5. Cardinality(FirstOf(q, n)) = Cardinality(1..n) <=> f \in Injection(1..n, FirstOf(q, n))
    BY <1>1, <1>2, FS_Surjection
  <1> QED
    BY <1>1, <1>3, <1>4, <1>5

\* The pump fills slots up to the limit, and stops short of it only when nothing waits.
LEMMA PumpedFills ==
  ASSUME NEW q \in Seq(Deliveries), NEW busy \in Int, busy <= MaxConcurrent
  PROVE  /\ Pumped(q, busy) \in 0..Len(q)
         /\ busy + Pumped(q, busy) <= MaxConcurrent
         /\ Pumped(q, busy) # Len(q) => busy + Pumped(q, busy) = MaxConcurrent
  BY WorkerTaskAssumption DEF WorkerTaskAssumption, Pumped

\* The slots of a worker are accounted for after its queue was pumped.
LEMMA PumpSlots ==
  ASSUME TypeOK, NEW w \in Workers, NEW reqs \in [Deliveries -> Handlers],
         NEW q \in Seq(Deliveries), NEW busy \in Int,
         Waiting(w, q, reqs), Listed(w, q, reqs), Pump(w, reqs, q, busy),
         IsFiniteSet(Busy(w, reqs)), busy = Cardinality(Busy(w, reqs)),
         busy <= MaxConcurrent, Len(q) <= MaxQueue
  PROVE  SlotsOf(w)'
  <1> DEFINE n == Pumped(q, busy)
             rest == queue'[w]
  <1>1. /\ n \in 0..Len(q) /\ busy + n <= MaxConcurrent
        /\ n # Len(q) => busy + n = MaxConcurrent
    BY PumpedFills
  <1>2. /\ rest \in Seq(Deliveries) /\ Len(rest) = Len(q) - n
        /\ \A i \in 1..Len(rest) : rest[i] = q[n + i]
    BY PumpShape DEF TypeOK
  <1>3. /\ active' = [active EXCEPT ![w] = busy + n]
        /\ req' = [d \in Deliveries |-> IF d \in FirstOf(q, n)
                                        THEN [reqs[d] EXCEPT !.pc = "starting"] ELSE reqs[d]]
    BY PumpShape DEF TypeOK
  <1> HIDE DEF n, rest
  <1>4. active'[w] = busy + n
    BY <1>3 DEF TypeOK
  <1>5. \A d \in FirstOf(q, n) : d \in Deliveries /\ reqs[d].pc = "queued" /\ reqs[d].at = w
    BY <1>1 DEF Waiting, FirstOf
  <1>6. \A d \in Deliveries : d \in FirstOf(q, n) => req'[d].pc = "starting" /\ req'[d].at = w
    BY <1>3, <1>5 DEF Handlers
  <1>7. \A d \in Deliveries : d \notin FirstOf(q, n) => req'[d] = reqs[d]
    BY <1>3
  <1>8. Busy(w, req') = Busy(w, reqs) \cup FirstOf(q, n)
    BY <1>5, <1>6, <1>7 DEF Busy, InSlot
  <1>9. Busy(w, reqs) \cap FirstOf(q, n) = {}
    BY <1>5 DEF Busy, InSlot
  <1>10. IsFiniteSet(FirstOf(q, n)) /\ Cardinality(FirstOf(q, n)) = n
    BY <1>1, FirstOfCardinality DEF Waiting
  <1>11. IsFiniteSet(Busy(w, req')) /\ active'[w] = Cardinality(Busy(w, req'))
    <2>1. /\ IsFiniteSet(Busy(w, reqs) \cup FirstOf(q, n))
          /\ Cardinality(Busy(w, reqs) \cup FirstOf(q, n))
               = Cardinality(Busy(w, reqs)) + Cardinality(FirstOf(q, n))
                   - Cardinality(Busy(w, reqs) \cap FirstOf(q, n))
      BY <1>10, FS_Union
    <2>2. Cardinality(Busy(w, reqs) \cap FirstOf(q, n)) = 0
      BY <1>9, FS_EmptySet
    <2> QED
      BY <1>1, <1>4, <1>8, <1>10, <2>1, <2>2
  <1>12. rest # << >> => n # Len(q)
    BY <1>1, <1>2
  <1>13. Listed(w, rest, req')
    <2> SUFFICES ASSUME NEW d \in Deliveries, req'[d].pc = "queued", req'[d].at = w
                 PROVE  \E i \in 1..Len(rest) : rest[i] = d
      BY DEF Listed
    <2>1. d \notin FirstOf(q, n) /\ req'[d] = reqs[d]
      BY <1>6, <1>7
    <2>2. PICK i \in 1..Len(q) : q[i] = d
      BY <2>1 DEF Listed
    <2>3. i \notin 1..n
      BY <2>1, <2>2 DEF FirstOf
    <2>4. i - n \in 1..Len(rest) /\ n + (i - n) = i
      BY <1>1, <1>2, <2>3
    <2> QED
      BY <1>2, <2>2, <2>4
  <1>14. Len(rest) <= MaxQueue
    BY <1>1, <1>2, WorkerTaskAssumption DEF WorkerTaskAssumption
  <1>15. active'[w] <= MaxConcurrent /\ (rest # << >> => active'[w] = MaxConcurrent)
    BY <1>1, <1>4, <1>12
  <1> QED
    BY <1>11, <1>13, <1>14, <1>15 DEF SlotsOf, rest

\* A worker none of whose tasks takes or leaves a slot or comes to wait.
LEMMA SlotsKept ==
  ASSUME NEW w \in Workers, SlotsOf(w), queue'[w] = queue[w], active'[w] = active[w],
         \A d \in Deliveries : (req'[d].at = w /\ req'[d].pc \in InSlot)
                                 <=> (req[d].at = w /\ req[d].pc \in InSlot),
         \A d \in Deliveries : req'[d].at = w /\ req'[d].pc = "queued"
                                 => req[d].at = w /\ req[d].pc = "queued"
  PROVE  SlotsOf(w)'
  <1>1. Busy(w, req') = Busy(w, req)
    BY DEF Busy
  <1>2. Listed(w, queue'[w], req')
    BY DEF SlotsOf, Listed
  <1> QED
    BY <1>1, <1>2 DEF SlotsOf

\* A step of one handler that neither waits nor holds a slot, or stays in its slot.
LEMMA QuietStep ==
  ASSUME SlotsAccounted, UNCHANGED <<queue, active>>, NEW d \in Deliveries,
         \A e \in Deliveries \ {d} : req'[e] = req[e],
         \/ req[d].pc \notin InSlot \cup {"queued"} /\ req'[d].pc \notin InSlot \cup {"queued"}
         \/ req[d].pc \in InSlot /\ req'[d].pc \in InSlot /\ req'[d].at = req[d].at
  PROVE  SlotsAccounted'
  <1> SUFFICES ASSUME NEW w \in Workers PROVE SlotsOf(w)'
    BY DEF SlotsAccounted
  <1>1. "queued" \notin InSlot
    BY DEF InSlot
  <1>2. \A e \in Deliveries : (req'[e].at = w /\ req'[e].pc \in InSlot)
                               <=> (req[e].at = w /\ req[e].pc \in InSlot)
    OBVIOUS
  <1>3. \A e \in Deliveries : req'[e].at = w /\ req'[e].pc = "queued"
                               => req[e].at = w /\ req[e].pc = "queued"
    BY <1>1
  <1> QED
    BY <1>2, <1>3, SlotsKept DEF SlotsAccounted

\* The other workers do not notice a step that pumps the queue of one.
LEMMA OthersKept ==
  ASSUME TypeOK, SlotsAccounted, NEW d \in Deliveries, NEW w \in Workers, req[d].at = w,
         NEW reqs \in [Deliveries -> Handlers],
         \A e \in Deliveries \ {d} : reqs[e] = req[e],
         reqs[d].at \in {w, "nowhere"},
         NEW q \in Seq(Deliveries), NEW busy \in Int,
         Waiting(w, q, reqs), Pump(w, reqs, q, busy),
         NEW v \in Workers, v # w
  PROVE  SlotsOf(v)'
  <1> DEFINE n == Pumped(q, busy)
  <1>1. n \in 0..Len(q)
    BY PumpedBounds
  <1>2. /\ queue' = [queue EXCEPT ![w] = queue'[w]]
        /\ active' = [active EXCEPT ![w] = busy + n]
    BY PumpShape DEF TypeOK
  <1>3. req' = [e \in Deliveries |-> IF e \in FirstOf(q, n)
                                    THEN [reqs[e] EXCEPT !.pc = "starting"] ELSE reqs[e]]
    BY PumpShape DEF TypeOK
  <1> HIDE DEF n
  <1>4. queue'[v] = queue[v] /\ active'[v] = active[v]
    BY <1>2 DEF TypeOK
  <1>5. \A e \in FirstOf(q, n) : reqs[e].at = w
    BY <1>1 DEF Waiting, FirstOf
  <1>6. v # "nowhere"
    BY WorkerTaskAssumption DEF WorkerTaskAssumption
  <1>7. \A e \in Deliveries : req'[e].at = reqs[e].at
    BY <1>3 DEF Handlers
  <1>8. \A e \in Deliveries : req'[e].at = v \/ req[e].at = v => req'[e] = req[e]
    <2> SUFFICES ASSUME NEW e \in Deliveries, req'[e].at = v \/ req[e].at = v
                 PROVE  req'[e] = req[e]
      OBVIOUS
    <2>1. e # d
      BY <1>6, <1>7
    <2>2. reqs[e] = req[e] /\ e \notin FirstOf(q, n)
      BY <1>5, <1>7, <2>1
    <2> QED
      BY <1>3, <2>2
  <1> QED
    BY <1>4, <1>8, SlotsKept DEF SlotsAccounted

\* A claimed task joins the queue, which is pumped: it waits or takes a slot.
LEMMA EnqueueSlots ==
  ASSUME IInv, SlotsAccounted, NEW d \in Deliveries, Enqueue(d)
  PROVE  SlotsAccounted'
  <1> PICK w \in Workers : w = req[d].at
    BY DEF Enqueue, IInv, Placed
  <1> DEFINE reqs == [req EXCEPT ![d].pc = "queued"]
             q == Append(queue[w], d)
  <1>1. /\ req[d].pc = "claimed" /\ Len(queue[w]) < MaxQueue
        /\ Pump(w, reqs, q, active[w])
    BY DEF Enqueue
  <1>2. queue[w] \in Seq(Deliveries) /\ active[w] \in Int /\ TypeOK
    BY <1>1 DEF IInv, TypeOK
  <1>3. [req[d] EXCEPT !.pc = "queued"] \in Handlers
    BY DEF IInv, TypeOK, Handlers, Points
  <1>4. reqs \in [Deliveries -> Handlers]
    BY <1>3 DEF IInv, TypeOK
  <1>5. reqs[d].pc = "queued" /\ reqs[d].at = w
          /\ \A e \in Deliveries \ {d} : reqs[e] = req[e]
    BY DEF IInv, TypeOK, Handlers
  <1>6. q \in Seq(Deliveries) /\ Len(q) = Len(queue[w]) + 1 /\ q[Len(q)] = d
          /\ \A i \in 1..Len(queue[w]) : q[i] = queue[w][i]
    BY <1>2
  <1>7. Waiting(w, queue[w], req) /\ SlotsOf(w)
    BY <1>1 DEF IInv, SlotsAccounted
  <1> HIDE DEF reqs, q
  <1>8. Waiting(w, q, reqs)
    BY <1>1, <1>2, <1>4, <1>5, <1>6, <1>7, JoinedWaits DEF TypeOK
  <1>9. Listed(w, q, reqs)
    <2> SUFFICES ASSUME NEW e \in Deliveries, reqs[e].pc = "queued", reqs[e].at = w
                 PROVE  \E i \in 1..Len(q) : q[i] = e
      BY DEF Listed
    <2>1. CASE e = d
      <3>1. Len(q) \in 1..Len(q)
        BY <1>2, <1>6
      <3> QED
        BY <1>6, <2>1, <3>1
    <2>2. CASE e # d
      <3>1. PICK i \in 1..Len(queue[w]) : queue[w][i] = e
        BY <1>5, <1>7, <2>2 DEF SlotsOf, Listed
      <3> QED
        BY <1>2, <1>6, <3>1
    <2> QED
      BY <2>1, <2>2
  <1>10. Busy(w, reqs) = Busy(w, req)
    BY <1>1, <1>5 DEF Busy, InSlot
  <1>11. SlotsOf(w)'
    <2>1. Len(q) <= MaxQueue
      BY <1>1, <1>2, <1>6, WorkerTaskAssumption DEF WorkerTaskAssumption
    <2>2. /\ IsFiniteSet(Busy(w, reqs)) /\ active[w] = Cardinality(Busy(w, reqs))
          /\ active[w] <= MaxConcurrent
      BY <1>7, <1>10 DEF SlotsOf
    <2> QED
      BY <1>1, <1>2, <1>4, <1>6, <1>8, <1>9, <2>1, <2>2, PumpSlots
  <1>12. ASSUME NEW v \in Workers, v # w PROVE SlotsOf(v)'
    BY <1>1, <1>2, <1>4, <1>5, <1>6, <1>8, <1>12, OthersKept
  <1> QED
    BY <1>11, <1>12 DEF SlotsAccounted

\* A finished task gives its slot back, and the queue is pumped into it.
LEMMA ReleaseSlots ==
  ASSUME IInv, SlotsAccounted, NEW d \in Deliveries, Release(d)
  PROVE  SlotsAccounted'
  <1> PICK w \in Workers : w = req[d].at
    BY DEF Release, IInv, Placed
  <1> DEFINE reqs == Replied(d)
  <1>1. req[d].pc = "releasing" /\ Pump(w, reqs, queue[w], active[w] - 1)
    BY DEF Release
  <1>2. queue[w] \in Seq(Deliveries) /\ active[w] \in Int /\ active[w] - 1 \in Int /\ TypeOK
    BY <1>1 DEF IInv, TypeOK
  <1>3. reqs \in [Deliveries -> Handlers]
    BY AwayType DEF Replied, IInv, TypeOK
  <1>4. reqs[d].pc = "answered" /\ reqs[d].at = "nowhere"
          /\ \A e \in Deliveries \ {d} : reqs[e] = req[e]
    BY DEF Replied, IInv, TypeOK, Away
  <1>5. Waiting(w, queue[w], req) /\ SlotsOf(w)
    BY <1>1 DEF IInv, SlotsAccounted
  <1> HIDE DEF reqs
  <1>6. Waiting(w, queue[w], reqs)
    <2>1. \A i \in 1..Len(queue[w]) : reqs[queue[w][i]] = req[queue[w][i]]
      BY <1>1, <1>2, <1>4, <1>5 DEF Waiting
    <2> QED
      BY <1>5, <2>1 DEF Waiting
  <1>7. Listed(w, queue[w], reqs)
    BY <1>4, <1>5 DEF SlotsOf, Listed
  <1>8. Busy(w, reqs) = Busy(w, req) \ {d} /\ d \in Busy(w, req)
    BY <1>1, <1>4 DEF Busy, InSlot
  <1>9. IsFiniteSet(Busy(w, reqs)) /\ active[w] - 1 = Cardinality(Busy(w, reqs))
    BY <1>5, <1>8, FS_RemoveElement DEF SlotsOf
  <1>10. active[w] - 1 <= MaxConcurrent /\ Len(queue[w]) <= MaxQueue
    BY <1>2, <1>5, WorkerTaskAssumption DEF SlotsOf, WorkerTaskAssumption
  <1>11. SlotsOf(w)'
    BY <1>1, <1>2, <1>3, <1>6, <1>7, <1>9, <1>10, PumpSlots
  <1>12. ASSUME NEW v \in Workers, v # w PROVE SlotsOf(v)'
    BY <1>1, <1>2, <1>3, <1>4, <1>6, <1>12, OthersKept
  <1> QED
    BY <1>11, <1>12 DEF SlotsAccounted

\* A dead instance has no slots in use and nothing waiting.
LEMMA RestartSlots ==
  ASSUME IInv, SlotsAccounted, NEW w \in Workers, Restart(w)
  PROVE  SlotsAccounted'
  <1>1. /\ \A d \in Deliveries : req'[d] = IF req[d].at = w THEN Away("new") ELSE req[d]
        /\ queue' = [queue EXCEPT ![w] = << >>] /\ active' = [active EXCEPT ![w] = 0]
        /\ TypeOK
    BY DEF Restart, IInv
  <1>2. queue'[w] = << >> /\ active'[w] = 0
    BY <1>1 DEF TypeOK
  <1>3. \A v \in Workers : v # "nowhere"
    BY WorkerTaskAssumption DEF WorkerTaskAssumption
  <1>4. \A d \in Deliveries : req'[d].at # w
    BY <1>1, <1>3 DEF Away
  <1>5. SlotsOf(w)'
    <2>1. Busy(w, req') = {} /\ Listed(w, queue'[w], req')
      BY <1>4 DEF Busy, Listed
    <2>2. IsFiniteSet({}) /\ Cardinality({}) = 0
      BY FS_EmptySet
    <2>3. Len(queue'[w]) = 0
      BY <1>2
    <2> QED
      BY <1>2, <2>1, <2>2, <2>3, WorkerTaskAssumption DEF SlotsOf, WorkerTaskAssumption
  <1>6. ASSUME NEW v \in Workers, v # w PROVE SlotsOf(v)'
    <2>1. queue'[v] = queue[v] /\ active'[v] = active[v]
      BY <1>1, <1>6 DEF TypeOK
    <2>2. \A d \in Deliveries : req'[d].at = v \/ req[d].at = v => req'[d] = req[d]
      BY <1>1, <1>3, <1>6 DEF Away
    <2> QED
      BY <2>1, <2>2, SlotsKept DEF SlotsAccounted
  <1> QED
    BY <1>5, <1>6 DEF SlotsAccounted

-----------------------------------------------------------------------------
(* Duplicates                                                              *)

\* The statuses with which a row keeps other deliveries out.
Held == {"accepted", "started"}

\* Where nothing is refused for a full queue and no instance or terminal write fails.
Undisturbed ==
  /\ IsFiniteSet(Deliveries) /\ Cardinality(Deliveries) <= MaxQueue
  /\ Faults \subseteq {"claim"}

\* A held row belongs to a delivery that is live.
HeldHasTwin ==
  \A r \in Runs : execution[r].status \in Held => \E e \in Deliveries : RunOf[e] = r /\ Live(e)

\* There is room in a queue for every delivery.
LEMMA QueueHasRoom ==
  ASSUME Undisturbed, IInv, NEW w \in Workers, NEW d \in Deliveries, req[d].pc # "queued"
  PROVE  Len(queue[w]) < MaxQueue
  <1> DEFINE q == queue[w]
             n == Len(q)
  <1>1. q \in Seq(Deliveries) /\ Waiting(w, q, req)
    BY DEF IInv, TypeOK
  <1> HIDE DEF q
  <1>2. n \in Nat /\ n \in 0..Len(q)
    BY <1>1
  <1>3. IsFiniteSet(FirstOf(q, n)) /\ Cardinality(FirstOf(q, n)) = n
    BY <1>1, <1>2, FirstOfCardinality DEF Waiting
  <1>4. FirstOf(q, n) \subseteq Deliveries \ {d}
    BY <1>1 DEF FirstOf, Waiting
  <1>5. IsFiniteSet(Deliveries \ {d})
          /\ Cardinality(Deliveries \ {d}) = Cardinality(Deliveries) - 1
    BY FS_RemoveElement DEF Undisturbed
  <1>6. n <= Cardinality(Deliveries) - 1
    BY <1>3, <1>4, <1>5, FS_Subset
  <1>7. Cardinality(Deliveries) \in Nat
    BY FS_CardinalityType DEF Undisturbed
  <1> QED
    BY <1>2, <1>6, <1>7, WorkerTaskAssumption DEF Undisturbed, WorkerTaskAssumption, q

\* A pump leaves every task as live as its caller did.
LEMMA PumpKeepsLive ==
  ASSUME TypeOK, NEW w \in Workers, NEW reqs \in [Deliveries -> Handlers],
         NEW q \in Seq(Deliveries), NEW busy \in Int,
         Pump(w, reqs, q, busy), NEW d \in Deliveries,
         reqs[d].pc \in {"claimed", "queued", "starting", "running", "ending"}
  PROVE  Live(d)'
  <1>1. req' = [e \in Deliveries |-> IF e \in FirstOf(q, Pumped(q, busy))
                                    THEN [reqs[e] EXCEPT !.pc = "starting"] ELSE reqs[e]]
    BY PumpShape DEF TypeOK
  <1>2. [reqs[d] EXCEPT !.pc = "starting"].pc = "starting"
    BY DEF Handlers
  <1> QED
    BY <1>1, <1>2 DEF Live

\* Rows that are held by nobody new keep their twins where no task ends.
LEMMA TwinsKept ==
  ASSUME HeldHasTwin, \A e \in Deliveries : Live(e) => Live(e)',
         \A r \in Runs : execution'[r].status \in Held => execution[r].status \in Held
  PROVE  HeldHasTwin'
  BY DEF HeldHasTwin

\* The same where the row of a delivery that is live afterwards may change.
LEMMA OwnTwin ==
  ASSUME HeldHasTwin, NEW d \in Deliveries, Live(d)',
         \A e \in Deliveries : Live(e) => Live(e)',
         \A r \in Runs \ {RunOf[d]} : execution'[r] = execution[r]
  PROVE  HeldHasTwin'
  BY DEF HeldHasTwin

LEMMA NextTwins ==
  ASSUME Undisturbed, IInv, HeldHasTwin, [Next]_vars
  PROVE  HeldHasTwin'
  <1>1. TypeOK /\ \A d \in Deliveries : RunOf[d] \in Runs
    BY WorkerTaskAssumption DEF WorkerTaskAssumption, IInv
  <1>2. ASSUME NEW d \in Deliveries, Step(d) PROVE HeldHasTwin'
    <2>1. CASE Enqueue(d)
      <3>1. PICK w \in Workers : w = req[d].at
        BY <2>1 DEF Enqueue, IInv, Placed
      <3> DEFINE reqs == [req EXCEPT ![d].pc = "queued"]
      <3>2. /\ Pump(w, reqs, Append(queue[w], d), active[w])
            /\ UNCHANGED execution
        BY <2>1, <3>1 DEF Enqueue
      <3>3. Append(queue[w], d) \in Seq(Deliveries) /\ active[w] \in Int
        BY <1>1 DEF TypeOK
      <3>4. [req[d] EXCEPT !.pc = "queued"] \in Handlers
        BY <1>1 DEF TypeOK, Handlers, Points
      <3>5. reqs \in [Deliveries -> Handlers]
        BY <1>1, <3>4 DEF TypeOK
      <3>6. reqs[d].pc = "queued" /\ \A e \in Deliveries \ {d} : reqs[e] = req[e]
        BY <1>1 DEF TypeOK, Handlers
      <3> HIDE DEF reqs
      <3>7. \A e \in Deliveries : Live(e) => Live(e)'
        BY <1>1, <3>2, <3>3, <3>5, <3>6, PumpKeepsLive DEF Live
      <3> QED
        BY <3>2, <3>7, TwinsKept
    <2>2. CASE Reject(d)
      <3>1. req[d].at \in Workers /\ req[d].pc = "claimed" /\ Len(queue[req[d].at]) >= MaxQueue
        BY <2>2 DEF Reject, IInv, Placed
      <3>2. PICK w \in Workers : w = req[d].at
        BY <3>1
      <3>3. queue[w] \in Seq(Deliveries) /\ Len(queue[w]) \in Nat /\ MaxQueue \in Nat
        BY <1>1, WorkerTaskAssumption DEF TypeOK, WorkerTaskAssumption
      <3> QED
        BY <3>1, <3>2, <3>3, QueueHasRoom
    <2>3. CASE Start(d)
      <3>1. Live(d)' /\ \A e \in Deliveries : Live(e) => Live(e)'
        BY <1>1, <2>3 DEF Start, TypeOK, Handlers, Live
      <3>2. \A r \in Runs \ {RunOf[d]} : execution'[r] = execution[r]
        BY <1>1, <2>3, PersistEffect DEF Start, Executions
      <3> QED
        BY <3>1, <3>2, OwnTwin
    <2>4. CASE End(d)
      <3>1. \A e \in Deliveries : Live(e) => Live(e)'
        BY <1>1, <2>4 DEF End, TypeOK, Handlers, Live
      <3> QED
        BY <2>4, <3>1, TwinsKept DEF End
    <2>5. CASE WriteOutcome(d)
      <3>1. req[d].outcome \in Outcomes \cup {"none"}
        BY <1>1 DEF TypeOK, Handlers
      <3>2. execution' = IF execution[RunOf[d]].status = "none" THEN execution
                         ELSE [execution EXCEPT ![RunOf[d]]
                                 = [status |-> req[d].outcome, lease |-> FALSE]]
        BY <2>5 DEF WriteOutcome, Persist, Undisturbed
      <3>3. /\ execution'[RunOf[d]].status \notin Held
            /\ \A r \in Runs \ {RunOf[d]} : execution'[r] = execution[r]
        BY <1>1, <3>1, <3>2 DEF TypeOK, Held, Outcomes
      <3>4. \A e \in Deliveries \ {d} : Live(e) => Live(e)'
        BY <1>1, <2>5 DEF WriteOutcome, TypeOK, Live
      <3> QED
        BY <3>3, <3>4 DEF HeldHasTwin
    <2>6. CASE Release(d)
      <3>1. PICK w \in Workers : w = req[d].at
        BY <2>6 DEF Release, IInv, Placed
      <3>2. /\ req[d].pc = "releasing" /\ Pump(w, Replied(d), queue[w], active[w] - 1)
            /\ UNCHANGED execution
        BY <2>6, <3>1 DEF Release
      <3>3. queue[w] \in Seq(Deliveries) /\ active[w] - 1 \in Int
        BY <1>1 DEF TypeOK
      <3>4. Replied(d) \in [Deliveries -> Handlers]
              /\ \A e \in Deliveries \ {d} : Replied(d)[e] = req[e]
        BY <1>1, AwayType DEF Replied, TypeOK
      <3>5. \A e \in Deliveries : Live(e) => Live(e)'
        BY <1>1, <3>2, <3>3, <3>4, PumpKeepsLive DEF Live
      <3> QED
        BY <3>2, <3>5, TwinsKept
    <2> QED
      BY <1>2, <2>1, <2>2, <2>3, <2>4, <2>5, <2>6 DEF Step
  <1>3. ASSUME NEW d \in Deliveries, NEW w \in Workers, Deliver(d, w) PROVE HeldHasTwin'
    <2>1. CASE Claim(d, w)
      <3>1. Live(d)' /\ \A e \in Deliveries : Live(e) => Live(e)'
        BY <1>1, <2>1 DEF Claim, TypeOK, Handlers, Live
      <3>2. \A r \in Runs \ {RunOf[d]} : execution'[r] = execution[r]
        BY <1>1, <2>1, ClaimedType DEF Claim
      <3> QED
        BY <3>1, <3>2, OwnTwin
    <2>2. CASE Duplicate(d)
      <3>1. \A e \in Deliveries : Live(e) => Live(e)'
        BY <1>1, <2>2 DEF Duplicate, TypeOK, Live
      <3> QED
        BY <2>2, <3>1, TwinsKept DEF Duplicate
    <2>3. CASE SkipClaim(d, w)
      <3>1. Live(d)' /\ \A e \in Deliveries : Live(e) => Live(e)'
        BY <1>1, <2>3 DEF SkipClaim, TypeOK, Handlers, Live
      <3>2. \A r \in Runs \ {RunOf[d]} : execution'[r] = execution[r]
        <4>1. CASE UNCHANGED execution
          BY <4>1
        <4>2. CASE execution' = Claimed(RunOf[d])
          BY <1>1, <4>2, ClaimedType
        <4> QED
          BY <2>3, <4>1, <4>2 DEF SkipClaim
      <3> QED
        BY <3>1, <3>2, OwnTwin
    <2> QED
      BY <1>3, <2>1, <2>2, <2>3 DEF Deliver
  <1>4. ASSUME NEW r \in Runs, Expire(r) PROVE HeldHasTwin'
    BY <1>4, TwinsKept DEF Expire, Live
  <1>5. ASSUME NEW w \in Workers, Restart(w) PROVE HeldHasTwin'
    BY <1>5 DEF Restart, Undisturbed
  <1>6. CASE UNCHANGED vars
    BY <1>6, TwinsKept DEF vars, Live
  <1> QED
    BY <1>2, <1>3, <1>4, <1>5, <1>6 DEF Next

\* Only Duplicate answers a delivery that nobody took on.
LEMMA AnsweredNew ==
  ASSUME IInv, Next, NEW d \in Deliveries, req[d].pc = "new", req'[d].pc = "answered"
  PROVE  Duplicate(d)
  <1>1. TypeOK
    BY DEF IInv
  <1>2. ASSUME NEW e \in Deliveries, Step(e) PROVE FALSE
    <2>0. \A c \in Deliveries : c # e => (req'[c].pc # "answered" \/ req[c].pc # "new")
      <3>1. CASE Enqueue(e)
        <4>1. PICK w \in Workers : w = req[e].at
          BY <3>1 DEF Enqueue, IInv, Placed
        <4> DEFINE reqs == [req EXCEPT ![e].pc = "queued"]
        <4>2. Pump(w, reqs, Append(queue[w], e), active[w])
          BY <3>1, <4>1 DEF Enqueue
        <4> QED
          BY <1>1, <4>2 DEF Pump, TypeOK, Handlers
      <3>2. CASE Release(e)
        BY <1>1, <3>2 DEF Release, Pump, Replied, TypeOK, Handlers
      <3> QED
        BY <1>1, <1>2, <3>1, <3>2 DEF Step, Reject, Start, End, WriteOutcome, TypeOK
    <2>1. req[e].pc # "new"
      BY <1>2 DEF Step, Enqueue, Reject, Start, End, WriteOutcome, Release
    <2> QED
      BY <2>0, <2>1
  <1>3. ASSUME NEW e \in Deliveries, NEW w \in Workers, Deliver(e, w), ~Duplicate(d) PROVE FALSE
    <2>1. CASE e = d
      BY <1>1, <1>3, <2>1 DEF Deliver, Claim, SkipClaim, TypeOK, Handlers
    <2>2. CASE e # d
      BY <1>1, <1>3, <2>2 DEF Deliver, Claim, Duplicate, SkipClaim, TypeOK
    <2> QED
      BY <2>1, <2>2
  <1>4. ASSUME NEW r \in Runs, Expire(r) PROVE FALSE
    BY <1>4 DEF Expire
  <1>5. ASSUME NEW w \in Workers, Restart(w) PROVE FALSE
    BY <1>5 DEF Restart, Away
  <1> QED
    BY <1>2, <1>3, <1>4, <1>5 DEF Next

-----------------------------------------------------------------------------
(* Theorems                                                                *)

LEMMA NextIInv == IInv /\ [Next]_vars => IInv'
  <1> SUFFICES ASSUME IInv, [Next]_vars PROVE IInv'
    OBVIOUS
  <1>1. ASSUME NEW d \in Deliveries, Step(d) PROVE IInv'
    BY <1>1, EnqueueStep, RejectStep, StartStep, EndStep, WriteOutcomeStep, ReleaseStep
    DEF Step
  <1>2. ASSUME NEW d \in Deliveries, NEW w \in Workers, Deliver(d, w) PROVE IInv'
    BY <1>2, ClaimStep, DuplicateStep, SkipClaimStep DEF Deliver
  <1>3. ASSUME NEW r \in Runs, Expire(r) PROVE IInv'
    BY <1>3, ExpireStep
  <1>4. ASSUME NEW w \in Workers, Restart(w) PROVE IInv'
    BY <1>4, RestartStep
  <1>5. CASE UNCHANGED vars
    BY <1>5 DEF IInv, TypeOK, Placed, Waiting, LeaseHeld, OneExecutionPerLease, Live, vars
  <1> QED
    BY <1>1, <1>2, <1>3, <1>4, <1>5 DEF Next

LEMMA IInvHolds == Spec => []IInv
  BY InitIInv, NextIInv, PTL DEF Spec

LEMMA InitSlots == Init => SlotsAccounted
  <1> SUFFICES ASSUME Init, NEW w \in Workers PROVE SlotsOf(w)
    BY DEF SlotsAccounted
  <1>1. queue[w] = << >> /\ active[w] = 0 /\ Busy(w, req) = {} /\ Listed(w, queue[w], req)
    BY DEF Init, Busy, Listed, Away, InSlot
  <1>2. IsFiniteSet({}) /\ Cardinality({}) = 0 /\ Len(<< >>) = 0
    BY FS_EmptySet
  <1> QED
    BY <1>1, <1>2, WorkerTaskAssumption DEF SlotsOf, WorkerTaskAssumption

LEMMA NextSlots == IInv /\ SlotsAccounted /\ [Next]_vars => SlotsAccounted'
  <1> SUFFICES ASSUME IInv, SlotsAccounted, [Next]_vars PROVE SlotsAccounted'
    OBVIOUS
  <1>1. ASSUME NEW d \in Deliveries, Step(d) PROVE SlotsAccounted'
    <2>1. CASE Reject(d)
      BY <2>1, QuietStep DEF Reject, IInv, TypeOK, InSlot, Away
    <2>2. CASE Start(d)
      BY <2>2, QuietStep DEF Start, IInv, TypeOK, InSlot, Handlers
    <2>3. CASE End(d)
      BY <2>3, QuietStep DEF End, IInv, TypeOK, InSlot, Handlers
    <2>4. CASE WriteOutcome(d)
      BY <2>4, QuietStep DEF WriteOutcome, IInv, TypeOK, InSlot, Handlers
    <2> QED
      BY <1>1, <2>1, <2>2, <2>3, <2>4, EnqueueSlots, ReleaseSlots DEF Step
  <1>2. ASSUME NEW d \in Deliveries, NEW w \in Workers, Deliver(d, w) PROVE SlotsAccounted'
    <2>1. CASE Claim(d, w)
      BY <2>1, QuietStep DEF Claim, IInv, TypeOK, InSlot, Handlers
    <2>2. CASE Duplicate(d)
      BY <2>2, QuietStep DEF Duplicate, IInv, TypeOK, InSlot, Away
    <2>3. CASE SkipClaim(d, w)
      BY <2>3, QuietStep DEF SkipClaim, IInv, TypeOK, InSlot, Handlers
    <2> QED
      BY <1>2, <2>1, <2>2, <2>3 DEF Deliver
  <1>3. ASSUME NEW r \in Runs, Expire(r) PROVE SlotsAccounted'
    BY <1>3, SlotsKept DEF Expire, SlotsAccounted
  <1>4. ASSUME NEW w \in Workers, Restart(w) PROVE SlotsAccounted'
    BY <1>4, RestartSlots
  <1>5. CASE UNCHANGED vars
    BY <1>5, SlotsKept DEF SlotsAccounted, vars
  <1> QED
    BY <1>1, <1>2, <1>3, <1>4, <1>5 DEF Next

\* The variables keep their types: whatever workers die and whatever claims fail,
\* claimWorkerTaskExecution, TaskRunner and the hooks write values of the columns.
THEOREM TypeCorrect == Spec => []TypeOK
  <1>1. IInv => TypeOK
    BY DEF IInv
  <1> QED
    BY <1>1, IInvHolds, PTL

\* The claim keeps a second delivery of a run out of every worker instance while one
\* is at work, until the lease in the payload runs out or a claim was skipped.
THEOREM LeaseExcludesDuplicates == Spec => []OneExecutionPerLease
  <1>1. IInv => OneExecutionPerLease
    BY DEF IInv
  <1> QED
    BY <1>1, IInvHolds, PTL

\* TaskRunner accounts for its slots: on every path through enqueueAndWait, run and pump,
\* and across the death of an instance, active is the number of tasks in slots, never more
\* than maxConcurrentTasks; the queue never exceeds maxQueueSize, holds every task that
\* waits, and is empty while a slot is free.
THEOREM SlotsAreAccounted == Spec => []SlotsAccounted
  BY InitSlots, NextSlots, IInvHolds, PTL DEF Spec

\* A delivery is dismissed as a duplicate only for the sake of a live one, as the 202 of
\* the handler says, where no queue is too short for the tasks, no instance dies and no
\* terminal hook fails: those three are all that can leave a row claimed with nobody at
\* work.  A claim that fails does no harm here.
THEOREM DuplicatesHaveTwins ==
  ASSUME Undisturbed
  PROVE  Spec => DuplicatesHaveALiveTwin
  <1>1. Init => HeldHasTwin
    BY WorkerTaskAssumption DEF WorkerTaskAssumption, Init, HeldHasTwin, Held
  <1>2. IInv /\ HeldHasTwin /\ [Next]_vars => HeldHasTwin'
    BY NextTwins
  <1>3. IInv /\ HeldHasTwin /\ [Next]_vars =>
          [\A d \in Deliveries :
             req[d].pc = "new" /\ req'[d].pc = "answered" =>
               \E e \in Deliveries : RunOf[e] = RunOf[d] /\ Live(e)]_vars
    <2> SUFFICES ASSUME IInv, HeldHasTwin, Next, NEW d \in Deliveries,
                        req[d].pc = "new", req'[d].pc = "answered"
                 PROVE  \E e \in Deliveries : RunOf[e] = RunOf[d] /\ Live(e)
      OBVIOUS
    <2>1. Duplicate(d)
      BY AnsweredNew
    <2>2. execution[RunOf[d]] \in Executions /\ RunOf[d] \in Runs
      BY WorkerTaskAssumption DEF WorkerTaskAssumption, IInv, TypeOK
    <2>3. execution[RunOf[d]].status \in Held
      BY <2>1, <2>2 DEF Duplicate, Claimable, Executions, Held
    <2> QED
      BY <2>2, <2>3 DEF HeldHasTwin
  <1> QED
    BY <1>1, <1>2, <1>3, IInvHolds, PTL DEF Spec, DuplicatesHaveALiveTwin

=============================================================================
