---------------------------- MODULE EnqueueProofs -----------------------------
(***************************************************************************)
(* Theorems about Enqueue for any number of requests, rows, limits and     *)
(* restarts.                                                               *)
(***************************************************************************)
EXTENDS Enqueue, FiniteSetTheorems, TLAPS

-----------------------------------------------------------------------------
(* The inductive invariants                                                *)

Ticks == {c \in Calls : call[c].mode = "tick"}

\* Rows that are not inserted yet are blank; only ticks and retries outlive the dispatch,
\* and a rematch does nothing but look up.
Blank ==
  /\ \A r \in Runs \ Rows : run[r] = NoRun
  /\ \A c \in Calls : /\ call[c].pc = "idle" => call[c].mode # "tick"
                      /\ call[c].pc = "settle" => call[c].mode = "tick"
                      /\ call[c].pc = "tie" => call[c].mode = "retry"
                      /\ call[c].mode = "rematch" => call[c].pc = "lookup"

\* A retry passed the limit with what it read, and the row it has inserted is one deeper,
\* unless what it read was not true.
RetriesFollow ==
  \A c \in Calls : call[c].mode = "retry" /\ call[c].pc # "idle" =>
    /\ call[c].retry < Depth
    /\ call[c].pc \in {"active", "daily"} => call[c].forced
    /\ call[c].pc # "lookup"
    /\ call[c].base \in Rows
    /\ call[c].pc \in {"dispatch", "tie"} =>
         /\ call[c].run \in Rows
         /\ run[call[c].run].lost \/ run[call[c].run].depth = call[c].retry + 1

\* A request to the worker is about a row.
RunsExist ==
  \A c \in Calls : call[c].pc \in {"dispatch", "tie"} => call[c].run \in Runs

\* A trigger selected the schedule when it was due or about to be, and is alone with it,
\* unless its time is marked as overlapped; and until it answers, its time has not been
\* served by one that came in time.
TicksAreAlone ==
  \A c \in Ticks :
    /\ call[c].due <= call[c].time + 1 /\ call[c].time <= now
    /\ slot[call[c].due] = "overlapped" \/ Ticks = {c}
    /\ call[c].pc # "settle" => slot[call[c].due] # "fired"

\* A time that was served once, when it had come, is past for every trigger, and for the
\* schedule as soon as the trigger that served it is done.
FiredIsPast ==
  \A s \in Times : slot[s] = "fired" =>
    /\ s <= now
    /\ \A c \in Ticks : s <= call[c].time
    /\ s < next \/ \E c \in Ticks : call[c].due = s

\* Requests that were counted and may still insert.
Passed == {c \in Calls : call[c].pc \in {"daily", "lookup", "insert"} /\ call[c].mode # "rematch"}

\* The active runs that no late write has reopened, and those of them of requests that
\* nobody overtook.
Fresh == {r \in Active : run[r].work # "late"}

Timely == {r \in Active : run[r].work = "new"}

\* Whoever may still insert is counted as if it had.
LimitHolds ==
  Cardinality(Fresh) + Cardinality(Passed) <= MaxActive + Cardinality(Calls) - 1

\* Whoever may still insert, and sees the runs it saw when it counted, finds room.
RoomIsLeft ==
  /\ Cardinality(Timely) <= MaxActive
  /\ \A c \in Passed : /\ call[c].seen \subseteq Worked
                       /\ call[c].seen = Worked => Cardinality(Timely) < MaxActive

IInv ==
  /\ TypeOK
  /\ Blank
  /\ RetriesFollow
  /\ RunsExist
  /\ RetryChainBounded
  /\ TicksAreAlone
  /\ FiredIsPast
  /\ OneRunPerSlot
  /\ LimitHolds
  /\ RoomIsLeft

-----------------------------------------------------------------------------
(* What the steps do, field by field                                       *)

Statuses == {"open", "fired", "doubled", "overlapped"}

LEMMA Bounds ==
  /\ {N, Slots, MaxDaily, Depth} \subseteq Nat
  /\ MaxActive \in Nat \ {0}
  /\ IsFiniteSet(Calls)
  /\ MayCrash \subseteq Calls
  BY EnqueueAssumption DEF EnqueueAssumption

LEMMA CallFields ==
  ASSUME TypeOK, NEW c \in Calls
  PROVE  /\ call[c] \in Call
         /\ call[c].pc \in {"idle", "active", "daily", "lookup", "insert", "dispatch", "tie",
                            "settle"}
         /\ call[c].mode \in Modes /\ call[c].forced \in BOOLEAN
         /\ call[c].run \in 0..N /\ call[c].base \in 0..N /\ call[c].retry \in Nat
         /\ call[c].due \in Times /\ call[c].time \in Times /\ call[c].seen \in SUBSET Runs
  BY DEF TypeOK, Call

LEMMA RunFields ==
  ASSUME TypeOK, NEW r \in Runs
  PROVE  /\ run[r] \in Run
         /\ run[r].status \in {"none", "PENDING", "RUNNING", "COMPLETED", "FAILED"}
         /\ run[r].retry \in Nat /\ run[r].depth \in Nat /\ run[r].lost \in BOOLEAN
         /\ run[r].work \in {"none", "new", "raced", "late"}
  BY DEF TypeOK, Run

LEMMA Numbers ==
  /\ Times \subseteq Nat /\ Slots \in Nat /\ Depth \in Nat
  /\ TypeOK => now \in Nat /\ next \in Nat
  BY Bounds DEF Times, TypeOK

LEMMA Initially ==
  /\ Idle \in Call /\ Idle.pc = "idle" /\ Idle.mode = "direct" /\ Idle.base = 0
  /\ NoRun \in Run /\ NoRun.status = "none" /\ NoRun.retry = 0 /\ NoRun.depth = 0
  /\ ~NoRun.lost /\ NoRun.work = "none"
  BY Bounds DEF Idle, Call, Modes, NoRun, Run, Times

OthersWait(c) ==
  /\ call' \in [Calls -> Call]
  /\ \A d \in Calls : d # c => call'[d] = call[d]

\* The request goes on, with what it has read.
Goes(c, pc) ==
  /\ OthersWait(c)
  /\ call'[c].pc = pc
  /\ call'[c].mode = call[c].mode
  /\ call'[c].base = call[c].base
  /\ call'[c].retry = call[c].retry
  /\ call'[c].due = call[c].due
  /\ call'[c].time = call[c].time

Ends(c) == OthersWait(c) /\ call'[c] = Idle

\* No row but a blank one is written, except for its status, and none becomes fresh.
Quiet ==
  /\ run' \in [Runs -> Run]
  /\ \A r \in Runs :
       /\ run'[r].retry = run[r].retry
       /\ run'[r].depth = run[r].depth
       /\ run'[r].lost = run[r].lost
       /\ run[r].status # "none" => run'[r].status # "none"
       /\ run'[r].status = "none" => run'[r] = run[r]
       /\ run'[r].work = "none" <=> run[r].work = "none"
       /\ run'[r].status \in {"PENDING", "RUNNING"} /\ run'[r].work # "late"
            => run[r].status \in {"PENDING", "RUNNING"} /\ run'[r].work = run[r].work

\* What becomes of the runs outside of requests.
RunEffects == Quiet /\ UNCHANGED <<next, now, call, crashed, slot>>

\* The two ways in which enqueueScrape ends.
Refused(c) ==
  /\ UNCHANGED slot
  /\ IF call[c].mode = "tick" THEN Goes(c, "settle") ELSE Ends(c)

Served(c) ==
  /\ slot' \in [Times -> Statuses]
  /\ \A s \in Times : s # call[c].due => slot'[s] = slot[s]
  /\ slot[call[c].due] = "open" => slot'[call[c].due] \in {"open", "fired"}
  /\ slot[call[c].due] # "fired" /\ slot'[call[c].due] = "fired"
       => call[c].due <= call[c].time
  /\ slot[call[c].due] \in {"doubled", "overlapped"}
       => slot'[call[c].due] = slot[call[c].due]

Answered(c) ==
  \/ call[c].mode = "tick" /\ Goes(c, "settle") /\ Served(c)
  \/ /\ call[c].mode = "retry" /\ Goes(c, "tie") /\ call'[c].run = call[c].run
     /\ UNCHANGED slot
  \/ call[c].mode \notin {"tick", "retry"} /\ Ends(c) /\ UNCHANGED slot

\* Or it goes on, past the active check when there is room.
Continues(c) ==
  /\ UNCHANGED slot
  /\ \/ /\ call[c].pc = "active" /\ Goes(c, "daily") /\ call'[c].forced = call[c].forced
        /\ call'[c].seen = Worked
        /\ Cardinality(Active') < MaxActive
     \/ /\ call[c].pc = "daily" /\ call'[c].seen = call[c].seen
        /\ Goes(c, IF call[c].forced THEN "insert" ELSE "lookup")
     \/ /\ call[c].pc = "lookup" /\ call[c].mode # "rematch" /\ call'[c].seen = call[c].seen
        /\ Goes(c, "insert")

LEMMA EndEffect ==
  ASSUME TypeOK, NEW c \in Calls, call' = [call EXCEPT ![c] = Idle]
  PROVE  Ends(c)
  BY Initially DEF TypeOK, Ends, OthersWait

LEMMA Written ==
  ASSUME TypeOK, NEW c \in Calls, NEW r \in Call, call' = [call EXCEPT ![c] = r]
  PROVE  OthersWait(c) /\ call'[c] = r
  BY DEF OthersWait, TypeOK

LEMMA SettleUpdate ==
  ASSUME TypeOK, NEW c \in Calls,
         call' = [call EXCEPT ![c] = [call[c] EXCEPT !.pc = "settle", !.run = 0, !.seen = {}]]
  PROVE  Goes(c, "settle")
  <1>1. PICK r \in Call : r = call[c]
        BY CallFields
  <1> DEFINE s == [r EXCEPT !.pc = "settle", !.run = 0, !.seen = {}]
  <1>2. /\ s \in Call /\ s.pc = "settle" /\ s.mode = r.mode /\ s.base = r.base
        /\ s.retry = r.retry /\ s.due = r.due /\ s.time = r.time
        <2> 0 \in 0..N
            BY Bounds
        <2> QED
            BY DEF Call
  <1>3. call' = [call EXCEPT ![c] = s]
        BY <1>1
  <1> HIDE DEF s
  <1> QED
      BY <1>1, <1>2, <1>3, Written DEF Goes

LEMMA PcUpdate ==
  ASSUME TypeOK, NEW c \in Calls, NEW pc \in {"daily", "lookup", "insert", "tie"},
         call' = [call EXCEPT ![c] = [call[c] EXCEPT !.pc = pc]]
  PROVE  /\ Goes(c, pc) /\ call'[c].run = call[c].run
         /\ call'[c].forced = call[c].forced /\ call'[c].seen = call[c].seen
  <1>1. PICK r \in Call : r = call[c]
        BY CallFields
  <1> DEFINE s == [r EXCEPT !.pc = pc]
  <1>2. /\ s \in Call /\ s.pc = pc /\ s.mode = r.mode /\ s.base = r.base
        /\ s.retry = r.retry /\ s.due = r.due /\ s.time = r.time /\ s.run = r.run
        /\ s.forced = r.forced /\ s.seen = r.seen
        BY DEF Call
  <1>3. call' = [call EXCEPT ![c] = s]
        BY <1>1
  <1> HIDE DEF s
  <1> QED
      BY <1>1, <1>2, <1>3, Written DEF Goes

LEMMA RefuseEffect ==
  ASSUME TypeOK, NEW c \in Calls, Refuse(c)
  PROVE  Refused(c)
  <1>1. CASE call[c].mode = "tick"
        <2>1. call' = [call EXCEPT ![c] = [call[c] EXCEPT !.pc = "settle", !.run = 0, !.seen = {}]]
              BY <1>1 DEF Refuse
        <2>2. Goes(c, "settle")
              BY <2>1, SettleUpdate
        <2> QED
              BY <1>1, <2>2 DEF Refused, Refuse
  <1>2. CASE call[c].mode # "tick"
        <2>1. call' = [call EXCEPT ![c] = Idle]
              BY <1>2 DEF Refuse
        <2> QED
              BY <1>2, <2>1, EndEffect DEF Refused, Refuse
  <1> QED
      BY <1>1, <1>2

LEMMA AnswerEffect ==
  ASSUME TypeOK, NEW c \in Calls, Answer(c)
  PROVE  Answered(c)
  <1>1. CASE call[c].mode = "tick"
        <2>1. call' = [call EXCEPT ![c] = [call[c] EXCEPT !.pc = "settle", !.run = 0, !.seen = {}]]
              BY <1>1 DEF Answer
        <2>2. Goes(c, "settle")
              BY <2>1, SettleUpdate
        <2>3. slot' = [slot EXCEPT ![call[c].due] = Started(c, slot[call[c].due])]
              BY <1>1 DEF Answer
        <2>4. Served(c)
              <3>1. call[c].due \in Nat /\ call[c].time \in Nat /\ call[c].due \in Times
                    BY CallFields, Numbers
              <3>2. slot \in [Times -> Statuses]
                    BY DEF TypeOK, Statuses
              <3>3. CASE call[c].due > call[c].time
                    <4>1. Started(c, slot[call[c].due]) = slot[call[c].due]
                          BY <3>3 DEF Started
                    <4>2. slot' = slot
                          BY <2>3, <3>1, <3>2, <4>1
                    <4> QED
                          BY <3>2, <4>2 DEF Served
              <3>4. CASE ~(call[c].due > call[c].time)
                    <4>1. call[c].due <= call[c].time
                          BY <3>1, <3>4
                    <4> QED
                          BY <2>3, <3>1, <3>2, <3>4, <4>1 DEF Started, Served, Statuses
              <3> QED
                    BY <3>3, <3>4
        <2> QED
              BY <1>1, <2>2, <2>4 DEF Answered
  <1>2. CASE call[c].mode = "retry"
        <2>1. call' = [call EXCEPT ![c] = [call[c] EXCEPT !.pc = "tie"]] /\ UNCHANGED slot
              BY <1>2 DEF Answer
        <2>2. Goes(c, "tie") /\ call'[c].run = call[c].run
              BY <2>1, PcUpdate
        <2> QED
              BY <1>2, <2>1, <2>2 DEF Answered
  <1>3. CASE call[c].mode \notin {"tick", "retry"}
        <2>1. call' = [call EXCEPT ![c] = Idle] /\ UNCHANGED slot
              BY <1>3 DEF Answer
        <2> QED
              BY <1>3, <2>1, EndEffect DEF Answered
  <1> QED
      BY <1>1, <1>2, <1>3

LEMMA GotoEffect ==
  ASSUME TypeOK, NEW c \in Calls, NEW pc \in {"daily", "lookup", "insert", "tie"}, Goto(c, pc)
  PROVE  Goes(c, pc) /\ call'[c].seen = call[c].seen
  <1>1. call' = [call EXCEPT ![c] = [call[c] EXCEPT !.pc = pc]]
        BY DEF Goto
  <1> QED
      BY <1>1, PcUpdate

\* Writing one row.
LEMMA QuietRow ==
  ASSUME TypeOK, NEW r \in Runs, NEW s \in Run, run' = [run EXCEPT ![r] = s],
         s.status # "none",
         s.retry = run[r].retry, s.depth = run[r].depth, s.lost = run[r].lost,
         s.work = "none" <=> run[r].work = "none",
         s.status \in {"PENDING", "RUNNING"} /\ s.work # "late"
           => r \in Active /\ s.work = run[r].work
  PROVE  Quiet
  BY DEF Quiet, Active, TypeOK

\* Writing its status alone.
LEMMA QuietWrite ==
  ASSUME TypeOK, NEW r \in Runs, NEW status \in {"RUNNING", "COMPLETED", "FAILED"},
         status = "RUNNING" => r \in Active,
         run' = [run EXCEPT ![r].status = status]
  PROVE  Quiet
  <1>1. PICK row \in Run : row = run[r]
        BY RunFields
  <1> DEFINE s == [row EXCEPT !.status = status]
  <1>2. /\ s \in Run /\ s.status = status /\ s.retry = row.retry /\ s.depth = row.depth
        /\ s.lost = row.lost /\ s.work = row.work
        BY DEF Run
  <1>3. run' = [run EXCEPT ![r] = s]
        BY <1>1
  <1> HIDE DEF s
  <1> QED
      BY <1>1, <1>2, <1>3, QuietRow

\* A row with another status.
LEMMA StatusFields ==
  ASSUME TypeOK, NEW r \in Runs, NEW status \in {"RUNNING", "COMPLETED", "FAILED"}
  PROVE  /\ WithStatus(r, status) \in Run
         /\ WithStatus(r, status).status = status
         /\ WithStatus(r, status).retry = run[r].retry
         /\ WithStatus(r, status).depth = run[r].depth
         /\ WithStatus(r, status).lost = run[r].lost
         /\ status = "RUNNING" => WithStatus(r, status).work = run[r].work
         /\ WithStatus(r, status).work = "none" <=> run[r].work = "none"
  <1>1. PICK row \in Run : row = run[r]
        BY RunFields
  <1>2. PICK work \in {"none", "new", "raced", "late"} :
          work = IF status \in {"COMPLETED", "FAILED"} /\ row.work = "late" THEN "new"
                 ELSE row.work
        BY DEF Run
  <1> DEFINE s == [row EXCEPT !.status = status, !.work = work]
  <1>3. /\ s \in Run /\ s.status = status /\ s.retry = row.retry /\ s.depth = row.depth
        /\ s.lost = row.lost /\ s.work = work
        BY DEF Run
  <1>4. WithStatus(r, status) = s
        BY <1>1, <1>2 DEF WithStatus, Run
  <1> HIDE DEF s
  <1> QED
      BY <1>1, <1>2, <1>3, <1>4

LEMMA QuietStutter ==
  ASSUME TypeOK, UNCHANGED run
  PROVE  Quiet
  BY DEF Quiet, TypeOK

LEMMA CompletedEffect ==
  ASSUME TypeOK, InsertCompleted
  PROVE  Quiet
  BY QuietWrite DEF InsertCompleted, IsNext

LEMMA MarkEffect ==
  ASSUME TypeOK, NEW r \in Runs, NEW status \in {"RUNNING", "FAILED"}, MarkPending(r, status)
  PROVE  Quiet
  BY QuietWrite, QuietStutter DEF MarkPending, Active

LEMMA OverlapEffect ==
  ASSUME TypeOK, NEW times, Overlap(times)
  PROVE  /\ slot' \in [Times -> Statuses]
         /\ \A s \in Times : slot'[s] = IF s \in times THEN "overlapped" ELSE slot[s]
  BY DEF Overlap, TypeOK, Statuses

\* A request comes in that is neither a retry nor a trigger of the scheduler.
StartEffects(c) ==
  /\ UNCHANGED <<run, next, now, crashed, slot>>
  /\ call[c].pc = "idle"
  /\ OthersWait(c)
  /\ call'[c].mode \notin {"tick", "retry"}
  /\ \/ call'[c].pc = "active" /\ call'[c].mode # "rematch"
     \/ call'[c].pc = "lookup" /\ call'[c].mode = "rematch"

LEMMA StartEffect ==
  ASSUME TypeOK, NEW c \in Calls,
         (\E force \in BOOLEAN : BeginDirect(c, force)) \/ BeginManual(c) \/ BeginRematch(c)
  PROVE  StartEffects(c)
  <1>0. PICK idle \in Call : idle = Idle /\ idle.mode = "direct"
        BY Initially
  <1>1. ASSUME NEW force \in BOOLEAN, BeginDirect(c, force)
        PROVE  StartEffects(c)
        <2> DEFINE r == [idle EXCEPT !.pc = "active", !.forced = force]
        <2>1. r \in Call /\ r.pc = "active" /\ r.mode = "direct"
              BY <1>0 DEF Call, Modes
        <2>2. call' = [call EXCEPT ![c] = r]
              BY <1>0, <1>1 DEF BeginDirect, Begin
        <2> HIDE DEF r
        <2>3. OthersWait(c) /\ call'[c] = r
              BY <2>1, <2>2, Written
        <2> QED
              BY <1>1, <2>1, <2>3 DEF BeginDirect, Begin, StartEffects
  <1>2. CASE BeginManual(c)
        <2> DEFINE r == [idle EXCEPT !.pc = "active", !.mode = "manual"]
        <2>1. r \in Call /\ r.pc = "active" /\ r.mode = "manual"
              BY <1>0 DEF Call, Modes
        <2>2. call' = [call EXCEPT ![c] = r]
              BY <1>0, <1>2 DEF BeginManual, Begin
        <2> HIDE DEF r
        <2>3. OthersWait(c) /\ call'[c] = r
              BY <2>1, <2>2, Written
        <2> QED
              BY <1>2, <2>1, <2>3 DEF BeginManual, Begin, StartEffects
  <1>3. CASE BeginRematch(c)
        <2> DEFINE r == [idle EXCEPT !.pc = "lookup", !.mode = "rematch"]
        <2>1. r \in Call /\ r.pc = "lookup" /\ r.mode = "rematch"
              BY <1>0 DEF Call, Modes
        <2>2. call' = [call EXCEPT ![c] = r]
              BY <1>0, <1>3 DEF BeginRematch, Begin
        <2> HIDE DEF r
        <2>3. OthersWait(c) /\ call'[c] = r
              BY <2>1, <2>2, Written
        <2> QED
              BY <1>3, <2>1, <2>3 DEF BeginRematch, Begin, StartEffects
  <1> QED
      BY <1>1, <1>2, <1>3

LEMMA BeginRetryEffect ==
  ASSUME TypeOK, NEW c \in Calls, NEW r \in Runs, BeginRetry(c, r)
  PROVE  /\ UNCHANGED <<run, next, now, crashed, slot>>
         /\ r \in Rows /\ run[r].retry < Depth
         /\ call[c].pc = "idle"
         /\ OthersWait(c)
         /\ call'[c].pc = "active" /\ call'[c].mode = "retry" /\ call'[c].forced
         /\ call'[c].base = r /\ call'[c].retry = run[r].retry
  <1>1. r \in 0..N /\ run[r].retry \in Nat
        BY Bounds, RunFields DEF Runs
  <1>2. PICK idle \in Call : idle = Idle
        BY Initially
  <1>3. PICK retry \in Nat : retry = run[r].retry
        BY <1>1
  <1> DEFINE f == [idle EXCEPT !.pc = "active", !.mode = "retry", !.forced = TRUE, !.base = r,
                               !.retry = retry]
  <1>4. /\ f \in Call /\ f.pc = "active" /\ f.mode = "retry" /\ f.forced /\ f.base = r
        /\ f.retry = retry
        BY <1>1 DEF Call, Modes
  <1>5. call' = [call EXCEPT ![c] = f]
        BY <1>2, <1>3 DEF BeginRetry, Begin
  <1> HIDE DEF f
  <1>6. OthersWait(c) /\ call'[c] = f
        BY <1>4, <1>5, Written
  <1> QED
      BY <1>3, <1>4, <1>6 DEF BeginRetry, Begin, Rows

LEMMA BeginTickEffect ==
  ASSUME TypeOK, NEW c \in Calls, BeginTick(c)
  PROVE  /\ UNCHANGED <<run, next, now, crashed>>
         /\ call[c].pc = "idle" /\ next \in Times /\ next <= now + 1
         /\ OthersWait(c)
         /\ call'[c].pc = "active" /\ call'[c].mode = "tick"
         /\ call'[c].due = next /\ call'[c].time = now
         /\ slot' \in [Times -> Statuses]
         /\ \A s \in Times : slot'[s] =
              IF OtherTicks(c) # {} /\ (s = next \/ \E d \in OtherTicks(c) : s = call[d].due)
              THEN "overlapped" ELSE slot[s]
  <1>1. next \in Times /\ now \in Times /\ next <= now + 1
        BY DEF BeginTick, TypeOK
  <1>2. PICK idle \in Call : idle = Idle
        BY Initially
  <1> DEFINE f == [idle EXCEPT !.pc = "active", !.mode = "tick", !.due = next, !.time = now]
  <1>3. /\ f \in Call /\ f.pc = "active" /\ f.mode = "tick" /\ f.due = next /\ f.time = now
        BY <1>1 DEF Call, Modes
  <1>4. OthersWait(c) /\ call'[c] = f
        <2>1. call' = [call EXCEPT ![c] = f]
              BY <1>2 DEF BeginTick, Begin
        <2> HIDE DEF f
        <2> QED
            BY <1>3, <2>1, Written
  <1> HIDE DEF f
  <1> DEFINE times == IF OtherTicks(c) = {} THEN {}
                      ELSE {next} \cup {call[d].due : d \in OtherTicks(c)}
  <1>5. Overlap(times)
        BY DEF BeginTick
  <1>6. /\ slot' \in [Times -> Statuses]
        /\ \A s \in Times : slot'[s] = IF s \in times THEN "overlapped" ELSE slot[s]
        <2> HIDE DEF times
        <2> QED
            BY <1>5, OverlapEffect
  <1>7. \A s : s \in times <=>
          OtherTicks(c) # {} /\ (s = next \/ \E d \in OtherTicks(c) : s = call[d].due)
        OBVIOUS
  <1> HIDE DEF times
  <1> QED
      BY <1>1, <1>3, <1>4, <1>6, <1>7 DEF BeginTick, Begin

\* A step within enqueueScrape that inserts no active run.
MiddleEffects(c) ==
  /\ Quiet
  /\ UNCHANGED <<next, now, crashed>>
  /\ call[c].pc \in {"active", "daily", "lookup", "insert", "dispatch"}
  /\ \/ Refused(c)
     \/ call[c].pc \in {"lookup", "dispatch"} /\ Answered(c)
     \/ Continues(c)

LEMMA PassEffect ==
  ASSUME TypeOK, NEW c \in Calls, Passes(c)
  PROVE  /\ Goes(c, "daily") /\ call'[c].forced = call[c].forced /\ call'[c].seen = Worked
         /\ UNCHANGED slot
  <1>1. PICK r \in Call : r = call[c]
        BY CallFields
  <1>2. PICK seen \in SUBSET Runs : seen = Worked
        BY DEF Worked
  <1> DEFINE s == [r EXCEPT !.pc = "daily", !.seen = seen]
  <1>3. /\ s \in Call /\ s.pc = "daily" /\ s.mode = r.mode /\ s.base = r.base
        /\ s.retry = r.retry /\ s.due = r.due /\ s.time = r.time /\ s.forced = r.forced
        /\ s.seen = seen
        BY DEF Call
  <1>4. call' = [call EXCEPT ![c] = s]
        BY <1>1, <1>2 DEF Passes, TypeOK
  <1> HIDE DEF s
  <1> QED
      BY <1>1, <1>2, <1>3, <1>4, Written DEF Goes, Passes

LEMMA CountEffect ==
  ASSUME TypeOK, NEW c \in Calls, CountActive(c)
  PROVE  MiddleEffects(c)
  <1>1. PICK stale \in SUBSET Active :
          /\ run' = [r \in Runs |-> IF r \in stale THEN WithStatus(r, "FAILED") ELSE run[r]]
          /\ \/ Refuse(c)
             \/ Cardinality(Active \ stale) < MaxActive /\ Passes(c)
        BY DEF CountActive
  <1>2. \A r \in Runs : /\ run'[r] \in Run
                        /\ run'[r].retry = run[r].retry
                        /\ run'[r].depth = run[r].depth
                        /\ run'[r].lost = run[r].lost
                        /\ run'[r].status = IF r \in stale THEN "FAILED" ELSE run[r].status
                        /\ run'[r].work = "none" <=> run[r].work = "none"
                        /\ r \notin stale => run'[r] = run[r]
        BY <1>1, RunFields, StatusFields
  <1>3. Quiet
        BY <1>1, <1>2 DEF Quiet, Active
  <1>4. Active' = Active \ stale
        BY <1>2 DEF Active
  <1> QED
      BY <1>1, <1>3, <1>4, RefuseEffect, PassEffect
      DEF CountActive, MiddleEffects, Continues

LEMMA DailyEffect ==
  ASSUME TypeOK, NEW c \in Calls, CountDaily(c)
  PROVE  MiddleEffects(c)
  <1>1. CASE Refuse(c)
        BY <1>1, RefuseEffect, QuietStutter DEF CountDaily, MiddleEffects
  <1>2. CASE /\ call' = [call EXCEPT ![c].pc = IF call[c].forced THEN "insert" ELSE "lookup",
                                     ![c].forced = FALSE]
             /\ UNCHANGED slot
        <2>1. PICK r \in Call : r = call[c]
              BY CallFields
        <2>2. PICK pc \in {"lookup", "insert"} :
                pc = IF call[c].forced THEN "insert" ELSE "lookup"
              OBVIOUS
        <2> DEFINE s == [r EXCEPT !.pc = pc, !.forced = FALSE]
        <2>3. /\ s \in Call /\ s.pc = pc /\ s.mode = r.mode /\ s.base = r.base
              /\ s.retry = r.retry /\ s.due = r.due /\ s.time = r.time /\ s.seen = r.seen
              BY DEF Call
        <2>4. call' = [call EXCEPT ![c] = s]
              BY <1>2, <2>1, <2>2 DEF TypeOK
        <2> HIDE DEF s
        <2>5. Goes(c, pc) /\ call'[c].seen = call[c].seen
              BY <2>1, <2>3, <2>4, Written DEF Goes
        <2> QED
              BY <1>2, <2>2, <2>5, QuietStutter DEF CountDaily, MiddleEffects, Continues
  <1> QED
      BY <1>1, <1>2 DEF CountDaily

LEMMA LookUpEffect ==
  ASSUME TypeOK, NEW c \in Calls,
         ServeFromCatalog(c) \/ ReuseFromDatabase(c) \/ FindNothing(c)
  PROVE  MiddleEffects(c)
  <1>1. CASE ServeFromCatalog(c)
        BY <1>1, CompletedEffect, RefuseEffect, AnswerEffect
        DEF ServeFromCatalog, MiddleEffects
  <1>2. CASE ReuseFromDatabase(c)
        BY <1>2, CompletedEffect, RefuseEffect, AnswerEffect, GotoEffect
        DEF ReuseFromDatabase, MiddleEffects, Continues
  <1>3. CASE FindNothing(c)
        BY <1>3, QuietStutter, RefuseEffect, GotoEffect
        DEF FindNothing, MiddleEffects, Continues
  <1> QED
      BY <1>1, <1>2, <1>3

LEMMA DispatchEffect ==
  ASSUME TypeOK, NEW c \in Calls, call[c].run \in Runs,
         DispatchAccepted(c) \/ DispatchRejected(c) \/ DispatchError(c)
  PROVE  MiddleEffects(c)
  BY MarkEffect, QuietStutter, RefuseEffect, AnswerEffect
  DEF DispatchAccepted, DispatchRejected, DispatchError, MiddleEffects

\* A new row, of which history says how many retries led to it.
InsertEffects(c) ==
  /\ UNCHANGED <<next, now, crashed, slot>>
  /\ call[c].pc = "insert"
  /\ \E r \in Runs \ Rows :
       /\ Goes(c, "dispatch") /\ call'[c].run = r
       /\ run' \in [Runs -> Run]
       /\ \A q \in Runs : q # r => run'[q] = run[q]
       /\ run'[r].status = "PENDING" /\ run'[r].retry = 0
       /\ run'[r].work = "raced" \/ (run'[r].work = "new" /\ call[c].seen = Worked)
       /\ IF call[c].mode = "retry"
          THEN /\ run'[r].depth = run[call[c].base].depth + 1
               /\ \/ run'[r].lost
                  \/ ~run[call[c].base].lost /\ call[c].retry = run[call[c].base].depth
          ELSE run'[r].depth = 0

LEMMA InsertEffect ==
  ASSUME TypeOK, NEW c \in Calls, Insert(c), call[c].mode = "retry" => call[c].base \in Runs
  PROVE  InsertEffects(c) \/ MiddleEffects(c)
  <1>1. CASE Refuse(c) /\ UNCHANGED run
        BY <1>1, RefuseEffect, QuietStutter DEF Insert, MiddleEffects
  <1>2. ASSUME NEW r \in Runs, IsNext(r),
               run' = [run EXCEPT ![r] =
                 IF call[c].mode = "retry"
                 THEN [NoRun EXCEPT !.status = "PENDING", !.work = Timing(c),
                         !.depth = run[call[c].base].depth + 1,
                         !.lost = \/ run[call[c].base].lost
                                  \/ call[c].retry # run[call[c].base].depth]
                 ELSE [NoRun EXCEPT !.status = "PENDING", !.work = Timing(c)]],
               call' = [call EXCEPT ![c].pc = "dispatch", ![c].run = r, ![c].seen = {}],
               UNCHANGED slot
        PROVE  InsertEffects(c)
        <2>0. /\ UNCHANGED <<next, now, crashed, slot>> /\ call[c].pc = "insert" /\ r \notin Rows
              BY <1>2 DEF Insert, IsNext
        <2>1. PICK f \in Call : f = call[c]
              BY CallFields
        <2> DEFINE s == [f EXCEPT !.pc = "dispatch", !.run = r, !.seen = {}]
        <2>2. r \in 0..N
              BY Bounds DEF Runs
        <2>3. /\ s \in Call /\ s.pc = "dispatch" /\ s.mode = f.mode /\ s.base = f.base
              /\ s.retry = f.retry /\ s.due = f.due /\ s.time = f.time /\ s.run = r
              BY <2>2 DEF Call
        <2>4. call' = [call EXCEPT ![c] = s]
              BY <1>2, <2>1 DEF TypeOK
        <2> HIDE DEF s
        <2>5. Goes(c, "dispatch") /\ call'[c].run = r
              BY <2>1, <2>3, <2>4, Written DEF Goes
        <2>6. PICK base : base = run[call[c].base]
              OBVIOUS
        <2>9. PICK blank \in Run : blank = NoRun /\ blank.retry = 0 /\ blank.depth = 0
              BY Initially
        <2>10. PICK work \in {"new", "raced"} :
                 work = Timing(c) /\ (work = "new" => call[c].seen = Worked)
              BY DEF Timing
        <2>7. CASE call[c].mode = "retry"
              <3>1. base \in Run /\ base.depth \in Nat /\ base.lost \in BOOLEAN
                    BY <2>6, <2>7, RunFields
              <3>2. PICK lost \in BOOLEAN : lost = (base.lost \/ call[c].retry # base.depth)
                    OBVIOUS
              <3>3. PICK depth \in Nat : depth = base.depth + 1
                    BY <3>1
              <3> DEFINE row == [blank EXCEPT !.status = "PENDING", !.work = work,
                                              !.depth = depth, !.lost = lost]
              <3>4. /\ row \in Run /\ row.status = "PENDING" /\ row.retry = 0
                    /\ row.depth = depth /\ row.lost = lost /\ row.work = work
                    BY <2>9 DEF Run
              <3>5. run' = [run EXCEPT ![r] = row]
                    BY <1>2, <2>6, <2>7, <2>9, <2>10, <3>2, <3>3
              <3> HIDE DEF row
              <3>6. /\ run' \in [Runs -> Run] /\ run'[r] = row
                    /\ \A q \in Runs : q # r => run'[q] = run[q]
                    BY <3>4, <3>5 DEF TypeOK
              <3>7. row.lost \/ (~base.lost /\ call[c].retry = base.depth)
                    <4>1. CASE lost = TRUE
                          <5>1. row.lost = TRUE
                                BY <3>4, <4>1
                          <5>2. row.lost
                                BY <5>1
                          <5> QED
                                BY <5>2
                    <4>2. CASE lost = FALSE
                          <5>1. ~(base.lost \/ call[c].retry # base.depth)
                                BY <3>2, <4>2
                          <5> QED
                                BY <5>1
                    <4> QED
                          BY <4>1, <4>2
              <3>8. run'[r].work = "raced" \/ (run'[r].work = "new" /\ call[c].seen = Worked)
                    BY <2>10, <3>4, <3>6
              <3> QED
                    BY <2>0, <2>5, <2>6, <2>7, <3>3, <3>4, <3>6, <3>7, <3>8
                    DEF InsertEffects
        <2>8. CASE call[c].mode # "retry"
              <3> DEFINE row == [blank EXCEPT !.status = "PENDING", !.work = work]
              <3>1. /\ row \in Run /\ row.status = "PENDING" /\ row.retry = 0 /\ row.depth = 0
                    /\ row.work = work
                    BY <2>9 DEF Run
              <3>2. run' = [run EXCEPT ![r] = row]
                    BY <1>2, <2>8, <2>9, <2>10
              <3> HIDE DEF row
              <3>3. /\ run' \in [Runs -> Run] /\ run'[r] = row
                    /\ \A q \in Runs : q # r => run'[q] = run[q]
                    BY <3>1, <3>2 DEF TypeOK
              <3>4. run'[r].work = "raced" \/ (run'[r].work = "new" /\ call[c].seen = Worked)
                    BY <2>10, <3>1, <3>3
              <3> QED
                    BY <2>0, <2>5, <2>8, <3>1, <3>3, <3>4 DEF InsertEffects
        <2> QED
              BY <2>7, <2>8
  <1> QED
      BY <1>1, <1>2 DEF Insert

\* A retry is put on record.
TieEffects(c) ==
  /\ UNCHANGED <<next, now, crashed, slot>>
  /\ call[c].pc = "tie"
  /\ Ends(c)
  /\ run' \in [Runs -> Run]
  /\ \A q \in Runs :
       /\ run'[q].status = run[q].status
       /\ run'[q].depth = run[q].depth
       /\ run'[q].lost = run[q].lost
       /\ run'[q].work = run[q].work
       /\ q # call[c].run => run'[q] = run[q]
       /\ q = call[c].run => run'[q].retry = call[c].retry + 1

LEMMA TieEffect ==
  ASSUME TypeOK, NEW c \in Calls, Tie(c), call[c].run \in Runs
  PROVE  TieEffects(c)
  <1>1. PICK row \in Run : row = run[call[c].run]
        BY RunFields
  <1>2. PICK retry \in Nat : retry = call[c].retry + 1
        BY CallFields
  <1> DEFINE s == [row EXCEPT !.retry = retry]
  <1>3. /\ s \in Run /\ s.status = row.status /\ s.retry = retry /\ s.depth = row.depth
        /\ s.lost = row.lost /\ s.work = row.work
        BY DEF Run
  <1>4. run' = [run EXCEPT ![call[c].run] = s]
        BY <1>1, <1>2 DEF Tie
  <1> HIDE DEF s
  <1>5. Ends(c)
        BY EndEffect DEF Tie
  <1> QED
      BY <1>1, <1>2, <1>3, <1>4, <1>5 DEF Tie, TieEffects, TypeOK

LEMMA SettleEffect ==
  ASSUME TypeOK, NEW c \in Calls, Settle(c)
  PROVE  /\ UNCHANGED <<run, now, slot, crashed>>
         /\ call[c].pc = "settle" /\ Ends(c)
         /\ \/ next' = call[c].time + 1
            \/ call[c].due > call[c].time /\ next' = call[c].due + 1
  BY EndEffect DEF Settle

LEMMA CrashEffect ==
  ASSUME TypeOK, NEW c \in Calls, Crash(c)
  PROVE  /\ UNCHANGED <<run, next, now>>
         /\ crashed' \subseteq MayCrash
         /\ Ends(c)
         /\ slot' \in [Times -> Statuses]
         /\ \A s \in Times : slot'[s] =
              IF call[c].mode = "tick" /\ s = call[c].due THEN "overlapped" ELSE slot[s]
  <1> DEFINE times == IF call[c].mode = "tick" THEN {call[c].due} ELSE {}
  <1>1. Overlap(times)
        BY DEF Crash
  <1>2. /\ slot' \in [Times -> Statuses]
        /\ \A s \in Times : slot'[s] = IF s \in times THEN "overlapped" ELSE slot[s]
        <2> HIDE DEF times
        <2> QED
            BY <1>1, OverlapEffect
  <1>3. crashed' \subseteq MayCrash
        BY DEF Crash, TypeOK
  <1>4. Ends(c)
        BY EndEffect DEF Crash
  <1> QED
      BY <1>2, <1>3, <1>4 DEF Crash

LEMMA ProgressEffect ==
  ASSUME TypeOK, NEW r \in Runs, NEW status \in {"RUNNING", "COMPLETED", "FAILED"},
         Progress(r, status)
  PROVE  RunEffects
  <1>1. PICK s \in Run : s = WithStatus(r, status)
        BY StatusFields
  <1>2. /\ s.status = status /\ s.retry = run[r].retry /\ s.depth = run[r].depth
        /\ s.lost = run[r].lost /\ (status = "RUNNING" => s.work = run[r].work)
        /\ s.work = "none" <=> run[r].work = "none"
        BY <1>1, StatusFields
  <1>3. run' = [run EXCEPT ![r] = s] /\ r \in Active
        BY <1>1 DEF Progress
  <1> QED
      BY <1>2, <1>3, QuietRow DEF Progress, RunEffects

LEMMA WriteLateEffect ==
  ASSUME TypeOK, NEW r \in Runs, NEW status \in {"RUNNING", "FAILED"}, WriteLate(r, status)
  PROVE  RunEffects
  <1>1. PICK row \in Run : row = run[r]
        BY RunFields
  <1>2. PICK work \in {"none", "new", "raced", "late"} :
          work = IF status = "RUNNING" THEN "late" ELSE row.work
        BY DEF Run
  <1> DEFINE s == [row EXCEPT !.status = status, !.work = work]
  <1>3. /\ s \in Run /\ s.status = status /\ s.retry = row.retry /\ s.depth = row.depth
        /\ s.lost = row.lost /\ s.work = work
        BY DEF Run
  <1>4. run' = [run EXCEPT ![r] = s]
        BY <1>1, <1>2 DEF WriteLate, TypeOK, Run
  <1> HIDE DEF s
  <1>5. /\ s.status \in {"PENDING", "RUNNING"} => s.work = "late"
        /\ s.work # "none" /\ row.work # "none"
        BY <1>1, <1>2, <1>3 DEF WriteLate
  <1> QED
      BY <1>1, <1>3, <1>4, <1>5, QuietRow DEF WriteLate, RunEffects

LEMMA FiniteRuns == IsFiniteSet(Runs)
  <1>1. 1 \in Int /\ N \in Int
        BY Bounds
  <1>2. IsFiniteSet(1..N)
        BY <1>1, FS_Interval
  <1> QED
      BY <1>2 DEF Runs

LEMMA Finite ==
  ASSUME TypeOK
  PROVE  /\ IsFiniteSet(Active) /\ IsFiniteSet(Fresh) /\ IsFiniteSet(Passed)
         /\ Cardinality(Active) \in Nat /\ Cardinality(Fresh) \in Nat
         /\ Cardinality(Fresh) <= Cardinality(Active)
         /\ IsFiniteSet(Timely) /\ Cardinality(Timely) \in Nat
         /\ Cardinality(Passed) \in Nat
         /\ Cardinality(Calls) \in Nat /\ Cardinality(Passed) <= Cardinality(Calls)
  <1>1. IsFiniteSet(Active)
        BY FiniteRuns, FS_Subset DEF Active
  <1>2. IsFiniteSet(Fresh) /\ Cardinality(Fresh) <= Cardinality(Active)
        BY <1>1, FS_Subset DEF Fresh
  <1>5. IsFiniteSet(Timely)
        BY <1>1, FS_Subset DEF Timely
  <1>3. IsFiniteSet(Calls)
        BY Bounds
  <1>4. IsFiniteSet(Passed) /\ Cardinality(Passed) <= Cardinality(Calls)
        BY <1>3, FS_Subset DEF Passed
  <1> QED
      BY <1>1, <1>2, <1>3, <1>4, <1>5, FS_CardinalityType

LEMMA OneMore ==
  ASSUME NEW S, IsFiniteSet(S), NEW x
  PROVE  IsFiniteSet(S \cup {x}) /\ Cardinality(S \cup {x}) <= Cardinality(S) + 1
  <1>1. Cardinality(S) \in Nat
        BY FS_CardinalityType
  <1>2. CASE x \in S
        <2>1. S \cup {x} = S
              BY <1>2
        <2>2. Cardinality(S \cup {x}) = Cardinality(S) /\ IsFiniteSet(S \cup {x})
              BY <2>1
        <2> QED
            BY <1>1, <2>2
  <1>3. CASE x \notin S
        <2>1. Cardinality(S \cup {x}) = Cardinality(S) + 1 /\ IsFiniteSet(S \cup {x})
              BY <1>3, FS_AddElement
        <2> QED
            BY <1>1, <2>1
  <1> QED
      BY <1>2, <1>3

LEMMA LimitShrinks ==
  ASSUME TypeOK, LimitHolds, Fresh' \subseteq Fresh, Passed' \subseteq Passed
  PROVE  LimitHolds'
  <1>1. Cardinality(Fresh') \in Nat /\ Cardinality(Fresh') <= Cardinality(Fresh)
        BY Finite, FS_Subset, FS_CardinalityType
  <1>2. Cardinality(Passed') \in Nat /\ Cardinality(Passed') <= Cardinality(Passed)
        BY Finite, FS_Subset, FS_CardinalityType
  <1> QED
      BY <1>1, <1>2, Finite, Bounds DEF LimitHolds

\* Room is left as long as no request counts and none inserts.
LEMMA RoomStays ==
  ASSUME TypeOK, RoomIsLeft, Timely' \subseteq Timely, Worked' = Worked,
         \A c \in Passed' : c \in Passed /\ call'[c].seen = call[c].seen
  PROVE  RoomIsLeft'
  <1>1. Cardinality(Timely') \in Nat /\ Cardinality(Timely') <= Cardinality(Timely)
        BY Finite, FS_Subset, FS_CardinalityType
  <1>2. Cardinality(Timely) \in Nat /\ MaxActive \in Nat
        BY Finite, Bounds
  <1> QED
      BY <1>1, <1>2 DEF RoomIsLeft

-----------------------------------------------------------------------------
(* Each conjunct is kept by every step                                     *)

\* The kinds of steps.
LEMMA Steps ==
  ASSUME TypeOK, Blank, RetriesFollow, RunsExist, [Next]_vars
  PROVE  \/ \E c \in Calls : \/ StartEffects(c) \/ BeginTick(c) \/ MiddleEffects(c)
                             \/ InsertEffects(c) \/ TieEffects(c) \/ Settle(c) \/ Crash(c)
                             \/ \E r \in Runs : BeginRetry(c, r)
         \/ RunEffects \/ TimePasses \/ SaveSchedule \/ UNCHANGED vars
  <1>1. ASSUME NEW c \in Calls, Request(c)
        PROVE  StartEffects(c) \/ BeginTick(c) \/ \E r \in Runs : BeginRetry(c, r)
        BY <1>1, StartEffect DEF Request
  <1>2. ASSUME NEW c \in Calls, Handle(c)
        PROVE  MiddleEffects(c) \/ InsertEffects(c) \/ TieEffects(c) \/ Settle(c)
        <2>1. CASE Insert(c)
              BY <2>1, InsertEffect DEF RetriesFollow, Insert, Rows
        <2>2. CASE Tie(c)
              BY <2>2, TieEffect DEF RunsExist, Tie
        <2>3. CASE DispatchAccepted(c) \/ DispatchRejected(c) \/ DispatchError(c)
              BY <2>3, DispatchEffect
              DEF RunsExist, DispatchAccepted, DispatchRejected, DispatchError
        <2> QED
              BY <1>2, <2>1, <2>2, <2>3, CountEffect, DailyEffect, LookUpEffect DEF Handle
  <1>3. ASSUME NEW r \in Runs, \/ \E status \in {"RUNNING", "COMPLETED", "FAILED"} :
                                  Progress(r, status)
                             \/ \E status \in {"RUNNING", "FAILED"} : WriteLate(r, status)
        PROVE  RunEffects
        BY <1>3, ProgressEffect, WriteLateEffect
  <1> QED
      BY <1>1, <1>2, <1>3 DEF Next

LEMMA BlankStep ==
  ASSUME TypeOK, Blank, RetriesFollow, RunsExist, [Next]_vars
  PROVE  Blank'
  <1>1. ASSUME NEW c \in Calls, StartEffects(c) PROVE Blank'
        BY <1>1, CallFields, Initially DEF Blank, Rows, StartEffects, OthersWait
  <1>2. ASSUME NEW c \in Calls, NEW r \in Runs, BeginRetry(c, r) PROVE Blank'
        BY <1>2, BeginRetryEffect, CallFields, Initially DEF Blank, Rows, OthersWait
  <1>3. ASSUME NEW c \in Calls, BeginTick(c) PROVE Blank'
        BY <1>3, BeginTickEffect, CallFields, Initially DEF Blank, Rows, OthersWait
  <1>4. ASSUME NEW c \in Calls, MiddleEffects(c) PROVE Blank'
        BY <1>4, CallFields, Initially
        DEF Blank, Rows, MiddleEffects, Refused, Answered, Served, Continues, Goes, Ends,
            OthersWait, Quiet
  <1>5. ASSUME NEW c \in Calls, InsertEffects(c) PROVE Blank'
        BY <1>5, CallFields, Initially DEF Blank, Rows, InsertEffects, Goes, OthersWait
  <1>6. ASSUME NEW c \in Calls, TieEffects(c) PROVE Blank'
        <2>1. call[c].run \in Rows
              BY <1>6 DEF TieEffects, Blank, RetriesFollow
        <2>2. Rows' = Rows
              BY <1>6 DEF TieEffects, Rows
        <2>3. \A r \in Runs \ Rows : run'[r] = NoRun
              BY <1>6, <2>1 DEF TieEffects, Blank
        <2>4. \A d \in Calls : /\ call'[d].pc = "idle" => call'[d].mode # "tick"
                               /\ call'[d].pc = "settle" => call'[d].mode = "tick"
                               /\ call'[d].pc = "tie" => call'[d].mode = "retry"
                               /\ call'[d].mode = "rematch" => call'[d].pc = "lookup"
              BY <1>6, Initially DEF TieEffects, Ends, OthersWait, Blank
        <2> QED
              BY <2>2, <2>3, <2>4 DEF Blank
  <1>7. ASSUME NEW c \in Calls, Settle(c) PROVE Blank'
        BY <1>7, SettleEffect, CallFields, Initially DEF Blank, Rows, Ends, OthersWait
  <1>8. ASSUME NEW c \in Calls, Crash(c) PROVE Blank'
        BY <1>8, CrashEffect, CallFields, Initially DEF Blank, Rows, Ends, OthersWait
  <1>9. CASE RunEffects
        BY <1>9, CallFields, Initially DEF RunEffects, Blank, Rows, Quiet
  <1>10. CASE TimePasses
        BY <1>10, CallFields, Initially DEF Blank, Rows, TimePasses
  <1>11. CASE SaveSchedule
        BY <1>11, CallFields, Initially DEF Blank, Rows, SaveSchedule
  <1>12. CASE UNCHANGED vars
        BY <1>12, CallFields, Initially DEF Blank, Rows, vars
  <1> QED
      BY Steps, <1>1, <1>2, <1>3, <1>4, <1>5, <1>6, <1>7, <1>8, <1>9, <1>10, <1>11, <1>12

LEMMA ExistStep ==
  ASSUME TypeOK, Blank, RetriesFollow, RunsExist, [Next]_vars
  PROVE  RunsExist'
  <1>1. ASSUME NEW c \in Calls, StartEffects(c) PROVE RunsExist'
        BY <1>1, CallFields, Initially DEF RunsExist, StartEffects, OthersWait
  <1>2. ASSUME NEW c \in Calls, NEW r \in Runs, BeginRetry(c, r) PROVE RunsExist'
        BY <1>2, BeginRetryEffect, CallFields, Initially DEF RunsExist, OthersWait
  <1>3. ASSUME NEW c \in Calls, BeginTick(c) PROVE RunsExist'
        BY <1>3, BeginTickEffect, CallFields, Initially DEF RunsExist, OthersWait
  <1>4. ASSUME NEW c \in Calls, MiddleEffects(c) PROVE RunsExist'
        <2>1. CASE Refused(c)
              BY <1>4, <2>1, Initially DEF Refused, Goes, Ends, OthersWait, RunsExist
        <2>2. CASE call[c].pc \in {"lookup", "dispatch"} /\ Answered(c)
              <3>1. call[c].mode = "retry" => call[c].pc = "dispatch"
                    BY <2>2 DEF RetriesFollow
              <3> QED
                    BY <1>4, <2>2, <3>1, Initially
                    DEF Answered, Goes, Ends, OthersWait, RunsExist
        <2>3. CASE Continues(c)
              BY <1>4, <2>3 DEF Continues, Goes, OthersWait, RunsExist
        <2> QED
              BY <1>4, <2>1, <2>2, <2>3 DEF MiddleEffects
  <1>5. ASSUME NEW c \in Calls, InsertEffects(c) PROVE RunsExist'
        BY <1>5, CallFields, Initially DEF RunsExist, InsertEffects, Goes, OthersWait
  <1>6. ASSUME NEW c \in Calls, TieEffects(c) PROVE RunsExist'
        BY <1>6, CallFields, Initially DEF RunsExist, TieEffects, Ends, OthersWait
  <1>7. ASSUME NEW c \in Calls, Settle(c) PROVE RunsExist'
        BY <1>7, SettleEffect, CallFields, Initially DEF RunsExist, Ends, OthersWait
  <1>8. ASSUME NEW c \in Calls, Crash(c) PROVE RunsExist'
        BY <1>8, CrashEffect, CallFields, Initially DEF RunsExist, Ends, OthersWait
  <1>9. CASE RunEffects
        BY <1>9, CallFields, Initially DEF RunEffects, RunsExist, Quiet
  <1>10. CASE TimePasses
        BY <1>10, CallFields, Initially DEF RunsExist, TimePasses
  <1>11. CASE SaveSchedule
        BY <1>11, CallFields, Initially DEF RunsExist, SaveSchedule
  <1>12. CASE UNCHANGED vars
        BY <1>12, CallFields, Initially DEF RunsExist, vars
  <1> QED
      BY Steps, <1>1, <1>2, <1>3, <1>4, <1>5, <1>6, <1>7, <1>8, <1>9, <1>10, <1>11, <1>12

LEMMA RetriesStep ==
  ASSUME TypeOK, Blank, RetriesFollow, RunsExist, RetryChainBounded, [Next]_vars
  PROVE  RetriesFollow'
  <1>1. ASSUME NEW c \in Calls, StartEffects(c) PROVE RetriesFollow'
        BY <1>1, CallFields, Initially, RunFields
        DEF RetriesFollow, Rows, RunsExist, StartEffects, OthersWait
  <1>2. ASSUME NEW c \in Calls, NEW r \in Runs, BeginRetry(c, r) PROVE RetriesFollow'
        BY <1>2, BeginRetryEffect, CallFields, Initially, RunFields
        DEF RetriesFollow, Rows, RunsExist, OthersWait
  <1>3. ASSUME NEW c \in Calls, BeginTick(c) PROVE RetriesFollow'
        BY <1>3, BeginTickEffect, CallFields, Initially, RunFields
        DEF RetriesFollow, Rows, RunsExist, OthersWait
  <1>4. ASSUME NEW c \in Calls, MiddleEffects(c) PROVE RetriesFollow'
        BY <1>4, CallFields, Initially, RunFields
        DEF RetriesFollow, Rows, RunsExist, MiddleEffects, Refused, Answered, Served,
            Continues, Goes, Ends, OthersWait, Quiet
  <1>5. ASSUME NEW c \in Calls, InsertEffects(c) PROVE RetriesFollow'
        BY <1>5, CallFields, Initially, RunFields
        DEF RetriesFollow, Rows, RunsExist, InsertEffects, Goes, OthersWait
  <1>6. ASSUME NEW c \in Calls, TieEffects(c) PROVE RetriesFollow'
        BY <1>6, CallFields, Initially, RunFields
        DEF RetriesFollow, Rows, RunsExist, TieEffects, Ends, OthersWait
  <1>7. ASSUME NEW c \in Calls, Settle(c) PROVE RetriesFollow'
        BY <1>7, SettleEffect, CallFields, Initially, RunFields
        DEF RetriesFollow, Rows, RunsExist, Ends, OthersWait
  <1>8. ASSUME NEW c \in Calls, Crash(c) PROVE RetriesFollow'
        BY <1>8, CrashEffect, CallFields, Initially, RunFields
        DEF RetriesFollow, Rows, RunsExist, Ends, OthersWait
  <1>9. CASE RunEffects
        BY <1>9, CallFields, Initially, RunFields
        DEF RunEffects, RetriesFollow, Rows, RunsExist, Quiet
  <1>10. CASE TimePasses
        BY <1>10, CallFields, Initially, RunFields
        DEF RetriesFollow, Rows, RunsExist, TimePasses
  <1>11. CASE SaveSchedule
        BY <1>11, CallFields, Initially, RunFields
        DEF RetriesFollow, Rows, RunsExist, SaveSchedule
  <1>12. CASE UNCHANGED vars
        BY <1>12, CallFields, Initially, RunFields DEF RetriesFollow, Rows, RunsExist, vars
  <1> QED
      BY Steps, <1>1, <1>2, <1>3, <1>4, <1>5, <1>6, <1>7, <1>8, <1>9, <1>10, <1>11, <1>12

LEMMA ChainStep ==
  ASSUME TypeOK, Blank, RetriesFollow, RunsExist, RetryChainBounded, [Next]_vars
  PROVE  RetryChainBounded'
  <1>1. ASSUME NEW c \in Calls, StartEffects(c) PROVE RetryChainBounded'
        BY <1>1, CallFields, Initially, RunFields
        DEF RetryChainBounded, StartEffects, OthersWait
  <1>2. ASSUME NEW c \in Calls, NEW r \in Runs, BeginRetry(c, r) PROVE RetryChainBounded'
        BY <1>2, BeginRetryEffect, CallFields, Initially, RunFields
        DEF RetryChainBounded, OthersWait
  <1>3. ASSUME NEW c \in Calls, BeginTick(c) PROVE RetryChainBounded'
        BY <1>3, BeginTickEffect, CallFields, Initially, RunFields
        DEF RetryChainBounded, OthersWait
  <1>4. ASSUME NEW c \in Calls, MiddleEffects(c) PROVE RetryChainBounded'
        BY <1>4, CallFields, Initially, RunFields
        DEF RetryChainBounded, MiddleEffects, Refused, Answered, Served, Continues, Goes,
            Ends, OthersWait, Quiet
  <1>5. ASSUME NEW c \in Calls, InsertEffects(c) PROVE RetryChainBounded'
        <2>1. PICK r \in Runs \ Rows :
                /\ \A q \in Runs : q # r => run'[q] = run[q]
                /\ run'[r].retry = 0
                /\ IF call[c].mode = "retry"
                   THEN /\ run'[r].depth = run[call[c].base].depth + 1
                        /\ \/ run'[r].lost
                           \/ ~run[call[c].base].lost /\ call[c].retry = run[call[c].base].depth
                   ELSE run'[r].depth = 0
              BY <1>5 DEF InsertEffects
        <2>2. call[c].mode = "retry" => call[c].retry < Depth /\ call[c].retry \in Nat
              BY <1>5, CallFields DEF InsertEffects, RetriesFollow
        <2>3. ~run'[r].lost => run'[r].depth <= Depth
              BY <2>1, <2>2, Numbers
        <2> QED
              BY <2>1, <2>3 DEF RetryChainBounded
  <1>6. ASSUME NEW c \in Calls, TieEffects(c) PROVE RetryChainBounded'
        <2>1. /\ call[c].retry < Depth /\ call[c].retry \in Nat
              /\ run[call[c].run].lost \/ run[call[c].run].depth = call[c].retry + 1
              BY <1>6, CallFields DEF TieEffects, Blank, RetriesFollow
        <2> QED
              BY <1>6, <2>1 DEF TieEffects, RetryChainBounded
  <1>7. ASSUME NEW c \in Calls, Settle(c) PROVE RetryChainBounded'
        BY <1>7, SettleEffect, CallFields, Initially, RunFields
        DEF RetryChainBounded, Ends, OthersWait
  <1>8. ASSUME NEW c \in Calls, Crash(c) PROVE RetryChainBounded'
        BY <1>8, CrashEffect, CallFields, Initially, RunFields
        DEF RetryChainBounded, Ends, OthersWait
  <1>9. CASE RunEffects
        BY <1>9, CallFields, Initially, RunFields DEF RunEffects, RetryChainBounded, Quiet
  <1>10. CASE TimePasses
        BY <1>10, CallFields, Initially, RunFields DEF RetryChainBounded, TimePasses
  <1>11. CASE SaveSchedule
        BY <1>11, CallFields, Initially, RunFields DEF RetryChainBounded, SaveSchedule
  <1>12. CASE UNCHANGED vars
        BY <1>12, CallFields, Initially, RunFields DEF RetryChainBounded, vars
  <1> QED
      BY Steps, <1>1, <1>2, <1>3, <1>4, <1>5, <1>6, <1>7, <1>8, <1>9, <1>10, <1>11, <1>12

LEMMA TicksStep ==
  ASSUME TypeOK, Blank, RetriesFollow, RunsExist, TicksAreAlone, FiredIsPast, OneRunPerSlot,
         [Next]_vars
  PROVE  TicksAreAlone'
  <1>1. ASSUME NEW c \in Calls, StartEffects(c) PROVE TicksAreAlone'
        BY <1>1, CallFields, Initially DEF TicksAreAlone, Ticks, StartEffects, OthersWait
  <1>2. ASSUME NEW c \in Calls, NEW r \in Runs, BeginRetry(c, r) PROVE TicksAreAlone'
        BY <1>2, BeginRetryEffect, CallFields, Initially
        DEF TicksAreAlone, Ticks, OthersWait
  <1>3. ASSUME NEW c \in Calls, BeginTick(c) PROVE TicksAreAlone'
        <2>0. /\ call[c].pc = "idle" /\ next \in Times /\ next <= now + 1
              /\ OthersWait(c) /\ now' = now
              /\ call'[c].mode = "tick" /\ call'[c].due = next /\ call'[c].time = now
              /\ \A s \in Times : slot'[s] =
                   IF OtherTicks(c) # {} /\ (s = next \/ \E d \in OtherTicks(c) : s = call[d].due)
                   THEN "overlapped" ELSE slot[s]
              BY <1>3, BeginTickEffect
        <2>1. OtherTicks(c) = Ticks /\ Ticks' = Ticks \cup {c}
              BY <2>0 DEF Blank, OtherTicks, Ticks, OthersWait
        <2>2. /\ next <= now + 1 /\ now <= now
              /\ slot'[next] = "overlapped" \/ Ticks' = {c}
              /\ slot'[next] # "fired"
              BY <2>0, <2>1, Numbers DEF FiredIsPast
        <2>3. ASSUME NEW d \in Ticks
              PROVE  /\ call'[d] = call[d] /\ call[d].due <= call[d].time + 1 /\ call[d].time <= now
                     /\ slot'[call[d].due] = "overlapped"
              <3>1. d # c /\ d \in Calls
                    BY <2>0, <2>3 DEF Blank, Ticks
              <3> QED
                    BY <2>0, <2>1, <2>3, <3>1, CallFields DEF TicksAreAlone, OthersWait
        <2> QED
              BY <2>0, <2>1, <2>2, <2>3 DEF TicksAreAlone
  <1>4. ASSUME NEW c \in Calls, MiddleEffects(c) PROVE TicksAreAlone'
        <2>0. call[c].pc # "settle"
              BY <1>4 DEF MiddleEffects
        <2>1. CASE Refused(c) \/ Continues(c)
              <3>1. /\ \A d \in Calls : /\ call'[d].mode = "tick" => call[d].mode = "tick"
                                        /\ call[d].mode = "tick" => /\ call'[d].mode = "tick"
                                                                    /\ call'[d].due = call[d].due
                                                                    /\ call'[d].time = call[d].time
                    BY <1>4, <2>1, Initially
                    DEF MiddleEffects, Refused, Continues, Goes, Ends, OthersWait
              <3>2. \A d \in Calls : call'[d].pc # "settle" => call[d].pc # "settle"
                    BY <2>0, <2>1 DEF Refused, Continues, Goes, Ends, OthersWait
              <3>3. UNCHANGED <<slot, now>>
                    BY <1>4, <2>1 DEF MiddleEffects, Refused, Continues
              <3>4. Ticks' = Ticks
                    BY <3>1 DEF Ticks
              <3> QED
                    BY <3>1, <3>2, <3>3, <3>4 DEF TicksAreAlone, Ticks
        <2>2. CASE Answered(c)
              <3>1. /\ \A d \in Calls : /\ call'[d].mode = "tick" => call[d].mode = "tick"
                                        /\ call[d].mode = "tick" => /\ call'[d].mode = "tick"
                                                                    /\ call'[d].due = call[d].due
                                                                    /\ call'[d].time = call[d].time
                    BY <2>2, Initially DEF Answered, Goes, Ends, OthersWait
              <3>2. Ticks' = Ticks /\ now' = now
                    BY <1>4, <3>1 DEF MiddleEffects, Ticks
              <3>3. CASE call[c].mode = "tick"
                    <4>1. Goes(c, "settle") /\ Served(c) /\ c \in Ticks
                          BY <2>2, <3>3 DEF Answered, Ticks
                    <4>2. \A s \in Times : slot[s] = "overlapped" => slot'[s] = "overlapped"
                          BY <4>1 DEF Served
                    <4>3. \A d \in Ticks : slot'[call'[d].due] = "overlapped" \/ Ticks' = {d}
                          BY <3>1, <3>2, <4>2, CallFields DEF TicksAreAlone, Ticks
                    <4>4. \A d \in Ticks : call'[d].pc # "settle" => slot'[call'[d].due] # "fired"
                          BY <3>1, <4>1, <4>2, CallFields
                          DEF TicksAreAlone, Ticks, Goes, OthersWait
                    <4> QED
                          BY <3>1, <3>2, <4>3, <4>4 DEF TicksAreAlone, Ticks
              <3>4. CASE call[c].mode # "tick"
                    <4>1. UNCHANGED slot /\ \A d \in Ticks : call'[d] = call[d]
                          BY <2>2, <3>4 DEF Answered, Goes, Ends, OthersWait, Ticks
                    <4> QED
                          BY <3>2, <4>1 DEF TicksAreAlone
              <3> QED
                    BY <3>3, <3>4
        <2> QED
              BY <1>4, <2>1, <2>2 DEF MiddleEffects
  <1>5. ASSUME NEW c \in Calls, InsertEffects(c) PROVE TicksAreAlone'
        BY <1>5, CallFields, Initially
        DEF TicksAreAlone, Ticks, InsertEffects, Goes, OthersWait
  <1>6. ASSUME NEW c \in Calls, TieEffects(c) PROVE TicksAreAlone'
        BY <1>6, CallFields, Initially
        DEF TicksAreAlone, Ticks, TieEffects, Ends, OthersWait
  <1>7. ASSUME NEW c \in Calls, Settle(c) PROVE TicksAreAlone'
        BY <1>7, SettleEffect, CallFields, Initially
        DEF TicksAreAlone, Ticks, Ends, OthersWait
  <1>8. ASSUME NEW c \in Calls, Crash(c) PROVE TicksAreAlone'
        BY <1>8, CrashEffect, CallFields, Initially
        DEF TicksAreAlone, Ticks, Ends, OthersWait
  <1>9. CASE RunEffects
        BY <1>9, CallFields, Initially DEF RunEffects, TicksAreAlone, Ticks, Quiet
  <1>10. CASE TimePasses
        <2>1. \A c \in Ticks : call[c].time <= now /\ call[c].time \in Nat
              BY CallFields, Numbers DEF TicksAreAlone, Ticks
        <2>2. \A c \in Ticks : call[c].time <= now'
              BY <1>10, <2>1, Numbers DEF TimePasses
        <2>3. Ticks' = Ticks
              BY <1>10 DEF TimePasses, Ticks
        <2> QED
              BY <1>10, <2>2, <2>3 DEF TimePasses, TicksAreAlone
  <1>11. CASE SaveSchedule
        BY <1>11, CallFields, Initially DEF TicksAreAlone, Ticks, SaveSchedule
  <1>12. CASE UNCHANGED vars
        BY <1>12, CallFields, Initially DEF TicksAreAlone, Ticks, vars
  <1> QED
      BY Steps, <1>1, <1>2, <1>3, <1>4, <1>5, <1>6, <1>7, <1>8, <1>9, <1>10, <1>11, <1>12

LEMMA FiredStep ==
  ASSUME TypeOK, Blank, RetriesFollow, RunsExist, TicksAreAlone, FiredIsPast, OneRunPerSlot,
         [Next]_vars
  PROVE  FiredIsPast'
  <1>1. ASSUME NEW c \in Calls, StartEffects(c) PROVE FiredIsPast'
        <2>1. Ticks' = Ticks /\ \A d \in Ticks : call'[d] = call[d]
              BY <1>1 DEF StartEffects, OthersWait, Blank, Ticks
        <2> QED
              BY <1>1, <2>1 DEF StartEffects, FiredIsPast
  <1>2. ASSUME NEW c \in Calls, NEW r \in Runs, BeginRetry(c, r) PROVE FiredIsPast'
        <2>0. /\ UNCHANGED <<next, now, slot>>
              /\ call[c].pc = "idle" /\ OthersWait(c) /\ call'[c].mode = "retry"
              BY <1>2, BeginRetryEffect
        <2>1. Ticks' = Ticks /\ \A d \in Ticks : call'[d] = call[d]
              BY <2>0 DEF OthersWait, Blank, Ticks
        <2> QED
              BY <2>0, <2>1 DEF FiredIsPast
  <1>3. ASSUME NEW c \in Calls, BeginTick(c) PROVE FiredIsPast'
        <2>0. /\ call[c].pc = "idle" /\ UNCHANGED <<next, now>> /\ OthersWait(c)
              /\ call'[c].mode = "tick" /\ call'[c].due = next /\ call'[c].time = now
              /\ \A s \in Times : slot'[s] = "fired" => slot[s] = "fired"
              BY <1>3, BeginTickEffect
        <2>1. Ticks' = Ticks \cup {c} /\ \A d \in Ticks : call'[d] = call[d]
              BY <2>0 DEF Blank, Ticks, OthersWait
        <2> QED
              BY <2>0, <2>1 DEF FiredIsPast
  <1>4. ASSUME NEW c \in Calls, MiddleEffects(c) PROVE FiredIsPast'
        <2>1. /\ Ticks' = Ticks /\ UNCHANGED <<next, now>>
              /\ \A d \in Ticks : call'[d].due = call[d].due /\ call'[d].time = call[d].time
              <3>1. CASE Refused(c) \/ Continues(c)
                    BY <1>4, <3>1, Initially
                    DEF MiddleEffects, Refused, Continues, Goes, Ends, OthersWait, Ticks
              <3>2. CASE Answered(c)
                    BY <1>4, <3>2, Initially
                    DEF MiddleEffects, Answered, Goes, Ends, OthersWait, Ticks
              <3> QED
                    BY <1>4, <3>1, <3>2 DEF MiddleEffects
        <2>2. CASE slot' = slot
              BY <2>1, <2>2 DEF FiredIsPast
        <2>3. CASE call[c].mode = "tick" /\ Served(c)
              <3>1. c \in Ticks /\ call[c].due \in Times /\ call[c].time \in Times
                    BY <2>3, CallFields DEF Ticks
              <3>2. ASSUME NEW s \in Times, slot'[s] = "fired", slot[s] # "fired"
                    PROVE  s = call[c].due /\ Ticks = {c} /\ s <= call[c].time /\ s <= now
                    <4>1. /\ s = call[c].due /\ slot[s] # "overlapped"
                          /\ call[c].due <= call[c].time
                          BY <2>3, <3>2 DEF Served
                    <4>2. call[c].time <= now /\ Ticks = {c}
                          BY <3>1, <4>1 DEF TicksAreAlone
                    <4>3. s <= call[c].time
                          BY <4>1, <4>2
                    <4>4. s \in Nat /\ call[c].time \in Nat /\ now \in Nat
                          BY <3>1, Numbers
                    <4>5. s <= now
                          BY <4>2, <4>3, <4>4
                    <4> QED
                          BY <4>1, <4>2, <4>3, <4>5
              <3> QED
                    BY <2>1, <3>1, <3>2 DEF FiredIsPast
        <2> QED
              BY <1>4, <2>2, <2>3 DEF MiddleEffects, Refused, Answered, Continues
  <1>5. ASSUME NEW c \in Calls, InsertEffects(c) PROVE FiredIsPast'
        BY <1>5, CallFields, Initially
        DEF FiredIsPast, Ticks, InsertEffects, Goes, OthersWait
  <1>6. ASSUME NEW c \in Calls, TieEffects(c) PROVE FiredIsPast'
        <2>1. Ticks' = Ticks /\ \A d \in Ticks : call'[d] = call[d]
              BY <1>6, Initially DEF TieEffects, Ends, OthersWait, Blank, Ticks
        <2> QED
              BY <1>6, <2>1 DEF TieEffects, FiredIsPast
  <1>7. ASSUME NEW c \in Calls, Settle(c) PROVE FiredIsPast'
        <2>0. /\ UNCHANGED <<now, slot>> /\ call[c].pc = "settle" /\ Ends(c)
              /\ \/ next' = call[c].time + 1
                 \/ call[c].due > call[c].time /\ next' = call[c].due + 1
              BY <1>7, SettleEffect
        <2>1. c \in Ticks
              BY <2>0 DEF Blank, Ticks
        <2>2. Ticks' \subseteq Ticks /\ \A d \in Ticks' : call'[d] = call[d]
              BY <2>0, Initially DEF Ends, OthersWait, Ticks
        <2>3. \A s \in Times : slot[s] = "fired" => s < next'
              <3>1. call[c].time \in Nat /\ call[c].due \in Nat
                    BY CallFields, Numbers
              <3>2. \A s \in Times : slot[s] = "fired" => s <= call[c].time
                    BY <2>1 DEF FiredIsPast
              <3>3. \A s \in Times : s <= call[c].time => s < next'
                    <4> SUFFICES ASSUME NEW s \in Times, s <= call[c].time
                                 PROVE  s < next'
                          OBVIOUS
                    <4>1. s \in Nat
                          BY Numbers
                    <4> QED
                          BY <2>0, <3>1, <4>1
              <3> QED
                    BY <3>2, <3>3
        <2> QED
              BY <2>0, <2>2, <2>3 DEF FiredIsPast
  <1>8. ASSUME NEW c \in Calls, Crash(c) PROVE FiredIsPast'
        BY <1>8, CrashEffect, CallFields, Initially DEF FiredIsPast, Ticks, Ends, OthersWait
  <1>9. CASE RunEffects
        BY <1>9, CallFields, Initially DEF RunEffects, FiredIsPast, Ticks, Quiet
  <1>10. CASE TimePasses
        <2>1. Ticks' = Ticks
              BY <1>10 DEF TimePasses, Ticks
        <2>2. \A s \in Times : s <= now => s <= now'
              BY <1>10, Numbers DEF TimePasses
        <2> QED
              BY <1>10, <2>1, <2>2 DEF TimePasses, FiredIsPast
  <1>11. CASE SaveSchedule
        <2>1. Ticks' = Ticks
              BY <1>11 DEF SaveSchedule, Ticks
        <2>2. \A s \in Times : s <= now => s < next'
              BY <1>11, Numbers DEF SaveSchedule
        <2> QED
              BY <1>11, <2>1, <2>2 DEF SaveSchedule, FiredIsPast
  <1>12. CASE UNCHANGED vars
        BY <1>12, CallFields, Initially DEF FiredIsPast, Ticks, vars
  <1> QED
      BY Steps, <1>1, <1>2, <1>3, <1>4, <1>5, <1>6, <1>7, <1>8, <1>9, <1>10, <1>11, <1>12

LEMMA SlotStep ==
  ASSUME TypeOK, Blank, RetriesFollow, RunsExist, TicksAreAlone, FiredIsPast, OneRunPerSlot,
         [Next]_vars
  PROVE  OneRunPerSlot'
  <1>1. ASSUME NEW c \in Calls, StartEffects(c) PROVE OneRunPerSlot'
        BY <1>1, CallFields, Initially DEF OneRunPerSlot, Ticks, StartEffects, OthersWait
  <1>2. ASSUME NEW c \in Calls, NEW r \in Runs, BeginRetry(c, r) PROVE OneRunPerSlot'
        BY <1>2, BeginRetryEffect, CallFields, Initially
        DEF OneRunPerSlot, Ticks, OthersWait
  <1>3. ASSUME NEW c \in Calls, BeginTick(c) PROVE OneRunPerSlot'
        BY <1>3, BeginTickEffect, CallFields, Initially DEF OneRunPerSlot, Ticks, OthersWait
  <1>4. ASSUME NEW c \in Calls, MiddleEffects(c) PROVE OneRunPerSlot'
        <2>1. CASE slot' = slot
              BY <2>1 DEF OneRunPerSlot
        <2>2. CASE call[c].mode = "tick" /\ Served(c)
              <3>1. slot[call[c].due] # "fired"
                    BY <1>4, <2>2 DEF MiddleEffects, TicksAreAlone, Ticks
              <3> QED
                    BY <2>2, <3>1, CallFields DEF Served, OneRunPerSlot, TypeOK
        <2> QED
              BY <1>4, <2>1, <2>2 DEF MiddleEffects, Refused, Answered, Continues
  <1>5. ASSUME NEW c \in Calls, InsertEffects(c) PROVE OneRunPerSlot'
        BY <1>5, CallFields, Initially
        DEF OneRunPerSlot, Ticks, InsertEffects, Goes, OthersWait
  <1>6. ASSUME NEW c \in Calls, TieEffects(c) PROVE OneRunPerSlot'
        BY <1>6, CallFields, Initially
        DEF OneRunPerSlot, Ticks, TieEffects, Ends, OthersWait
  <1>7. ASSUME NEW c \in Calls, Settle(c) PROVE OneRunPerSlot'
        BY <1>7, SettleEffect, CallFields, Initially
        DEF OneRunPerSlot, Ticks, Ends, OthersWait
  <1>8. ASSUME NEW c \in Calls, Crash(c) PROVE OneRunPerSlot'
        BY <1>8, CrashEffect, CallFields, Initially
        DEF OneRunPerSlot, Ticks, Ends, OthersWait
  <1>9. CASE RunEffects
        BY <1>9, CallFields, Initially DEF RunEffects, OneRunPerSlot, Ticks, Quiet
  <1>10. CASE TimePasses
        BY <1>10, CallFields, Initially DEF OneRunPerSlot, Ticks, TimePasses
  <1>11. CASE SaveSchedule
        BY <1>11, CallFields, Initially DEF OneRunPerSlot, Ticks, SaveSchedule
  <1>12. CASE UNCHANGED vars
        BY <1>12, CallFields, Initially DEF OneRunPerSlot, Ticks, vars
  <1> QED
      BY Steps, <1>1, <1>2, <1>3, <1>4, <1>5, <1>6, <1>7, <1>8, <1>9, <1>10, <1>11, <1>12

LEMMA LimitStep ==
  ASSUME TypeOK, Blank, RetriesFollow, RunsExist, LimitHolds, [Next]_vars
  PROVE  LimitHolds'
  <1>1. ASSUME NEW c \in Calls, StartEffects(c) PROVE LimitHolds'
        <2>1. Fresh' \subseteq Fresh
              BY <1>1 DEF StartEffects, OthersWait, Fresh, Active
        <2>2. Passed' \subseteq Passed
              BY <1>1, Initially DEF StartEffects, OthersWait, Passed
        <2> QED
              BY <2>1, <2>2, LimitShrinks
  <1>2. ASSUME NEW c \in Calls, NEW r \in Runs, BeginRetry(c, r) PROVE LimitHolds'
        <2>1. Fresh' \subseteq Fresh
              BY <1>2, BeginRetryEffect DEF OthersWait, Fresh, Active
        <2>2. Passed' \subseteq Passed
              BY <1>2, BeginRetryEffect, Initially DEF OthersWait, Passed
        <2> QED
              BY <2>1, <2>2, LimitShrinks
  <1>3. ASSUME NEW c \in Calls, BeginTick(c) PROVE LimitHolds'
        <2>1. Fresh' \subseteq Fresh
              BY <1>3, BeginTickEffect DEF OthersWait, Fresh, Active
        <2>2. Passed' \subseteq Passed
              BY <1>3, BeginTickEffect, Initially DEF OthersWait, Passed
        <2> QED
              BY <2>1, <2>2, LimitShrinks
  <1>4. ASSUME NEW c \in Calls, MiddleEffects(c) PROVE LimitHolds'
        <2>1. Fresh' \subseteq Fresh
              BY <1>4 DEF MiddleEffects, Quiet, Fresh, Active
        <2>2. CASE Refused(c) \/ Answered(c)
              <3>1. Passed' \subseteq Passed
                    BY <2>2, Initially DEF Refused, Answered, Goes, Ends, OthersWait, Passed
              <3> QED
                    BY <2>1, <3>1, LimitShrinks
        <2>3. CASE Continues(c) /\ call[c].pc # "active"
              <3>1. Passed' \subseteq Passed
                    BY <2>3 DEF Continues, Goes, OthersWait, Passed
              <3> QED
                    BY <2>1, <3>1, LimitShrinks
        <2>4. CASE Continues(c) /\ call[c].pc = "active"
              <3>1. Cardinality(Fresh') < MaxActive /\ Cardinality(Fresh') \in Nat
                    <4>1. IsFiniteSet(Active')
                          BY FiniteRuns, FS_Subset DEF Active
                    <4>2. Cardinality(Fresh') <= Cardinality(Active') /\ IsFiniteSet(Fresh')
                          BY <4>1, FS_Subset DEF Fresh
                    <4> QED
                          BY <2>4, <4>1, <4>2, Bounds, FS_CardinalityType DEF Continues
              <3>2. Cardinality(Passed') <= Cardinality(Calls) /\ Cardinality(Passed') \in Nat
                    <4>1. Passed' \subseteq Calls
                          BY DEF Passed
                    <4> QED
                          BY <4>1, Bounds, FS_Subset, FS_CardinalityType
              <3> QED
                    BY <3>1, <3>2, Finite, Bounds DEF LimitHolds
        <2> QED
              BY <1>4, <2>2, <2>3, <2>4 DEF MiddleEffects
  <1>5. ASSUME NEW c \in Calls, InsertEffects(c) PROVE LimitHolds'
        <2>1. PICK r \in Runs \ Rows :
                /\ Goes(c, "dispatch")
                /\ \A q \in Runs : q # r => run'[q] = run[q]
              BY <1>5 DEF InsertEffects
        <2>2. CASE call[c].mode = "rematch"
              BY <1>5, <2>2 DEF InsertEffects, Blank
        <2>3. CASE call[c].mode # "rematch"
              <3>1. c \in Passed /\ Passed' \subseteq Passed \ {c}
                    BY <1>5, <2>1, <2>3 DEF InsertEffects, Goes, OthersWait, Passed
              <3>2. /\ Cardinality(Passed') \in Nat
                    /\ Cardinality(Passed') <= Cardinality(Passed) - 1
                    <4>1. /\ IsFiniteSet(Passed \ {c})
                          /\ Cardinality(Passed \ {c}) = Cardinality(Passed) - 1
                          BY <3>1, Finite, FS_RemoveElement
                    <4> QED
                          BY <3>1, <4>1, FS_Subset, FS_CardinalityType
              <3>3. Fresh' \subseteq Fresh \cup {r}
                    BY <2>1 DEF Fresh, Active
              <3>4. /\ Cardinality(Fresh') \in Nat
                    /\ Cardinality(Fresh') <= Cardinality(Fresh) + 1
                    <4>1. /\ IsFiniteSet(Fresh \cup {r})
                          /\ Cardinality(Fresh \cup {r}) <= Cardinality(Fresh) + 1
                          BY Finite, OneMore
                    <4> QED
                          BY <3>3, <4>1, Finite, FS_Subset, FS_CardinalityType
              <3> QED
                    BY <3>2, <3>4, Finite, Bounds DEF LimitHolds
        <2> QED
              BY <2>2, <2>3
  <1>6. ASSUME NEW c \in Calls, TieEffects(c) PROVE LimitHolds'
        <2>1. Fresh' \subseteq Fresh
              BY <1>6 DEF TieEffects, Ends, OthersWait, Fresh, Active
        <2>2. Passed' \subseteq Passed
              BY <1>6, Initially DEF TieEffects, Ends, OthersWait, Passed
        <2> QED
              BY <2>1, <2>2, LimitShrinks
  <1>7. ASSUME NEW c \in Calls, Settle(c) PROVE LimitHolds'
        <2>1. Fresh' \subseteq Fresh
              BY <1>7, SettleEffect DEF Ends, OthersWait, Fresh, Active
        <2>2. Passed' \subseteq Passed
              BY <1>7, SettleEffect, Initially DEF Ends, OthersWait, Passed
        <2> QED
              BY <2>1, <2>2, LimitShrinks
  <1>8. ASSUME NEW c \in Calls, Crash(c) PROVE LimitHolds'
        <2>1. Fresh' \subseteq Fresh
              BY <1>8, CrashEffect DEF Ends, OthersWait, Fresh, Active
        <2>2. Passed' \subseteq Passed
              BY <1>8, CrashEffect, Initially DEF Ends, OthersWait, Passed
        <2> QED
              BY <2>1, <2>2, LimitShrinks
  <1>9. CASE RunEffects
        <2>1. Fresh' \subseteq Fresh
              BY <1>9 DEF RunEffects, Quiet, Fresh, Active
        <2>2. Passed' \subseteq Passed
              BY <1>9, Initially DEF RunEffects, Quiet, Passed
        <2> QED
              BY <2>1, <2>2, LimitShrinks
  <1>10. CASE TimePasses
        <2>1. Fresh' \subseteq Fresh
              BY <1>10 DEF TimePasses, Fresh, Active
        <2>2. Passed' \subseteq Passed
              BY <1>10, Initially DEF TimePasses, Passed
        <2> QED
              BY <2>1, <2>2, LimitShrinks
  <1>11. CASE SaveSchedule
        <2>1. Fresh' \subseteq Fresh
              BY <1>11 DEF SaveSchedule, Fresh, Active
        <2>2. Passed' \subseteq Passed
              BY <1>11, Initially DEF SaveSchedule, Passed
        <2> QED
              BY <2>1, <2>2, LimitShrinks
  <1>12. CASE UNCHANGED vars
        <2>1. Fresh' \subseteq Fresh
              BY <1>12 DEF vars, Fresh, Active
        <2>2. Passed' \subseteq Passed
              BY <1>12, Initially DEF vars, Passed
        <2> QED
              BY <2>1, <2>2, LimitShrinks
  <1> QED
      BY Steps, <1>1, <1>2, <1>3, <1>4, <1>5, <1>6, <1>7, <1>8, <1>9, <1>10, <1>11, <1>12

LEMMA RoomStep ==
  ASSUME TypeOK, Blank, RetriesFollow, RunsExist, RoomIsLeft, [Next]_vars
  PROVE  RoomIsLeft'
  <1>1. ASSUME NEW c \in Calls, StartEffects(c) PROVE RoomIsLeft'
        <2>1. Timely' \subseteq Timely /\ Worked' = Worked
              BY <1>1 DEF StartEffects, OthersWait, Timely, Worked, Active
        <2>2. \A d \in Passed' : d \in Passed /\ call'[d].seen = call[d].seen
              BY <1>1, Initially DEF StartEffects, OthersWait, Passed
        <2> QED
              BY <2>1, <2>2, RoomStays
  <1>2. ASSUME NEW c \in Calls, NEW r \in Runs, BeginRetry(c, r) PROVE RoomIsLeft'
        <2>1. Timely' \subseteq Timely /\ Worked' = Worked
              BY <1>2, BeginRetryEffect DEF OthersWait, Timely, Worked, Active
        <2>2. \A d \in Passed' : d \in Passed /\ call'[d].seen = call[d].seen
              BY <1>2, BeginRetryEffect, Initially DEF OthersWait, Passed
        <2> QED
              BY <2>1, <2>2, RoomStays
  <1>3. ASSUME NEW c \in Calls, BeginTick(c) PROVE RoomIsLeft'
        <2>1. Timely' \subseteq Timely /\ Worked' = Worked
              BY <1>3, BeginTickEffect DEF OthersWait, Timely, Worked, Active
        <2>2. \A d \in Passed' : d \in Passed /\ call'[d].seen = call[d].seen
              BY <1>3, BeginTickEffect, Initially DEF OthersWait, Passed
        <2> QED
              BY <2>1, <2>2, RoomStays
  <1>4. ASSUME NEW c \in Calls, MiddleEffects(c) PROVE RoomIsLeft'
        <2>1. Timely' \subseteq Timely /\ Worked' = Worked
              BY <1>4 DEF MiddleEffects, Quiet, Timely, Worked, Active
        <2>2. CASE Refused(c) \/ Answered(c)
              <3>1. \A d \in Passed' : d \in Passed /\ call'[d].seen = call[d].seen
                    BY <2>2, Initially DEF Refused, Answered, Goes, Ends, OthersWait, Passed
              <3> QED
                    BY <2>1, <3>1, RoomStays
        <2>3. CASE Continues(c) /\ call[c].pc # "active"
              <3>1. \A d \in Passed' : d \in Passed /\ call'[d].seen = call[d].seen
                    BY <2>3 DEF Continues, Goes, OthersWait, Passed
              <3> QED
                    BY <2>1, <3>1, RoomStays
        <2>4. CASE Continues(c) /\ call[c].pc = "active"
              <3>1. Cardinality(Timely') < MaxActive /\ Cardinality(Timely') \in Nat
                    <4>1. IsFiniteSet(Active')
                          BY FiniteRuns, FS_Subset DEF Active
                    <4>2. Cardinality(Timely') <= Cardinality(Active') /\ IsFiniteSet(Timely')
                          BY <4>1, FS_Subset DEF Timely
                    <4> QED
                          BY <2>4, <4>1, <4>2, Bounds, FS_CardinalityType DEF Continues
              <3>2. \A d \in Passed' : call'[d].seen \subseteq Worked'
                    BY <2>1, <2>4 DEF Continues, Goes, OthersWait, Passed, RoomIsLeft
              <3> QED
                    BY <3>1, <3>2, Bounds DEF RoomIsLeft
        <2> QED
              BY <1>4, <2>2, <2>3, <2>4 DEF MiddleEffects
  <1>5. ASSUME NEW c \in Calls, InsertEffects(c) PROVE RoomIsLeft'
        <2>1. PICK r \in Runs \ Rows :
                /\ Goes(c, "dispatch")
                /\ \A q \in Runs : q # r => run'[q] = run[q]
                /\ run'[r].work = "raced" \/ (run'[r].work = "new" /\ call[c].seen = Worked)
              BY <1>5 DEF InsertEffects
        <2>2. r \notin Worked /\ Worked' = Worked \cup {r}
              <3>1. run[r].work = "none"
                    BY <2>1, Initially DEF Blank
              <3>2. run'[r].work # "none"
                    BY <2>1
              <3> QED
                    BY <2>1, <3>1, <3>2 DEF Worked
        <2>3. c \in Passed /\ Passed' \subseteq Passed \ {c}
              BY <1>5, <2>1 DEF InsertEffects, Blank, Goes, OthersWait, Passed
        <2>4. \A d \in Passed' : call'[d].seen \subseteq Worked' /\ call'[d].seen # Worked'
              <3>1. \A d \in Passed' : call'[d] = call[d] /\ call[d].seen \subseteq Worked
                    BY <2>1, <2>3 DEF Goes, OthersWait, RoomIsLeft, Passed
              <3> QED
                    BY <2>2, <3>1
        <2>5. CASE call[c].seen = Worked
              <3>1. Timely' \subseteq Timely \cup {r}
                    BY <2>1 DEF Timely, Active
              <3>2. /\ IsFiniteSet(Timely \cup {r})
                    /\ Cardinality(Timely \cup {r}) <= Cardinality(Timely) + 1
                    BY Finite, OneMore
              <3>3. /\ Cardinality(Timely') \in Nat
                    /\ Cardinality(Timely') <= Cardinality(Timely) + 1
                    BY <3>1, <3>2, Finite, FS_Subset, FS_CardinalityType
              <3>4. Cardinality(Timely) < MaxActive
                    BY <2>3, <2>5 DEF RoomIsLeft
              <3>5. Cardinality(Timely') <= MaxActive
                    BY <3>3, <3>4, Finite, Bounds
              <3> QED
                    BY <2>4, <3>5 DEF RoomIsLeft
        <2>6. CASE call[c].seen # Worked
              <3>1. Timely' \subseteq Timely
                    BY <2>1, <2>6 DEF Timely, Active
              <3>2. /\ Cardinality(Timely') \in Nat
                    /\ Cardinality(Timely') <= Cardinality(Timely)
                    BY <3>1, Finite, FS_Subset, FS_CardinalityType
              <3>3. Cardinality(Timely') <= MaxActive
                    BY <3>2, Finite, Bounds DEF RoomIsLeft
              <3> QED
                    BY <2>4, <3>3 DEF RoomIsLeft
        <2> QED
              BY <2>5, <2>6
  <1>6. ASSUME NEW c \in Calls, TieEffects(c) PROVE RoomIsLeft'
        <2>1. Timely' \subseteq Timely /\ Worked' = Worked
              BY <1>6 DEF TieEffects, Ends, OthersWait, Timely, Worked, Active
        <2>2. \A d \in Passed' : d \in Passed /\ call'[d].seen = call[d].seen
              BY <1>6, Initially DEF TieEffects, Ends, OthersWait, Passed
        <2> QED
              BY <2>1, <2>2, RoomStays
  <1>7. ASSUME NEW c \in Calls, Settle(c) PROVE RoomIsLeft'
        <2>1. Timely' \subseteq Timely /\ Worked' = Worked
              BY <1>7, SettleEffect DEF Ends, OthersWait, Timely, Worked, Active
        <2>2. \A d \in Passed' : d \in Passed /\ call'[d].seen = call[d].seen
              BY <1>7, SettleEffect, Initially DEF Ends, OthersWait, Passed
        <2> QED
              BY <2>1, <2>2, RoomStays
  <1>8. ASSUME NEW c \in Calls, Crash(c) PROVE RoomIsLeft'
        <2>1. Timely' \subseteq Timely /\ Worked' = Worked
              BY <1>8, CrashEffect DEF Ends, OthersWait, Timely, Worked, Active
        <2>2. \A d \in Passed' : d \in Passed /\ call'[d].seen = call[d].seen
              BY <1>8, CrashEffect, Initially DEF Ends, OthersWait, Passed
        <2> QED
              BY <2>1, <2>2, RoomStays
  <1>9. CASE RunEffects
        <2>1. Timely' \subseteq Timely /\ Worked' = Worked
              BY <1>9 DEF RunEffects, Quiet, Timely, Worked, Active
        <2>2. \A d \in Passed' : d \in Passed /\ call'[d].seen = call[d].seen
              BY <1>9 DEF RunEffects, Quiet, Passed
        <2> QED
              BY <2>1, <2>2, RoomStays
  <1>10. CASE TimePasses
        <2>1. Timely' \subseteq Timely /\ Worked' = Worked
              BY <1>10 DEF TimePasses, Timely, Worked, Active
        <2>2. \A d \in Passed' : d \in Passed /\ call'[d].seen = call[d].seen
              BY <1>10 DEF TimePasses, Passed
        <2> QED
              BY <2>1, <2>2, RoomStays
  <1>11. CASE SaveSchedule
        <2>1. Timely' \subseteq Timely /\ Worked' = Worked
              BY <1>11 DEF SaveSchedule, Timely, Worked, Active
        <2>2. \A d \in Passed' : d \in Passed /\ call'[d].seen = call[d].seen
              BY <1>11 DEF SaveSchedule, Passed
        <2> QED
              BY <2>1, <2>2, RoomStays
  <1>12. CASE UNCHANGED vars
        <2>1. Timely' \subseteq Timely /\ Worked' = Worked
              BY <1>12 DEF vars, Timely, Worked, Active
        <2>2. \A d \in Passed' : d \in Passed /\ call'[d].seen = call[d].seen
              BY <1>12 DEF vars, Passed
        <2> QED
              BY <2>1, <2>2, RoomStays
  <1> QED
      BY Steps, <1>1, <1>2, <1>3, <1>4, <1>5, <1>6, <1>7, <1>8, <1>9, <1>10, <1>11, <1>12

LEMMA TypeStep ==
  ASSUME TypeOK, Blank, RetriesFollow, RunsExist, [Next]_vars
  PROVE  TypeOK'
  <1>1. ASSUME NEW c \in Calls, StartEffects(c) PROVE TypeOK'
        BY <1>1 DEF StartEffects, OthersWait, TypeOK
  <1>2. ASSUME NEW c \in Calls, NEW r \in Runs, BeginRetry(c, r) PROVE TypeOK'
        BY <1>2, BeginRetryEffect DEF OthersWait, TypeOK
  <1>3. ASSUME NEW c \in Calls, BeginTick(c) PROVE TypeOK'
        BY <1>3, BeginTickEffect DEF OthersWait, TypeOK, Statuses
  <1>4. ASSUME NEW c \in Calls, MiddleEffects(c) PROVE TypeOK'
        <2>1. /\ run' \in [Runs -> Run] /\ UNCHANGED <<next, now, crashed>>
              BY <1>4 DEF MiddleEffects, Quiet
        <2>2. call' \in [Calls -> Call] /\ slot' \in [Times -> Statuses]
              BY <1>4
              DEF MiddleEffects, Refused, Answered, Served, Continues, Goes, Ends, OthersWait,
                  TypeOK, Statuses
        <2> QED
              BY <2>1, <2>2 DEF TypeOK, Statuses
  <1>5. ASSUME NEW c \in Calls, InsertEffects(c) PROVE TypeOK'
        BY <1>5 DEF InsertEffects, Goes, OthersWait, TypeOK
  <1>6. ASSUME NEW c \in Calls, TieEffects(c) PROVE TypeOK'
        BY <1>6 DEF TieEffects, Ends, OthersWait, TypeOK
  <1>7. ASSUME NEW c \in Calls, Settle(c) PROVE TypeOK'
        <2>1. call[c].time + 1 \in 0..Slots + 1 /\ call[c].due + 1 \in 0..Slots + 1
              BY CallFields, Numbers DEF Times
        <2> QED
              BY <1>7, <2>1, SettleEffect DEF Ends, OthersWait, TypeOK
  <1>8. ASSUME NEW c \in Calls, Crash(c) PROVE TypeOK'
        BY <1>8, CrashEffect DEF Ends, OthersWait, TypeOK, Statuses
  <1>9. CASE RunEffects
        BY <1>9 DEF RunEffects, Quiet, TypeOK
  <1>10. CASE TimePasses
        <2>1. now' \in Times
              BY <1>10, Numbers DEF TimePasses, Times, TypeOK
        <2> QED
              BY <1>10, <2>1 DEF TimePasses, TypeOK
  <1>11. CASE SaveSchedule
        <2>1. next' \in 0..Slots + 1
              BY <1>11, Numbers DEF SaveSchedule, Times, TypeOK
        <2> QED
              BY <1>11, <2>1 DEF SaveSchedule, TypeOK
  <1>12. CASE UNCHANGED vars
        BY <1>12 DEF vars, TypeOK
  <1> QED
      BY Steps, <1>1, <1>2, <1>3, <1>4, <1>5, <1>6, <1>7, <1>8, <1>9, <1>10, <1>11, <1>12

LEMMA InitIInv == Init => IInv
  <1> SUFFICES ASSUME Init
               PROVE  IInv
      OBVIOUS
  <1>0. /\ run \in [Runs -> Run]
        /\ \A r \in Runs :
             /\ run[r].status = "none" => run[r] = NoRun
             /\ run[r].status \in {"none", "FAILED"} /\ ~run[r].lost
             /\ run[r].retry = run[r].depth /\ run[r].depth <= Depth
        <2>1. PICK past \in 0..N, depth \in 0..Depth :
                run = [r \in Runs |-> IF r <= past
                                     THEN [NoRun EXCEPT !.status = "FAILED", !.work = "new",
                                                        !.retry = depth, !.depth = depth]
                                     ELSE NoRun]
              BY DEF Init
        <2>2. PICK blank \in Run : blank = NoRun
              BY Initially
        <2> DEFINE failed == [blank EXCEPT !.status = "FAILED", !.work = "new",
                                           !.retry = depth, !.depth = depth]
        <2>3. depth \in Nat /\ depth <= Depth /\ 0 <= Depth
              BY Bounds
        <2>4. /\ failed \in Run /\ failed.status = "FAILED" /\ failed.lost = blank.lost
              /\ failed.retry = depth /\ failed.depth = depth
              BY <2>3 DEF Run
        <2>5. run = [r \in Runs |-> IF r <= past THEN failed ELSE blank]
              BY <2>1, <2>2
        <2> HIDE DEF failed
        <2>6. blank.status = "none" /\ blank.retry = 0 /\ blank.depth = 0 /\ ~blank.lost
              BY <2>2, Initially
        <2> QED
              BY <2>2, <2>3, <2>4, <2>5, <2>6
  <1>1. TypeOK
        <2>1. 1 \in 0..Slots + 1 /\ 0 \in Times
              BY Bounds DEF Times
        <2> QED
              BY <1>0, <2>1, Initially DEF Init, TypeOK
  <1>2. Blank /\ RetriesFollow /\ RunsExist /\ RetryChainBounded
        BY <1>0, Initially, Numbers
        DEF Init, Blank, RetriesFollow, RunsExist, RetryChainBounded, Rows
  <1>3. TicksAreAlone /\ FiredIsPast /\ OneRunPerSlot
        BY Initially DEF Init, Ticks, TicksAreAlone, FiredIsPast, OneRunPerSlot
  <1>4. LimitHolds
        <2>1. Fresh = {} /\ Passed = {}
              BY <1>0, Initially DEF Init, Fresh, Active, Passed
        <2>2. Cardinality(Fresh) = 0 /\ Cardinality(Passed) = 0
              BY <2>1, FS_EmptySet
        <2>3. MaxActive + Cardinality(Calls) - 1 >= 0
              BY <1>1, Bounds, Finite
        <2> QED
              BY <2>2, <2>3 DEF LimitHolds
  <1>5. RoomIsLeft
        <2>1. Timely = {} /\ Passed = {}
              BY <1>0, Initially DEF Init, Timely, Active, Passed
        <2>2. Cardinality(Timely) = 0
              BY <2>1, FS_EmptySet
        <2> QED
              BY <2>1, <2>2, Bounds DEF RoomIsLeft
  <1> QED
      BY <1>1, <1>2, <1>3, <1>4, <1>5 DEF IInv

LEMMA NextIInv == IInv /\ [Next]_vars => IInv'
  BY TypeStep, BlankStep, ExistStep, RetriesStep, ChainStep, TicksStep, FiredStep, SlotStep,
     LimitStep, RoomStep
  DEF IInv

LEMMA Inductive == Spec => []IInv
  BY InitIInv, NextIInv, PTL DEF Spec

-----------------------------------------------------------------------------
(* Theorems                                                                *)

\* Types, for the rows of enqueueScrape, its requests and the schedule.
THEOREM TypeCorrect == Spec => []TypeOK
  <1>1. IInv => TypeOK
        BY DEF IInv
  <1> QED
      BY <1>1, Inductive, PTL

\* However requests, retries and restarts interleave, retries of retries come to an end
\* unless retryRun read a run whose place in the chain was not on record.
THEOREM RetriesEnd == Spec => []RetryChainBounded
  <1>1. IInv => RetryChainBounded
        BY DEF IInv
  <1> QED
      BY <1>1, Inductive, PTL

\* Whatever saves of the schedule, refusals, early and late triggers and restarts come
\* between, the triggers that come when the schedule is due start at most one run for each
\* of its times that no two triggers shared.  A trigger of the second before a time adds
\* its own run, but never makes the later ones repeat theirs.
THEOREM SlotsRunOnce == Spec => []OneRunPerSlot
  <1>1. IInv => OneRunPerSlot
        BY DEF IInv
  <1> QED
      BY <1>1, Inductive, PTL

\* The check of enqueueScrape keeps the active runs of requests that nobody overtook within
\* the limit: such a request still finds the room it had counted.  Those that were overtaken
\* add one run each at most, as whoever has passed the check is counted as if it had
\* inserted its run; only runs that a late write has reopened come on top.
THEOREM LimitIsKept == Spec => []ActiveWithinLimit
  <1>1. IInv => ActiveWithinLimit
        <2> SUFFICES ASSUME IInv
                     PROVE  ActiveWithinLimit
            OBVIOUS
        <2>1. TypeOK /\ LimitHolds /\ RoomIsLeft
              BY DEF IInv
        <2> QED
            BY <2>1, Finite, Bounds
            DEF LimitHolds, RoomIsLeft, Fresh, Timely, ActiveWithinLimit
  <1> QED
      BY <1>1, Inductive, PTL

=============================================================================
