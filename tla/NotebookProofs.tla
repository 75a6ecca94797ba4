---------------------------- MODULE NotebookProofs ----------------------------
(***************************************************************************)
(* Theorems about Notebook for any number of offers, concurrent calls,     *)
(* deliveries, days and changes of status.                                 *)
(***************************************************************************)
EXTENDS Notebook, TLAPS

-----------------------------------------------------------------------------
(* The inductive invariant                                                 *)

\* s is t with some of its entries left out.
Subsequence(s, t) ==
  \E f \in [1..Len(s) -> 1..Len(t)] :
    /\ \A i \in 1..Len(s) : s[i] = t[f[i]]
    /\ \A i, j \in 1..Len(s) : i < j => f[i] < f[j]

\* What a history names happened, in that order, whatever was overwritten.
HistoryIsPast == \A o \in Offers : Subsequence(row[o].history, trail[o])

\* That holds of the history a call has read, too.
ReadIsPast ==
  \A p \in Callers : call[p].pc = "read" => Subsequence(call[p].history, trail[call[p].offer])

\* One delivery at a time has read the record of an offer and not written its own.
OneUnderway ==
  \A o \in Offers \ shaky : \A d, e \in Ticks : Underway(d, o) /\ Underway(e, o) => d = e

WillRecord(d, o) == <<tick[d].bucket[o], "SENT">> \in tick[d].todo

\* The last mail about an offer is recorded, or about to be.
MailIsRecorded ==
  \A o \in Offers \ shaky : told[o] # NoWindow =>
    \/ row[o].window = told[o] /\ row[o].delivery = "SENT"
    \/ \E d \in Ticks : /\ tick[d].pc = "mailed" /\ o \in Listed(d)
                        /\ told[o] = Window(d, o) /\ WillRecord(d, o)

\* A mail about to be sent is not the last one again.
MailIsNew ==
  \A o \in Offers \ shaky, d \in Ticks :
    tick[d].pc = "mailing" /\ o \in Listed(d) => told[o] # Window(d, o)

\* What a delivery has to record is what came of its mail.
RecordIsTrue ==
  \A o \in Offers \ shaky, d \in Ticks :
    tick[d].pc = "mailed" /\ o \in Listed(d) =>
      /\ told[o] \in {NoWindow, Window(d, o)}
      /\ <<tick[d].bucket[o], "FAILED">> \in tick[d].todo => told[o] = NoWindow
      /\ WillRecord(d, o) => told[o] = Window(d, o)

\* Only a delivery whose mail is out, or failed, has something to record.
RecordsMail == \A d \in Ticks : tick[d].todo # {} => tick[d].pc = "mailed"

DigestInv ==
  /\ OneUnderway
  /\ RecordsMail
  /\ MailIsRecorded
  /\ MailIsNew
  /\ RecordIsTrue
  /\ RemindedOnce

History == HistoryAccounts /\ HistoryIsPast /\ ReadIsPast

IInv == TypeOK /\ History /\ DigestInv

-----------------------------------------------------------------------------
(* Sequences                                                               *)

LEMMA SubsequenceOfItself ==
  ASSUME NEW S, NEW s \in Seq(S)
  PROVE  Subsequence(s, s)
  <1> DEFINE f == [i \in 1..Len(s) |-> i]
  <1>1. f \in [1..Len(s) -> 1..Len(s)]
        OBVIOUS
  <1>2. \A i \in 1..Len(s) : f[i] = i
        OBVIOUS
  <1> HIDE DEF f
  <1> QED
      BY <1>1, <1>2 DEF Subsequence

LEMMA AppendIs ==
  ASSUME NEW S, NEW s \in Seq(S), NEW x \in S
  PROVE  /\ Append(s, x) \in Seq(S)
         /\ Len(s) \in Nat
         /\ Len(Append(s, x)) = Len(s) + 1
         /\ \A i \in 1..Len(s) : Append(s, x)[i] = s[i]
         /\ Append(s, x)[Len(s) + 1] = x
  OBVIOUS

\* An entry that only the longer sequence gets is one more that is left out.
LEMMA SubsequenceGrows ==
  ASSUME NEW S, NEW s \in Seq(S), NEW t \in Seq(S), NEW x \in S, Subsequence(s, t)
  PROVE  Subsequence(s, Append(t, x))
  <1>1. PICK f \in [1..Len(s) -> 1..Len(t)] :
          /\ \A i \in 1..Len(s) : s[i] = t[f[i]]
          /\ \A i, j \in 1..Len(s) : i < j => f[i] < f[j]
        BY DEF Subsequence
  <1> DEFINE u == Append(t, x)
  <1>2. /\ Len(t) \in Nat /\ Len(u) = Len(t) + 1
        /\ \A i \in 1..Len(t) : u[i] = t[i]
        BY AppendIs
  <1> HIDE DEF u
  <1>3. f \in [1..Len(s) -> 1..Len(u)]
        BY <1>2
  <1>4. \A i \in 1..Len(s) : s[i] = u[f[i]]
        BY <1>1, <1>2
  <1>5. Subsequence(s, u)
        BY <1>1, <1>3, <1>4 DEF Subsequence
  <1> QED
      BY <1>5 DEF u

LEMMA SubsequenceAppends ==
  ASSUME NEW S, NEW s \in Seq(S), NEW t \in Seq(S), NEW x \in S, Subsequence(s, t)
  PROVE  Subsequence(Append(s, x), Append(t, x))
  <1>1. PICK f \in [1..Len(s) -> 1..Len(t)] :
          /\ \A i \in 1..Len(s) : s[i] = t[f[i]]
          /\ \A i, j \in 1..Len(s) : i < j => f[i] < f[j]
        BY DEF Subsequence
  <1> DEFINE r == Append(s, x)
             u == Append(t, x)
             g == [i \in 1..Len(s) + 1 |-> IF i <= Len(s) THEN f[i] ELSE Len(t) + 1]
  <1>2. /\ Len(t) \in Nat /\ Len(u) = Len(t) + 1 /\ u[Len(t) + 1] = x
        /\ \A i \in 1..Len(t) : u[i] = t[i]
        BY AppendIs
  <1>3. /\ Len(s) \in Nat /\ Len(r) = Len(s) + 1 /\ r[Len(s) + 1] = x
        /\ \A i \in 1..Len(s) : r[i] = s[i]
        BY AppendIs
  <1>4. /\ \A i \in 1..Len(s) : g[i] = f[i] /\ f[i] \in 1..Len(t)
        /\ g[Len(s) + 1] = Len(t) + 1
    <2>1. ASSUME NEW i \in 1..Len(s) PROVE g[i] = f[i] /\ f[i] \in 1..Len(t)
      <3>1. i \in 1..Len(s) + 1 /\ i <= Len(s)
            BY <1>3
      <3> QED
          BY <3>1
    <2>2. Len(s) + 1 \in 1..Len(s) + 1 /\ ~(Len(s) + 1 <= Len(s))
          BY <1>3
    <2> QED
        BY <2>1, <2>2
  <1>5. g \in [1..Len(s) + 1 -> 1..Len(t) + 1]
        BY <1>2, <1>3
  <1> HIDE DEF r, u, g
  <1>6. \A i \in 1..Len(r) : i \in 1..Len(s) \/ i = Len(s) + 1
        BY <1>3
  <1>7. g \in [1..Len(r) -> 1..Len(u)]
        BY <1>2, <1>3, <1>5
  <1>8. \A i \in 1..Len(r) : r[i] = u[g[i]]
        BY <1>1, <1>2, <1>3, <1>4, <1>6
  <1>9. ASSUME NEW i \in 1..Len(r), NEW j \in 1..Len(r), i < j
        PROVE  g[i] < g[j]
    <2>1. i \in 1..Len(s)
          BY <1>3, <1>9
    <2>2. CASE j \in 1..Len(s)
          BY <1>1, <1>4, <1>9, <2>1, <2>2
    <2>3. CASE j = Len(s) + 1
          BY <1>2, <1>4, <2>1, <2>3
    <2> QED
        BY <1>6, <2>2, <2>3
  <1>10. Subsequence(r, u)
        BY <1>7, <1>8, <1>9 DEF Subsequence
  <1> QED
      BY <1>10 DEF r, u

-----------------------------------------------------------------------------
(* Rows                                                                    *)

LEMMA ChangedRow ==
  ASSUME NEW r \in Row, NEW to \in Statuses, NEW h \in Seq(Statuses)
  PROVE  /\ Changed(r, to, h) \in Row
         /\ Changed(r, to, h).status = to
         /\ Changed(r, to, h).history = h
         /\ Changed(r, to, h).window = r.window
         /\ Changed(r, to, h).delivery = r.delivery
  <1> DEFINE m == [r EXCEPT !.status = to]
  <1>1. /\ m \in Row /\ m.status = to
        /\ m.window = r.window /\ m.delivery = r.delivery
        BY DEF Row
  <1>2. Changed(r, to, h) = [m EXCEPT !.history = h]
        BY DEF Changed
  <1> HIDE DEF m
  <1>3. /\ [m EXCEPT !.history = h] \in Row
        /\ [m EXCEPT !.history = h].status = to
        /\ [m EXCEPT !.history = h].history = h
        /\ [m EXCEPT !.history = h].window = r.window
        /\ [m EXCEPT !.history = h].delivery = r.delivery
        BY <1>1 DEF Row
  <1> QED
      BY <1>2, <1>3

LEMMA RecordedRow ==
  ASSUME NEW r \in Row, NEW window \in Windows, NEW delivery \in {"SENT", "FAILED"}
  PROVE  /\ Recorded(r, window, delivery) \in Row
         /\ Recorded(r, window, delivery).status = r.status
         /\ Recorded(r, window, delivery).history = r.history
         /\ Recorded(r, window, delivery).window = window
         /\ Recorded(r, window, delivery).delivery = delivery
  <1> DEFINE m == [r EXCEPT !.window = window]
  <1>1. /\ m \in Row /\ m.window = window
        /\ m.status = r.status /\ m.history = r.history
        BY DEF Row
  <1>2. Recorded(r, window, delivery) = [m EXCEPT !.delivery = delivery]
        BY DEF Recorded
  <1> HIDE DEF m
  <1>3. /\ [m EXCEPT !.delivery = delivery] \in Row
        /\ [m EXCEPT !.delivery = delivery].status = r.status
        /\ [m EXCEPT !.delivery = delivery].history = r.history
        /\ [m EXCEPT !.delivery = delivery].window = window
        /\ [m EXCEPT !.delivery = delivery].delivery = delivery
        BY <1>1 DEF Row
  <1> QED
      BY <1>2, <1>3

-----------------------------------------------------------------------------
(* Deliveries                                                              *)

Pcs == {"idle", "begun", "listed", "mailing", "mailed"}

Entries == Buckets \X {"SENT", "FAILED"}

LEMMA WindowTypes ==
  /\ 0 \in Times /\ NoTick \in Tick
  /\ NoWindow \notin Windows
  <1>1. 0 \in Times
    <2>1. MaxTime \in Nat
          BY NotebookAssumption DEF NotebookAssumption
    <2> QED
        BY <2>1 DEF Times
  <1>2. \E t \in Times : Day(t) = 0
        BY <1>1 DEF Day
  <1>3. NoTick \in Tick
        BY <1>2 DEF NoTick, Tick
  <1>4. NoWindow \notin Windows
        BY DEF NoWindow, Windows, Buckets
  <1> QED
      BY <1>1, <1>3, <1>4

LEMMA ListedWindow ==
  ASSUME TypeOK, NEW d \in Ticks, NEW o \in Listed(d)
  PROVE  /\ o \in Offers
         /\ tick[d].bucket[o] \in Buckets
         /\ Window(d, o) \in Windows
  <1>1. tick[d] \in Tick
        BY DEF TypeOK
  <1>2. tick[d].bucket[o] \in Buckets /\ tick[d].day \in {Day(t) : t \in Times}
        BY <1>1 DEF Tick, Listed
  <1> QED
      BY <1>2 DEF Listed, Window, Windows

LEMMA TickFields ==
  ASSUME NEW t \in Tick
  PROVE  /\ t.pc \in Pcs
         /\ t.day \in {Day(time) : time \in Times}
         /\ t.bucket \in [Offers -> Buckets \cup {"none"}]
         /\ t.todo \in SUBSET Entries
  BY DEF Tick, Pcs, Entries

LEMMA TickPc ==
  ASSUME NEW t \in Tick, NEW pc \in Pcs
  PROVE  /\ [t EXCEPT !.pc = pc] \in Tick
         /\ [t EXCEPT !.pc = pc].pc = pc
         /\ [t EXCEPT !.pc = pc].day = t.day
         /\ [t EXCEPT !.pc = pc].bucket = t.bucket
         /\ [t EXCEPT !.pc = pc].todo = t.todo
  BY DEF Tick, Pcs

LEMMA TickTodo ==
  ASSUME NEW t \in Tick, NEW todo \in SUBSET Entries
  PROVE  /\ [t EXCEPT !.todo = todo] \in Tick
         /\ [t EXCEPT !.todo = todo].pc = t.pc
         /\ [t EXCEPT !.todo = todo].day = t.day
         /\ [t EXCEPT !.todo = todo].bucket = t.bucket
         /\ [t EXCEPT !.todo = todo].todo = todo
  BY DEF Tick, Entries

LEMMA TickBucket ==
  ASSUME NEW t \in Tick, NEW bucket \in [Offers -> Buckets \cup {"none"}]
  PROVE  /\ [t EXCEPT !.bucket = bucket] \in Tick
         /\ [t EXCEPT !.bucket = bucket].pc = t.pc
         /\ [t EXCEPT !.bucket = bucket].day = t.day
         /\ [t EXCEPT !.bucket = bucket].bucket = bucket
         /\ [t EXCEPT !.bucket = bucket].todo = t.todo
  BY DEF Tick

\* Delivery d is at pc with that to record, of the offers it had listed.
Moves(d, pc, todo) ==
  /\ tick' \in [Ticks -> Tick]
  /\ \A e \in Ticks \ {d} : tick'[e] = tick[e]
  /\ tick'[d].pc = pc
  /\ tick'[d].todo = todo
  /\ tick'[d].day = tick[d].day
  /\ tick'[d].bucket = tick[d].bucket

\* Delivery d has ended.
Ends(d) ==
  /\ tick' \in [Ticks -> Tick]
  /\ \A e \in Ticks \ {d} : tick'[e] = tick[e]
  /\ tick'[d] = NoTick

LEMMA MailMoves ==
  ASSUME tick \in [Ticks -> Tick], NEW d \in Ticks, NEW todo \in SUBSET Entries,
         tick' = [tick EXCEPT ![d].pc = "mailed", ![d].todo = todo]
  PROVE  Moves(d, "mailed", todo)
  <1> DEFINE t == [tick[d] EXCEPT !.pc = "mailed"]
             u == [t EXCEPT !.todo = todo]
  <1>1. tick' = [tick EXCEPT ![d] = u]
        OBVIOUS
  <1>2. /\ t \in Tick /\ t.pc = "mailed" /\ t.day = tick[d].day
        /\ t.bucket = tick[d].bucket
        BY TickPc DEF Pcs
  <1> HIDE DEF t
  <1>3. /\ u \in Tick /\ u.pc = "mailed" /\ u.todo = todo
        /\ u.day = tick[d].day /\ u.bucket = tick[d].bucket
        BY <1>2, TickTodo
  <1> HIDE DEF u
  <1> QED
      BY <1>1, <1>3 DEF Moves

LEMMA LeftMoves ==
  ASSUME tick \in [Ticks -> Tick], NEW d \in Ticks, NEW todo \in SUBSET Entries,
         tick[d].pc = "mailed", Left(d, todo)
  PROVE  IF todo = {} THEN Ends(d) ELSE Moves(d, "mailed", todo)
  <1>1. CASE todo = {}
        BY <1>1, WindowTypes DEF Left, Ends
  <1>2. CASE todo # {}
    <2> DEFINE u == [tick[d] EXCEPT !.todo = todo]
    <2>1. tick' = [tick EXCEPT ![d] = u]
          BY <1>2 DEF Left
    <2>2. /\ u \in Tick /\ u.pc = "mailed" /\ u.todo = todo
          /\ u.day = tick[d].day /\ u.bucket = tick[d].bucket
          BY TickTodo
    <2> HIDE DEF u
    <2> QED
        BY <1>2, <2>1, <2>2 DEF Moves
  <1> QED
      BY <1>1, <1>2

\* Delivery d has begun.
LEMMA BeginMoves ==
  ASSUME TypeOK, NEW d \in Ticks, BeginTick(d)
  PROVE  /\ tick' \in [Ticks -> Tick]
         /\ \A e \in Ticks \ {d} : tick'[e] = tick[e]
         /\ tick'[d].pc = "begun" /\ tick'[d].todo = {}
  <1> DEFINE t == [NoTick EXCEPT !.pc = "begun"]
             u == [t EXCEPT !.day = Day(now)]
  <1>1. tick' = [tick EXCEPT ![d] = u]
        BY DEF BeginTick
  <1>2. /\ t \in Tick /\ t.pc = "begun" /\ t.todo = {}
    <2>1. NoTick.todo = {}
          BY DEF NoTick
    <2> QED
        BY <2>1, WindowTypes, TickPc DEF Pcs
  <1> HIDE DEF t
  <1>3. Day(now) \in {Day(time) : time \in Times}
        BY DEF TypeOK
  <1>4. /\ u \in Tick /\ u.pc = "begun" /\ u.todo = {}
        BY <1>2, <1>3 DEF Tick
  <1> HIDE DEF u
  <1> QED
      BY <1>1, <1>4 DEF TypeOK

LEMMA PreviewMoves ==
  ASSUME TypeOK, NEW d \in Ticks, Preview(d)
  PROVE  /\ tick' \in [Ticks -> Tick]
         /\ \A e \in Ticks \ {d} : tick'[e] = tick[e]
         /\ tick'[d].pc = "listed" /\ tick'[d].todo = tick[d].todo
  <1>1. PICK bucket \in [Offers -> Buckets \cup {"none"}] :
          tick' = [tick EXCEPT ![d].pc = "listed", ![d].bucket = bucket]
        BY DEF Preview
  <1> DEFINE t == [tick[d] EXCEPT !.pc = "listed"]
             u == [t EXCEPT !.bucket = bucket]
  <1>2. tick' = [tick EXCEPT ![d] = u]
        BY <1>1
  <1>3. /\ t \in Tick /\ t.pc = "listed" /\ t.todo = tick[d].todo
        BY TickPc DEF Pcs, TypeOK
  <1> HIDE DEF t
  <1>4. /\ u \in Tick /\ u.pc = "listed" /\ u.todo = tick[d].todo
        BY <1>3, TickBucket
  <1> HIDE DEF u
  <1> QED
      BY <1>2, <1>4 DEF TypeOK

Unsent(d) == {o \in Listed(d) : ~IsRecorded(d, o)}

\* The delivery goes on with the offers it is to remind of.
LEMMA ReadMoves ==
  ASSUME TypeOK, NEW d \in Ticks, ReadDeliveries(d)
  PROVE  IF Unsent(d) = {} THEN Ends(d)
         ELSE /\ tick' \in [Ticks -> Tick]
              /\ \A e \in Ticks \ {d} : tick'[e] = tick[e]
              /\ tick'[d].pc = "mailing" /\ tick'[d].todo = tick[d].todo
              /\ tick'[d].day = tick[d].day
              /\ \A o \in Offers :
                   tick'[d].bucket[o] = IF o \in Unsent(d) THEN tick[d].bucket[o] ELSE "none"
  <1>1. CASE Unsent(d) = {}
        BY <1>1, WindowTypes DEF ReadDeliveries, Unsent, Ends, TypeOK
  <1>2. CASE Unsent(d) # {}
    <2> DEFINE bucket == Only(d, Unsent(d))
               t == [tick[d] EXCEPT !.pc = "mailing"]
               u == [t EXCEPT !.bucket = bucket]
    <2>1. tick' = [tick EXCEPT ![d] = u]
          BY <1>2 DEF ReadDeliveries, Unsent
    <2>2. /\ t \in Tick /\ t.pc = "mailing" /\ t.todo = tick[d].todo
          /\ t.day = tick[d].day
          BY TickPc DEF Pcs, TypeOK
    <2>3. bucket \in [Offers -> Buckets \cup {"none"}]
      <3>1. tick[d].bucket \in [Offers -> Buckets \cup {"none"}]
            BY TickFields DEF TypeOK
      <3> QED
          BY <3>1 DEF Only
    <2>4. \A o \in Offers :
            bucket[o] = IF o \in Unsent(d) THEN tick[d].bucket[o] ELSE "none"
          BY DEF Only
    <2> HIDE DEF t, bucket
    <2>5. /\ u \in Tick /\ u.pc = "mailing" /\ u.todo = tick[d].todo
          /\ u.day = tick[d].day /\ u.bucket = bucket
          BY <2>2, <2>3, TickBucket
    <2> HIDE DEF u
    <2> QED
        BY <1>2, <2>1, <2>4, <2>5 DEF TypeOK
  <1> QED
      BY <1>1, <1>2

LEMMA RecordEntries ==
  ASSUME TypeOK, NEW d \in Ticks, NEW status \in {"SENT", "FAILED"}
  PROVE  Record(d, status) \in SUBSET Entries
  BY ListedWindow DEF Record, Entries

-----------------------------------------------------------------------------
(* Types                                                                   *)

LEMMA InitType == Init => TypeOK
  <1> SUFFICES ASSUME Init PROVE TypeOK
      OBVIOUS
  <1>1. <<"NEW">> \in Seq(Statuses)
        BY DEF Statuses
  <1>2. row \in [Offers -> Row]
        BY <1>1 DEF Init, Row, Statuses
  <1> QED
      BY <1>1, <1>2, WindowTypes DEF Init, TypeOK, Call

LEMMA CallType ==
  ASSUME TypeOK, NEW p \in Callers, call[p].pc = "read"
  PROVE  /\ call[p].offer \in Offers
         /\ call[p].to \in Statuses
         /\ call[p].history \in Seq(Statuses)
  <1>1. call[p] \in Call /\ call[p] # Idle
        BY DEF TypeOK, Idle
  <1> QED
      BY <1>1 DEF Call

LEMMA RowType ==
  ASSUME TypeOK, NEW o \in Offers
  PROVE  /\ row[o] \in Row
         /\ row[o].status \in Statuses
         /\ row[o].history \in Seq(Statuses)
         /\ trail[o] \in Seq(Statuses)
  BY DEF TypeOK, Row

LEMMA ReadType ==
  ASSUME TypeOK, NEW p \in Callers, ReadStatus(p)
  PROVE  TypeOK'
  <1>1. PICK o \in Offers, to \in Requested :
          call' = [call EXCEPT ![p] =
                     [pc |-> "read", offer |-> o, to |-> to, history |-> row[o].history]]
        BY DEF ReadStatus
  <1>2. to \in Statuses
        BY NotebookAssumption DEF NotebookAssumption
  <1>3. [pc |-> "read", offer |-> o, to |-> to, history |-> row[o].history] \in Call
        BY <1>2, RowType DEF Call
  <1>4. call' \in [Callers -> Call]
        BY <1>1, <1>3 DEF TypeOK
  <1> QED
      BY <1>4 DEF ReadStatus, unchangedMail, TypeOK

LEMMA WriteType ==
  ASSUME TypeOK, NEW p \in Callers, WriteStatus(p)
  PROVE  TypeOK'
  <1> DEFINE o == call[p].offer
             to == call[p].to
             h == Append(call[p].history, to)
  <1>1. /\ o \in Offers /\ to \in Statuses /\ h \in Seq(Statuses)
        /\ Append(trail[o], to) \in Seq(Statuses)
        BY CallType, RowType, AppendIs DEF WriteStatus
  <1>2. Changed(row[o], to, h) \in Row
        BY <1>1, RowType, ChangedRow
  <1>3. /\ row' = [row EXCEPT ![o] = Changed(row[o], to, h)]
        /\ trail' = [trail EXCEPT ![o] = Append(trail[o], to)]
        BY DEF WriteStatus
  <1>4. /\ call' = [call EXCEPT ![p] = Idle]
        /\ raced' = raced \/ raced' = raced \cup {o}
        BY DEF WriteStatus
  <1> HIDE DEF o, to, h
  <1>5. row' \in [Offers -> Row] /\ trail' \in [Offers -> Seq(Statuses)]
        BY <1>1, <1>2, <1>3 DEF TypeOK
  <1>6. call' \in [Callers -> Call] /\ raced' \subseteq Offers
        BY <1>1, <1>4 DEF TypeOK, Call
  <1> QED
      BY <1>5, <1>6 DEF WriteStatus, unchangedMail, TypeOK

LEMMA MovedType ==
  ASSUME TypeOK, NEW set \in SUBSET Offers, NEW to \in Statuses, Moved(set, to)
  PROVE  TypeOK'
  <1>1. ASSUME NEW o \in Offers
        PROVE  /\ Changed(row[o], to, Append(row[o].history, to)) \in Row
               /\ Append(trail[o], to) \in Seq(Statuses)
    <2>1. Append(row[o].history, to) \in Seq(Statuses) /\ Append(trail[o], to) \in Seq(Statuses)
          BY RowType, AppendIs
    <2> QED
        BY <2>1, RowType, ChangedRow
  <1>2. row' \in [Offers -> Row] /\ trail' \in [Offers -> Seq(Statuses)]
        BY <1>1 DEF Moved, TypeOK
  <1> QED
      BY <1>2 DEF Moved, unchangedMail, TypeOK

LEMMA FollowUpRow ==
  ASSUME TypeOK, NEW o \in Offers, SetFollowUp(o)
  PROVE  /\ row' \in [Offers -> Row]
         /\ \A q \in Offers : /\ row'[q].status = row[q].status
                              /\ row'[q].history = row[q].history
                              /\ row'[q].window = row[q].window
                              /\ row'[q].delivery = row[q].delivery
  <1>1. PICK time \in Times \cup {NoTime} :
          row' = [row EXCEPT ![o] = [row[o] EXCEPT !.followUpAt = time]]
        BY DEF SetFollowUp
  <1> DEFINE r == [row[o] EXCEPT !.followUpAt = time]
  <1>2. /\ r \in Row
        /\ r.status = row[o].status /\ r.history = row[o].history
        /\ r.window = row[o].window /\ r.delivery = row[o].delivery
        BY RowType DEF Row
  <1>3. row' = [row EXCEPT ![o] = r]
        BY <1>1
  <1> HIDE DEF r
  <1> QED
      BY <1>2, <1>3 DEF TypeOK

\* What an update of the delivery state writes.
LEMMA PersistRow ==
  ASSUME TypeOK, NEW d \in Ticks, NEW entry \in Entries,
         row' = [o \in Offers |->
                   IF tick[d].bucket[o] = entry[1]
                   THEN Recorded(row[o], Window(d, o), entry[2])
                   ELSE row[o]]
  PROVE  /\ row' \in [Offers -> Row]
         /\ \A o \in Offers :
              /\ row'[o].status = row[o].status
              /\ row'[o].history = row[o].history
              /\ IF tick[d].bucket[o] = entry[1]
                 THEN row'[o].window = Window(d, o) /\ row'[o].delivery = entry[2]
                 ELSE row'[o] = row[o]
  <1>1. entry[1] \in Buckets /\ entry[2] \in {"SENT", "FAILED"}
        BY DEF Entries
  <1>2. ASSUME NEW o \in Offers
        PROVE  /\ row'[o] \in Row
               /\ row'[o].status = row[o].status
               /\ row'[o].history = row[o].history
               /\ IF tick[d].bucket[o] = entry[1]
                  THEN row'[o].window = Window(d, o) /\ row'[o].delivery = entry[2]
                  ELSE row'[o] = row[o]
    <2>1. CASE tick[d].bucket[o] = entry[1]
      <3>1. o \in Listed(d)
            BY <1>1, <2>1 DEF Listed, Buckets
      <3>2. Window(d, o) \in Windows
            BY <3>1, ListedWindow
      <3>3. row'[o] = Recorded(row[o], Window(d, o), entry[2])
            BY <2>1
      <3> QED
          BY <1>1, <2>1, <3>2, <3>3, RowType, RecordedRow
    <2>2. CASE tick[d].bucket[o] # entry[1]
          BY <2>2, RowType
    <2> QED
        BY <2>1, <2>2
  <1>3. row' \in [Offers -> Row]
        BY <1>2
  <1> QED
      BY <1>2, <1>3

\* The updates that a delivery still has to make, in its next step.
LEMMA PersistMoves ==
  ASSUME TypeOK, RecordsMail, NEW d \in Ticks, NEW entry \in tick[d].todo
  PROVE  /\ entry \in Entries
         /\ tick[d].pc = "mailed"
         /\ tick[d].todo \ {entry} \in SUBSET Entries
         /\ tick[d].todo \in SUBSET Entries
  <1>1. tick[d].todo \in SUBSET Entries
        BY TickFields DEF TypeOK
  <1> QED
      BY <1>1 DEF RecordsMail

LEMMA MailedType ==
  ASSUME TypeOK, NEW d \in Ticks, Mailed(d)
  PROVE  told' \in [Offers -> Windows \cup {NoWindow}] /\ again' \subseteq Offers
  <1>1. \A o \in Offers : told'[o] \in Windows \cup {NoWindow}
        BY ListedWindow DEF Mailed, TypeOK
  <1>2. told' \in [Offers -> Windows \cup {NoWindow}]
        BY <1>1 DEF Mailed
  <1> QED
      BY <1>2 DEF Mailed, TypeOK, Listed

LEMMA FailType ==
  ASSUME TypeOK, NEW d \in Ticks,
         told' = [o \in Offers |-> IF o \in Listed(d) THEN NoWindow ELSE told[o]]
  PROVE  told' \in [Offers -> Windows \cup {NoWindow}]
  <1>1. \A o \in Offers : told'[o] \in Windows \cup {NoWindow}
        BY DEF TypeOK
  <1> QED
      BY <1>1

LEMMA TypeStep ==
  ASSUME TypeOK, RecordsMail, [Next]_vars
  PROVE  TypeOK'
  <1> USE DEF unchangedMail, unchangedOffers
  <1>1. ASSUME NEW p \in Callers, ReadStatus(p) PROVE TypeOK'
        BY <1>1, ReadType
  <1>2. ASSUME NEW p \in Callers, WriteStatus(p) PROVE TypeOK'
        BY <1>2, WriteType
  <1>3. CASE DismissAllSeen
        BY <1>3, MovedType DEF DismissAllSeen, Statuses
  <1>4. CASE AutoArchive
        BY <1>4, MovedType DEF AutoArchive, Statuses
  <1>5. ASSUME NEW o \in Offers, SetFollowUp(o) PROVE TypeOK'
    <2>1. row' \in [Offers -> Row]
          BY <1>5, FollowUpRow
    <2> QED
        BY <1>5, <2>1 DEF SetFollowUp, TypeOK
  <1>6. ASSUME NEW d \in Ticks, BeginTick(d) PROVE TypeOK'
        BY <1>6, BeginMoves DEF BeginTick, TypeOK
  <1>7. ASSUME NEW d \in Ticks, Preview(d) PROVE TypeOK'
        BY <1>7, PreviewMoves DEF Preview, TypeOK
  <1>8. ASSUME NEW d \in Ticks, ReadDeliveries(d) PROVE TypeOK'
    <2>1. tick' \in [Ticks -> Tick]
          BY <1>8, ReadMoves DEF Ends
    <2>2. shaky' \subseteq Offers
          BY <1>8 DEF ReadDeliveries, TypeOK, Listed
    <2> QED
        BY <1>8, <2>1, <2>2 DEF ReadDeliveries, TypeOK
  <1>9. ASSUME NEW d \in Ticks, SendDigest(d) PROVE TypeOK'
    <2>1. tick' \in [Ticks -> Tick]
          BY <1>9, MailMoves, RecordEntries DEF SendDigest, TypeOK, Moves
    <2> QED
        BY <1>9, <2>1, MailedType DEF SendDigest, TypeOK
  <1>10. ASSUME NEW d \in Ticks, SendFails(d) PROVE TypeOK'
    <2>1. tick' \in [Ticks -> Tick]
          BY <1>10, MailMoves, RecordEntries DEF SendFails, TypeOK, Moves
    <2>2. told' \in [Offers -> Windows \cup {NoWindow}]
          BY <1>10, MailedType, FailType DEF SendFails
    <2>3. again' \subseteq Offers /\ shaky' \subseteq Offers
          BY <1>10, MailedType DEF SendFails, TypeOK, Listed
    <2> QED
        BY <1>10, <2>1, <2>2, <2>3 DEF SendFails, TypeOK
  <1>11. ASSUME NEW d \in Ticks, Persist(d) PROVE TypeOK'
    <2>1. PICK entry \in tick[d].todo :
            /\ row' = [o \in Offers |->
                         IF tick[d].bucket[o] = entry[1]
                         THEN Recorded(row[o], Window(d, o), entry[2])
                         ELSE row[o]]
            /\ Left(d, tick[d].todo \ {entry})
            /\ UNCHANGED <<told, again, shaky>>
            /\ unchangedOffers
          BY <1>11 DEF Persist
    <2>2. row' \in [Offers -> Row]
          BY <2>1, PersistMoves, PersistRow
    <2>3. tick' \in [Ticks -> Tick]
          BY <2>1, PersistMoves, LeftMoves DEF TypeOK, Moves, Ends
    <2> QED
        BY <2>1, <2>2, <2>3 DEF TypeOK
  <1>12. ASSUME NEW d \in Ticks, PersistFails(d) PROVE TypeOK'
    <2>1. PICK entry \in tick[d].todo :
            Left(d, IF entry[2] = "SENT"
                    THEN (tick[d].todo \ {entry}) \cup Record(d, "FAILED")
                    ELSE tick[d].todo \ {entry})
          BY <1>12 DEF PersistFails
    <2> DEFINE todo == IF entry[2] = "SENT"
                       THEN (tick[d].todo \ {entry}) \cup Record(d, "FAILED")
                       ELSE tick[d].todo \ {entry}
    <2>2. todo \in SUBSET Entries
          BY PersistMoves, RecordEntries
    <2>3. Left(d, todo)
          BY <2>1
    <2> HIDE DEF todo
    <2>4. tick' \in [Ticks -> Tick]
          BY <2>2, <2>3, PersistMoves, LeftMoves DEF TypeOK, Moves, Ends
    <2>5. shaky' \subseteq Offers
          BY <1>12 DEF PersistFails, TypeOK, Listed
    <2> QED
        BY <1>12, <2>4, <2>5 DEF PersistFails, TypeOK
  <1>13. CASE Crash
    <2>1. tick' \in [Ticks -> Tick] /\ call' \in [Callers -> Call]
          BY <1>13, WindowTypes DEF Crash, Call
    <2> QED
        BY <1>13, <2>1 DEF Crash, TypeOK
  <1>14. CASE TimePasses
    <2>1. MaxTime \in Nat
          BY NotebookAssumption DEF NotebookAssumption
    <2>2. now' \in Times
          BY <1>14, <2>1 DEF TimePasses, TypeOK, Times
    <2> QED
        BY <1>14, <2>2 DEF TimePasses, TypeOK
  <1>15. CASE UNCHANGED vars
        BY <1>15 DEF vars, TypeOK
  <1> QED
      BY <1>1, <1>2, <1>3, <1>4, <1>5, <1>6, <1>7, <1>8, <1>9, <1>10, <1>11, <1>12,
         <1>13, <1>14, <1>15 DEF Next

-----------------------------------------------------------------------------
(* The history of an offer                                                 *)

\* A step that changes no status and reads no history.
LEMMA HistoryKept ==
  ASSUME HistoryAccounts, HistoryIsPast, ReadIsPast,
         UNCHANGED <<trail, raced>>,
         \A o \in Offers : row'[o].status = row[o].status /\ row'[o].history = row[o].history,
         \A p \in Callers : call'[p] = call[p] \/ call'[p] = Idle
  PROVE  HistoryAccounts' /\ HistoryIsPast' /\ ReadIsPast'
  <1>1. HistoryAccounts'
        BY DEF HistoryAccounts
  <1>2. HistoryIsPast'
        BY DEF HistoryIsPast
  <1>3. ASSUME NEW p \in Callers, call'[p].pc = "read"
        PROVE  Subsequence(call'[p].history, trail'[call'[p].offer])
    <2>1. call'[p] = call[p]
          BY <1>3 DEF Idle
    <2> QED
        BY <1>3, <2>1 DEF ReadIsPast
  <1> QED
      BY <1>1, <1>2, <1>3 DEF ReadIsPast

LEMMA ReadHistory ==
  ASSUME TypeOK, History, NEW p \in Callers, ReadStatus(p)
  PROVE  History'
  <1>1. PICK o \in Offers, to \in Requested :
          call' = [call EXCEPT ![p] =
                     [pc |-> "read", offer |-> o, to |-> to, history |-> row[o].history]]
        BY DEF ReadStatus
  <1>2. UNCHANGED <<row, trail, raced>>
        BY DEF ReadStatus
  <1>3. HistoryAccounts' /\ HistoryIsPast'
        BY <1>2 DEF History, HistoryAccounts, HistoryIsPast
  <1>4. ASSUME NEW q \in Callers, call'[q].pc = "read"
        PROVE  Subsequence(call'[q].history, trail'[call'[q].offer])
    <2>1. CASE q = p
      <3>1. call'[p].history = row[o].history /\ call'[p].offer = o
            BY <1>1 DEF TypeOK
      <3> QED
          BY <1>2, <2>1, <3>1 DEF History, HistoryIsPast
    <2>2. CASE q # p
      <3>1. call'[q] = call[q]
            BY <1>1, <2>2 DEF TypeOK
      <3> QED
          BY <1>2, <1>4, <3>1 DEF History, ReadIsPast
    <2> QED
        BY <2>1, <2>2
  <1> QED
      BY <1>3, <1>4 DEF History, ReadIsPast

\* The calls that had read a history keep a part of what happened since.
LEMMA ReadsKept ==
  ASSUME TypeOK, ReadIsPast, NEW set \in SUBSET Offers, NEW to \in Statuses,
         trail' \in [Offers -> Seq(Statuses)],
         \A o \in Offers : trail'[o] = IF o \in set THEN Append(trail[o], to) ELSE trail[o],
         \A q \in Callers : call'[q] = call[q] \/ call'[q] = Idle
  PROVE  ReadIsPast'
  <1> SUFFICES ASSUME NEW q \in Callers, call'[q].pc = "read"
               PROVE  Subsequence(call'[q].history, trail'[call'[q].offer])
      BY DEF ReadIsPast
  <1> DEFINE o == call[q].offer
             h == call[q].history
  <1>1. call'[q] = call[q] /\ call[q].pc = "read"
        BY DEF Idle
  <1>2. o \in Offers /\ h \in Seq(Statuses) /\ trail[o] \in Seq(Statuses)
        BY <1>1, CallType, RowType
  <1>3. Subsequence(h, trail[o])
        BY <1>1 DEF ReadIsPast
  <1> HIDE DEF o, h
  <1>4. Subsequence(h, Append(trail[o], to))
        BY <1>2, <1>3, SubsequenceGrows
  <1>5. Subsequence(h, trail'[o])
        BY <1>2, <1>3, <1>4
  <1> QED
      BY <1>1, <1>5 DEF o, h

LEMMA WriteHistory ==
  ASSUME TypeOK, History, NEW p \in Callers, WriteStatus(p)
  PROVE  History'
  <1> DEFINE o == call[p].offer
             to == call[p].to
             was == call[p].history
             h == Append(was, to)
  <1>1. call[p].pc = "read"
        BY DEF WriteStatus
  <1>2. /\ o \in Offers /\ to \in Statuses /\ was \in Seq(Statuses)
        /\ h \in Seq(Statuses) /\ Len(h) = Len(was) + 1 /\ h[Len(was) + 1] = to
        /\ trail[o] \in Seq(Statuses) /\ row[o] \in Row
        BY <1>1, CallType, RowType, AppendIs
  <1>3. /\ row' = [row EXCEPT ![o] = Changed(row[o], to, h)]
        /\ trail' = [trail EXCEPT ![o] = Append(trail[o], to)]
        /\ raced' = IF row[o].history # was THEN raced \cup {o} ELSE raced
        /\ call' = [call EXCEPT ![p] = Idle]
        BY DEF WriteStatus
  <1>4. Subsequence(was, trail[o])
        BY <1>1 DEF History, ReadIsPast
  <1> HIDE DEF o, to, was, h
  <1>5. /\ row'[o].status = to /\ row'[o].history = h
        /\ trail'[o] = Append(trail[o], to)
        /\ \A q \in Offers \ {o} : row'[q] = row[q] /\ trail'[q] = trail[q]
        /\ raced \subseteq raced' /\ (row[o].history # was => o \in raced')
        BY <1>2, <1>3, ChangedRow DEF TypeOK
  <1>6. HistoryAccounts'
    <2>1. ASSUME NEW q \in Offers
          PROVE  /\ row'[q].history[Len(row'[q].history)] = row'[q].status
                 /\ q \notin raced' => row'[q].history = trail'[q]
      <3>1. CASE q # o
            BY <1>5, <3>1 DEF History, HistoryAccounts
      <3>2. CASE q = o
        <4>1. row'[o].history[Len(row'[o].history)] = row'[o].status
              BY <1>2, <1>5
        <4>2. ASSUME o \notin raced' PROVE row'[o].history = trail'[o]
          <5>1. row[o].history = was /\ o \notin raced
                BY <1>5, <4>2
          <5>2. was = trail[o]
                BY <1>2, <5>1 DEF History, HistoryAccounts
          <5> QED
              BY <1>5, <5>2 DEF h
        <4> QED
            BY <3>2, <4>1, <4>2
      <3> QED
          BY <3>1, <3>2
    <2> QED
        BY <2>1 DEF HistoryAccounts
  <1>7. HistoryIsPast'
    <2>1. Subsequence(row'[o].history, trail'[o])
          BY <1>2, <1>4, <1>5, SubsequenceAppends DEF h
    <2>2. \A q \in Offers \ {o} : Subsequence(row'[q].history, trail'[q])
          BY <1>5 DEF History, HistoryIsPast
    <2> QED
        BY <2>1, <2>2 DEF HistoryIsPast
  <1>8. ReadIsPast'
    <2>1. \A q \in Callers : call'[q] = call[q] \/ call'[q] = Idle
          BY <1>3 DEF TypeOK
    <2>2. trail' \in [Offers -> Seq(Statuses)]
          BY WriteType DEF TypeOK
    <2>3. {o} \in SUBSET Offers
          BY <1>2
    <2>4. \A q \in Offers : trail'[q] = IF q \in {o} THEN Append(trail[q], to) ELSE trail[q]
          BY <1>5
    <2> QED
        BY <1>2, <2>1, <2>2, <2>3, <2>4, ReadsKept DEF History
  <1> QED
      BY <1>6, <1>7, <1>8 DEF History

LEMMA MovedHistory ==
  ASSUME TypeOK, History, NEW set \in SUBSET Offers, NEW to \in Statuses, Moved(set, to)
  PROVE  History'
  <1> DEFINE h(o) == Append(row[o].history, to)
  <1>1. ASSUME NEW o \in Offers
        PROVE  /\ trail'[o] = IF o \in set THEN Append(trail[o], to) ELSE trail[o]
               /\ row'[o] = IF o \in set THEN Changed(row[o], to, h(o)) ELSE row[o]
        BY DEF Moved
  <1>2. ASSUME NEW o \in set
        PROVE  /\ row'[o].status = to /\ row'[o].history = h(o)
               /\ row[o].history \in Seq(Statuses)
               /\ h(o) \in Seq(Statuses)
               /\ Len(h(o)) = Len(row[o].history) + 1 /\ h(o)[Len(row[o].history) + 1] = to
    <2>1. /\ row[o] \in Row /\ row[o].history \in Seq(Statuses)
          /\ h(o) \in Seq(Statuses)
          /\ Len(h(o)) = Len(row[o].history) + 1 /\ h(o)[Len(row[o].history) + 1] = to
          BY RowType, AppendIs
    <2>2. row'[o] = Changed(row[o], to, h(o))
          BY <1>1
    <2> HIDE DEF h
    <2>3. row'[o].status = to /\ row'[o].history = h(o)
          BY <2>1, <2>2, ChangedRow
    <2> QED
        BY <2>1, <2>3
  <1>3. UNCHANGED <<call, raced>>
        BY DEF Moved
  <1>4. HistoryAccounts'
    <2>1. ASSUME NEW o \in Offers
          PROVE  /\ row'[o].history[Len(row'[o].history)] = row'[o].status
                 /\ o \notin raced' => row'[o].history = trail'[o]
      <3>1. CASE o \notin set
            BY <1>1, <1>3, <3>1 DEF History, HistoryAccounts
      <3>2. CASE o \in set
        <4>1. row'[o].history[Len(row'[o].history)] = row'[o].status
              BY <1>2, <3>2
        <4>2. ASSUME o \notin raced PROVE row'[o].history = trail'[o]
              BY <1>1, <1>2, <3>2, <4>2 DEF History, HistoryAccounts
        <4> QED
            BY <1>3, <4>1, <4>2
      <3> QED
          BY <3>1, <3>2
    <2> QED
        BY <2>1 DEF HistoryAccounts
  <1>5. HistoryIsPast'
    <2>1. ASSUME NEW o \in Offers PROVE Subsequence(row'[o].history, trail'[o])
      <3>1. CASE o \notin set
            BY <1>1, <3>1 DEF History, HistoryIsPast
      <3>2. CASE o \in set
        <4>1. Subsequence(row[o].history, trail[o])
              BY DEF History, HistoryIsPast
        <4>2. Subsequence(h(o), Append(trail[o], to))
              BY <1>2, <3>2, <4>1, RowType, SubsequenceAppends
        <4> QED
            BY <1>1, <1>2, <3>2, <4>2
      <3> QED
          BY <3>1, <3>2
    <2> QED
        BY <2>1 DEF HistoryIsPast
  <1>6. ReadIsPast'
    <2>1. trail' \in [Offers -> Seq(Statuses)]
          BY MovedType DEF TypeOK
    <2> QED
        BY <1>1, <1>3, <2>1, ReadsKept DEF History
  <1> QED
      BY <1>4, <1>5, <1>6 DEF History


LEMMA HistoryStep ==
  ASSUME TypeOK, RecordsMail, History, [Next]_vars
  PROVE  History'
  <1> USE DEF unchangedMail, unchangedOffers
  <1>1. ASSUME NEW p \in Callers, ReadStatus(p) PROVE History'
        BY <1>1, ReadHistory
  <1>2. ASSUME NEW p \in Callers, WriteStatus(p) PROVE History'
        BY <1>2, WriteHistory
  <1>3. CASE DismissAllSeen
        BY <1>3, MovedHistory DEF DismissAllSeen, Statuses
  <1>4. CASE AutoArchive
        BY <1>4, MovedHistory DEF AutoArchive, Statuses
  <1>5. ASSUME UNCHANGED <<row, call, trail, raced>> PROVE History'
        BY <1>5, HistoryKept DEF History
  <1>6. ASSUME NEW o \in Offers, SetFollowUp(o) PROVE History'
    <2>1. UNCHANGED <<call, trail, raced>>
          BY <1>6 DEF SetFollowUp
    <2> QED
        BY <1>6, <2>1, FollowUpRow, HistoryKept DEF History
  <1>7. ASSUME NEW d \in Ticks, Persist(d) PROVE History'
    <2>1. PICK entry \in tick[d].todo :
            row' = [o \in Offers |->
                      IF tick[d].bucket[o] = entry[1]
                      THEN Recorded(row[o], Window(d, o), entry[2])
                      ELSE row[o]]
          BY <1>7 DEF Persist
    <2>2. UNCHANGED <<call, trail, raced>>
          BY <1>7 DEF Persist
    <2>3. \A o \in Offers : row'[o].status = row[o].status /\ row'[o].history = row[o].history
          BY <2>1, PersistMoves, PersistRow
    <2> QED
        BY <2>2, <2>3, HistoryKept DEF History
  <1>8. CASE Crash
    <2>1. UNCHANGED <<row, trail, raced>> /\ \A p \in Callers : call'[p] = Idle
          BY <1>8 DEF Crash
    <2> QED
        BY <2>1, HistoryKept DEF History
  <1>9. ASSUME NEW d \in Ticks,
               BeginTick(d) \/ Preview(d) \/ ReadDeliveries(d) \/ SendDigest(d)
                 \/ SendFails(d) \/ PersistFails(d)
        PROVE  History'
        BY <1>5, <1>9
           DEF BeginTick, Preview, ReadDeliveries, SendDigest, SendFails, PersistFails
  <1>10. CASE TimePasses \/ UNCHANGED vars
        BY <1>5, <1>10 DEF TimePasses, vars
  <1> QED
      BY <1>1, <1>2, <1>3, <1>4, <1>6, <1>7, <1>8, <1>9, <1>10 DEF Next

-----------------------------------------------------------------------------
(* The digests                                                             *)

\* A step that concerns no delivery, or one that has not read the records of its offers.
LEMMA DigestKept ==
  ASSUME DigestInv, UNCHANGED <<tick, told, again, shaky>>,
         \A o \in Offers : /\ row'[o].window = row[o].window
                           /\ row'[o].delivery = row[o].delivery
  PROVE  DigestInv'
  BY DEF DigestInv, OneUnderway, RecordsMail, MailIsRecorded, MailIsNew, RecordIsTrue,
         RemindedOnce, Underway, Listed, Window, WillRecord

\* Nothing changed for the deliveries other than d.
LEMMA OtherDelivery ==
  ASSUME NEW d \in Ticks, NEW e \in Ticks, tick'[e] = tick[e]
  PROVE  /\ Listed(e)' = Listed(e)
         /\ \A o \in Offers : /\ Window(e, o)' = Window(e, o)
                              /\ Underway(e, o)' <=> Underway(e, o)
                              /\ WillRecord(e, o)' <=> WillRecord(e, o)
  BY DEF Listed, Window, Underway, WillRecord

LEMMA DeliveryKept ==
  ASSUME DigestInv, NEW d \in Ticks, UNCHANGED <<row, told, again, shaky>>,
         tick[d].pc \notin {"mailing", "mailed"},
         tick'[d].pc \notin {"mailing", "mailed"}, tick'[d].todo = {},
         \A e \in Ticks \ {d} : tick'[e] = tick[e]
  PROVE  DigestInv'
  <1>1. ASSUME NEW o \in Offers PROVE ~Underway(d, o) /\ ~Underway(d, o)'
        BY DEF Underway
  <1>2. OneUnderway'
        BY <1>1, OtherDelivery DEF DigestInv, OneUnderway
  <1>3. RecordsMail'
        BY DEF DigestInv, RecordsMail
  <1>4. MailIsRecorded'
    <2> SUFFICES ASSUME NEW o \in Offers \ shaky, told[o] # NoWindow,
                        ~(row[o].window = told[o] /\ row[o].delivery = "SENT")
                 PROVE  \E e \in Ticks : /\ tick'[e].pc = "mailed" /\ o \in Listed(e)'
                                         /\ told[o] = Window(e, o)' /\ WillRecord(e, o)'
        BY DEF MailIsRecorded
    <2>1. PICK e \in Ticks : /\ tick[e].pc = "mailed" /\ o \in Listed(e)
                             /\ told[o] = Window(e, o) /\ WillRecord(e, o)
          BY DEF DigestInv, MailIsRecorded
    <2>2. e # d
          BY <2>1
    <2> QED
        BY <2>1, <2>2, OtherDelivery
  <1>5. MailIsNew'
        BY OtherDelivery DEF DigestInv, MailIsNew
  <1>6. RecordIsTrue'
    <2> SUFFICES ASSUME NEW o \in Offers \ shaky, NEW e \in Ticks,
                        tick'[e].pc = "mailed", o \in Listed(e)'
                 PROVE  /\ told[o] \in {NoWindow, Window(e, o)'}
                        /\ <<tick'[e].bucket[o], "FAILED">> \in tick'[e].todo
                             => told[o] = NoWindow
                        /\ WillRecord(e, o)' => told[o] = Window(e, o)'
        BY DEF RecordIsTrue
    <2>1. tick'[e] = tick[e]
          OBVIOUS
    <2> QED
        BY <2>1, OtherDelivery DEF DigestInv, RecordIsTrue
  <1> QED
      BY <1>2, <1>3, <1>4, <1>5, <1>6 DEF DigestInv, RemindedOnce
\* The delivery takes up the offers whose record says that nothing was sent.
LEMMA ReadDigest ==
  ASSUME TypeOK, DigestInv, NEW d \in Ticks, ReadDeliveries(d)
  PROVE  DigestInv'
  <1>1. UNCHANGED <<row, told, again>>
        BY DEF ReadDeliveries
  <1>2. shaky' = shaky \cup {o \in Unsent(d) : \E e \in Ticks \ {d} : Underway(e, o)}
        BY DEF ReadDeliveries, Unsent
  <1>3. \A e \in Ticks \ {d} : tick'[e] = tick[e]
        BY ReadMoves DEF Ends
  <1>4. tick[d].pc = "listed" /\ tick[d].todo = {}
        BY DEF ReadDeliveries, DigestInv, RecordsMail
  <1>5. /\ tick'[d].pc \in {"idle", "mailing"} /\ tick'[d].todo = {}
        /\ tick'[d].pc = "mailing" => Unsent(d) # {}
        BY <1>4, ReadMoves DEF Ends, NoTick
  <1>6. ASSUME NEW o \in Offers, Underway(d, o)'
        PROVE  o \in Unsent(d) /\ Window(d, o)' = Window(d, o)
    <2>1. tick'[d].pc = "mailing" /\ tick'[d].bucket[o] # "none"
          BY <1>5, <1>6 DEF Underway, Listed
    <2>2. Unsent(d) # {}
          BY <1>5, <2>1
    <2>3. /\ tick'[d].bucket[o] = IF o \in Unsent(d) THEN tick[d].bucket[o] ELSE "none"
          /\ tick'[d].day = tick[d].day
          BY <2>2, ReadMoves
    <2> QED
        BY <2>1, <2>3 DEF Window
  <1>7. \A o \in Offers \ shaky', e \in Ticks \ {d} : Underway(d, o)' => ~Underway(e, o)
        BY <1>2, <1>6
  <1>8. OneUnderway'
    <2> SUFFICES ASSUME NEW o \in Offers \ shaky', NEW e \in Ticks, NEW f \in Ticks,
                        Underway(e, o)', Underway(f, o)'
                 PROVE  e = f
        BY DEF OneUnderway
    <2>1. CASE e = d \/ f = d
          BY <1>3, <1>7, <2>1, OtherDelivery
    <2>2. CASE e # d /\ f # d
          BY <1>2, <1>3, <2>2, OtherDelivery DEF DigestInv, OneUnderway
    <2> QED
        BY <2>1, <2>2
  <1>9. RecordsMail'
        BY <1>3, <1>5 DEF DigestInv, RecordsMail
  <1>10. MailIsRecorded'
    <2> SUFFICES ASSUME NEW o \in Offers \ shaky', told[o] # NoWindow,
                        ~(row[o].window = told[o] /\ row[o].delivery = "SENT")
                 PROVE  \E e \in Ticks : /\ tick'[e].pc = "mailed" /\ o \in Listed(e)'
                                         /\ told[o] = Window(e, o)' /\ WillRecord(e, o)'
        BY <1>1 DEF MailIsRecorded
    <2>1. PICK e \in Ticks : /\ tick[e].pc = "mailed" /\ o \in Listed(e)
                             /\ told[o] = Window(e, o) /\ WillRecord(e, o)
          BY <1>2 DEF DigestInv, MailIsRecorded
    <2>2. e # d
          BY <1>4, <2>1
    <2> QED
        BY <1>3, <2>1, <2>2, OtherDelivery
  <1>11. MailIsNew'
    <2> SUFFICES ASSUME NEW o \in Offers \ shaky', NEW e \in Ticks,
                        tick'[e].pc = "mailing", o \in Listed(e)', told[o] = Window(e, o)'
                 PROVE  FALSE
        BY <1>1 DEF MailIsNew
    <2>1. CASE e # d
          BY <1>2, <1>3, <2>1, OtherDelivery DEF DigestInv, MailIsNew
    <2>2. CASE e = d
      <3>1. Underway(d, o)'
            BY <2>2 DEF Underway
      <3>2. o \in Unsent(d) /\ told[o] = Window(d, o)
            BY <1>6, <2>2, <3>1
      <3>3. o \in Listed(d) /\ ~(row[o].window = told[o] /\ row[o].delivery = "SENT")
            BY <3>2 DEF Unsent, IsRecorded
      <3>4. told[o] # NoWindow
            BY <3>2, <3>3, ListedWindow, WindowTypes
      <3>5. PICK f \in Ticks : tick[f].pc = "mailed" /\ o \in Listed(f)
            BY <1>2, <3>3, <3>4 DEF DigestInv, MailIsRecorded
      <3>6. f # d /\ Underway(f, o)
            BY <1>4, <3>5 DEF Underway
      <3> QED
          BY <1>7, <3>1, <3>6
    <2> QED
        BY <2>1, <2>2
  <1>12. RecordIsTrue'
    <2> SUFFICES ASSUME NEW o \in Offers \ shaky', NEW e \in Ticks,
                        tick'[e].pc = "mailed", o \in Listed(e)'
                 PROVE  /\ told[o] \in {NoWindow, Window(e, o)'}
                        /\ <<tick'[e].bucket[o], "FAILED">> \in tick'[e].todo
                             => told[o] = NoWindow
                        /\ WillRecord(e, o)' => told[o] = Window(e, o)'
        BY <1>1 DEF RecordIsTrue
    <2>1. tick'[e] = tick[e]
          BY <1>3, <1>5
    <2> QED
        BY <1>2, <2>1, OtherDelivery DEF DigestInv, RecordIsTrue
  <1>13. RemindedOnce'
        BY <1>1, <1>2 DEF DigestInv, RemindedOnce
  <1> QED
      BY <1>8, <1>9, <1>10, <1>11, <1>12, <1>13 DEF DigestInv

\* A mail that goes out, or fails: the offers it is about have one delivery underway.
LEMMA MailStep ==
  ASSUME TypeOK, DigestInv, NEW d \in Ticks, NEW status \in {"SENT", "FAILED"},
         tick[d].pc = "mailing", Moves(d, "mailed", Record(d, status)), UNCHANGED row,
         shaky \subseteq shaky', again' \subseteq shaky',
         told' \in [Offers -> Windows \cup {NoWindow}],
         \A o \in Offers \ Listed(d) : told'[o] = told[o],
         \A o \in Listed(d) \ shaky' :
           told'[o] = IF status = "SENT" THEN Window(d, o) ELSE NoWindow
  PROVE  DigestInv'
  <1>1. \A e \in Ticks \ {d} : tick'[e] = tick[e]
        BY DEF Moves
  <1>2. /\ tick'[d].pc = "mailed" /\ Listed(d)' = Listed(d)
        /\ \A o \in Offers : /\ Window(d, o)' = Window(d, o)
                             /\ Underway(d, o)' <=> Underway(d, o)
        BY DEF Moves, Listed, Window, Underway
  <1>3. \A e \in Ticks, o \in Offers : Underway(e, o)' <=> Underway(e, o)
        BY <1>1, <1>2, OtherDelivery
  <1>4. \A o \in Listed(d) \ shaky', e \in Ticks \ {d} : ~Underway(e, o)
    <2>1. \A o \in Listed(d) : o \in Offers /\ Underway(d, o)
          BY DEF Underway, Listed
    <2> QED
        BY <2>1 DEF DigestInv, OneUnderway
  <1>5. \A o \in Offers : WillRecord(d, o)' <=> o \in Listed(d) /\ status = "SENT"
    <2>1. /\ tick'[d].todo = Record(d, status)
          /\ tick'[d].bucket = tick[d].bucket
          BY DEF Moves
    <2>2. ASSUME NEW o \in Offers, WillRecord(d, o)'
          PROVE  o \in Listed(d) /\ status = "SENT"
      <3>1. <<tick[d].bucket[o], "SENT">> \in Record(d, status)
            BY <2>1, <2>2 DEF WillRecord
      <3>2. PICK q \in Listed(d) : <<tick[d].bucket[o], "SENT">> = <<tick[d].bucket[q], status>>
            BY <3>1 DEF Record
      <3> QED
          BY <3>2 DEF Listed
    <2>3. ASSUME NEW o \in Listed(d), status = "SENT" PROVE WillRecord(d, o)'
          BY <2>1, <2>3 DEF WillRecord, Record
    <2> QED
        BY <2>2, <2>3
  <1>6. ASSUME NEW o \in Offers, <<tick'[d].bucket[o], "FAILED">> \in tick'[d].todo
        PROVE  status = "FAILED"
        BY <1>6 DEF Moves, Record
  <1>7. OneUnderway'
        BY <1>3 DEF DigestInv, OneUnderway
  <1>8. RecordsMail'
        BY <1>1, <1>2 DEF DigestInv, RecordsMail
  <1>9. MailIsRecorded'
    <2> SUFFICES ASSUME NEW o \in Offers \ shaky', told'[o] # NoWindow,
                        ~(row[o].window = told'[o] /\ row[o].delivery = "SENT")
                 PROVE  \E e \in Ticks : /\ tick'[e].pc = "mailed" /\ o \in Listed(e)'
                                         /\ told'[o] = Window(e, o)' /\ WillRecord(e, o)'
        BY DEF MailIsRecorded
    <2>1. CASE o \in Listed(d)
          BY <1>2, <1>5, <2>1
    <2>2. CASE o \notin Listed(d)
      <3>1. told'[o] = told[o]
            BY <2>2
      <3>2. PICK e \in Ticks : /\ tick[e].pc = "mailed" /\ o \in Listed(e)
                               /\ told[o] = Window(e, o) /\ WillRecord(e, o)
            BY <3>1 DEF DigestInv, MailIsRecorded
      <3> QED
          BY <1>1, <3>1, <3>2, OtherDelivery
    <2> QED
        BY <2>1, <2>2
  <1>10. MailIsNew'
    <2> SUFFICES ASSUME NEW o \in Offers \ shaky', NEW e \in Ticks,
                        tick'[e].pc = "mailing", o \in Listed(e)'
                 PROVE  told'[o] # Window(e, o)'
        BY DEF MailIsNew
    <2>1. e # d /\ tick'[e] = tick[e]
          BY <1>1, <1>2
    <2>2. tick[e].pc = "mailing" /\ o \in Listed(e) /\ Window(e, o)' = Window(e, o)
          BY <2>1, OtherDelivery
    <2>3. o \notin Listed(d)
          BY <1>4, <2>1, <2>2 DEF Underway
    <2> QED
        BY <2>2, <2>3 DEF DigestInv, MailIsNew
  <1>11. RecordIsTrue'
    <2> SUFFICES ASSUME NEW o \in Offers \ shaky', NEW e \in Ticks,
                        tick'[e].pc = "mailed", o \in Listed(e)'
                 PROVE  /\ told'[o] \in {NoWindow, Window(e, o)'}
                        /\ <<tick'[e].bucket[o], "FAILED">> \in tick'[e].todo
                             => told'[o] = NoWindow
                        /\ WillRecord(e, o)' => told'[o] = Window(e, o)'
        BY DEF RecordIsTrue
    <2>1. CASE e = d
          BY <1>2, <1>5, <1>6, <2>1
    <2>2. CASE e # d
      <3>1. tick'[e] = tick[e] /\ tick[e].pc = "mailed" /\ o \in Listed(e)
            BY <1>1, <2>2, OtherDelivery
      <3>2. told'[o] = told[o]
            BY <1>4, <2>2, <3>1 DEF Underway
      <3> QED
          BY <3>1, <3>2, OtherDelivery DEF DigestInv, RecordIsTrue
    <2> QED
        BY <2>1, <2>2
  <1>12. RemindedOnce'
        BY DEF RemindedOnce
  <1> QED
      BY <1>7, <1>8, <1>9, <1>10, <1>11, <1>12 DEF DigestInv

LEMMA SendStep ==
  ASSUME TypeOK, DigestInv, NEW d \in Ticks, SendDigest(d)
  PROVE  DigestInv'
  <1>1. /\ tick[d].pc = "mailing" /\ Mailed(d) /\ UNCHANGED <<row, shaky>>
        /\ tick' = [tick EXCEPT ![d].pc = "mailed", ![d].todo = Record(d, "SENT")]
        BY DEF SendDigest
  <1>2. Moves(d, "mailed", Record(d, "SENT"))
        BY <1>1, MailMoves, RecordEntries DEF TypeOK
  <1>3. told' \in [Offers -> Windows \cup {NoWindow}]
        BY <1>1, MailedType
  <1>4. again' \subseteq shaky'
        BY <1>1 DEF Mailed, DigestInv, MailIsNew, RemindedOnce, Listed
  <1>5. /\ \A o \in Offers \ Listed(d) : told'[o] = told[o]
        /\ \A o \in Listed(d) : told'[o] = Window(d, o)
        BY <1>1 DEF Mailed, Listed
  <1> QED
      BY <1>1, <1>2, <1>3, <1>4, <1>5, MailStep

LEMMA FailStep ==
  ASSUME TypeOK, DigestInv, NEW d \in Ticks, SendFails(d)
  PROVE  DigestInv'
  <1>1. /\ tick[d].pc = "mailing" /\ UNCHANGED row
        /\ tick' = [tick EXCEPT ![d].pc = "mailed", ![d].todo = Record(d, "FAILED")]
        BY DEF SendFails
  <1>2. Moves(d, "mailed", Record(d, "FAILED"))
        BY <1>1, MailMoves, RecordEntries DEF TypeOK
  <1>3. CASE /\ told' = [o \in Offers |-> IF o \in Listed(d) THEN NoWindow ELSE told[o]]
             /\ UNCHANGED <<again, shaky>>
    <2>1. told' \in [Offers -> Windows \cup {NoWindow}]
          BY <1>3, FailType
    <2>2. /\ \A o \in Offers \ Listed(d) : told'[o] = told[o]
          /\ \A o \in Listed(d) : told'[o] = NoWindow
          BY <1>3 DEF Listed
    <2>3. again' \subseteq shaky'
          BY <1>3 DEF DigestInv, RemindedOnce
    <2> QED
        BY <1>1, <1>2, <1>3, <2>1, <2>2, <2>3, MailStep
  <1>4. CASE Mailed(d) /\ shaky' = shaky \cup Listed(d)
    <2>1. told' \in [Offers -> Windows \cup {NoWindow}]
          BY <1>4, MailedType
    <2>2. \A o \in Offers \ Listed(d) : told'[o] = told[o]
          BY <1>4 DEF Mailed
    <2>3. again' \subseteq shaky'
          BY <1>4 DEF Mailed, DigestInv, RemindedOnce
    <2> QED
        BY <1>1, <1>2, <1>4, <2>1, <2>2, <2>3, MailStep
  <1> QED
      BY <1>3, <1>4 DEF SendFails

\* A delivery that has mailed goes on, with less to record of the offers that are not
\* shaky, or ends.
LEMMA RecordStep ==
  ASSUME TypeOK, DigestInv, NEW d \in Ticks, tick[d].pc = "mailed",
         NEW todo \in SUBSET Entries, Left(d, todo),
         UNCHANGED <<told, again>>, shaky \subseteq shaky',
         \A o \in Listed(d) \ shaky', status \in {"SENT", "FAILED"} :
           <<tick[d].bucket[o], status>> \in todo
             => <<tick[d].bucket[o], status>> \in tick[d].todo,
         \A o \in Offers \ shaky' :
           \/ row'[o].window = row[o].window /\ row'[o].delivery = row[o].delivery
           \/ row'[o].window = told[o] /\ row'[o].delivery = "SENT"
           \/ told[o] = NoWindow,
         \A o \in Listed(d) \ shaky' :
           WillRecord(d, o) /\ told[o] = Window(d, o) =>
             \/ <<tick[d].bucket[o], "SENT">> \in todo
             \/ row'[o].window = told[o] /\ row'[o].delivery = "SENT"
  PROVE  DigestInv'
  <1>1. IF todo = {} THEN Ends(d) ELSE Moves(d, "mailed", todo)
        BY LeftMoves DEF TypeOK
  <1>2. \A e \in Ticks \ {d} : tick'[e] = tick[e]
        BY <1>1 DEF Ends, Moves
  <1>3. /\ tick'[d].todo = todo
        /\ tick'[d].pc = IF todo = {} THEN "idle" ELSE "mailed"
    <2>1. NoTick.todo = {} /\ NoTick.pc = "idle"
          BY DEF NoTick
    <2>2. CASE todo = {}
          BY <1>1, <2>1, <2>2 DEF Ends
    <2>3. CASE todo # {}
          BY <1>1, <2>3 DEF Moves
    <2> QED
        BY <2>2, <2>3
  <1>4. ASSUME todo # {}
        PROVE  /\ tick'[d].bucket = tick[d].bucket /\ Listed(d)' = Listed(d)
               /\ \A o \in Offers : Window(d, o)' = Window(d, o)
        BY <1>1, <1>4 DEF Moves, Listed, Window
  <1>5. \A e \in Ticks, o \in Offers : Underway(e, o)' => Underway(e, o)
        BY <1>2, <1>3, <1>4, OtherDelivery DEF Underway
  <1>6. OneUnderway'
        BY <1>5 DEF DigestInv, OneUnderway
  <1>7. RecordsMail'
        BY <1>2, <1>3 DEF DigestInv, RecordsMail
  <1>8. MailIsRecorded'
    <2> SUFFICES ASSUME NEW o \in Offers \ shaky', told[o] # NoWindow,
                        ~(row'[o].window = told[o] /\ row'[o].delivery = "SENT")
                 PROVE  \E e \in Ticks : /\ tick'[e].pc = "mailed" /\ o \in Listed(e)'
                                         /\ told[o] = Window(e, o)' /\ WillRecord(e, o)'
        BY DEF MailIsRecorded
    <2>1. ~(row[o].window = told[o] /\ row[o].delivery = "SENT")
          OBVIOUS
    <2>2. PICK e \in Ticks : /\ tick[e].pc = "mailed" /\ o \in Listed(e)
                             /\ told[o] = Window(e, o) /\ WillRecord(e, o)
          BY <2>1 DEF DigestInv, MailIsRecorded
    <2>3. CASE e # d
          BY <1>2, <2>2, <2>3, OtherDelivery
    <2>4. CASE e = d
      <3>1. <<tick[d].bucket[o], "SENT">> \in todo
            BY <2>2, <2>4
      <3>2. todo # {}
            BY <3>1
      <3>3. WillRecord(d, o)'
            BY <1>3, <1>4, <3>1, <3>2 DEF WillRecord
      <3> QED
          BY <1>3, <1>4, <2>2, <2>4, <3>2, <3>3
    <2> QED
        BY <2>3, <2>4
  <1>9. MailIsNew'
    <2> SUFFICES ASSUME NEW o \in Offers \ shaky', NEW e \in Ticks,
                        tick'[e].pc = "mailing", o \in Listed(e)'
                 PROVE  told[o] # Window(e, o)'
        BY DEF MailIsNew
    <2>1. e # d
          BY <1>3
    <2> QED
        BY <1>2, <2>1, OtherDelivery DEF DigestInv, MailIsNew
  <1>10. RecordIsTrue'
    <2> SUFFICES ASSUME NEW o \in Offers \ shaky', NEW e \in Ticks,
                        tick'[e].pc = "mailed", o \in Listed(e)'
                 PROVE  /\ told[o] \in {NoWindow, Window(e, o)'}
                        /\ <<tick'[e].bucket[o], "FAILED">> \in tick'[e].todo
                             => told[o] = NoWindow
                        /\ WillRecord(e, o)' => told[o] = Window(e, o)'
        BY DEF RecordIsTrue
    <2>1. CASE e = d
      <3>1. todo # {}
            BY <1>3, <2>1
      <3>2. /\ tick[d].pc = "mailed" /\ o \in Listed(d) /\ Window(d, o)' = Window(d, o)
            /\ tick'[d].bucket[o] = tick[d].bucket[o]
            BY <1>4, <2>1, <3>1
      <3>3. /\ told[o] \in {NoWindow, Window(d, o)}
            /\ <<tick[d].bucket[o], "FAILED">> \in tick[d].todo => told[o] = NoWindow
            /\ <<tick[d].bucket[o], "SENT">> \in tick[d].todo => told[o] = Window(d, o)
            BY <3>2 DEF DigestInv, RecordIsTrue, WillRecord
      <3> QED
          BY <1>3, <2>1, <3>2, <3>3 DEF WillRecord
    <2>2. CASE e # d
          BY <1>2, <2>2, OtherDelivery DEF DigestInv, RecordIsTrue
    <2> QED
        BY <2>1, <2>2
  <1>11. RemindedOnce'
        BY DEF DigestInv, RemindedOnce
  <1> QED
      BY <1>6, <1>7, <1>8, <1>9, <1>10, <1>11 DEF DigestInv

LEMMA PersistStep ==
  ASSUME TypeOK, DigestInv, NEW d \in Ticks, Persist(d)
  PROVE  DigestInv'
  <1>1. PICK entry \in tick[d].todo :
          /\ row' = [o \in Offers |->
                       IF tick[d].bucket[o] = entry[1]
                       THEN Recorded(row[o], Window(d, o), entry[2])
                       ELSE row[o]]
          /\ Left(d, tick[d].todo \ {entry})
          /\ UNCHANGED <<told, again, shaky>>
        BY DEF Persist
  <1> DEFINE todo == tick[d].todo \ {entry}
  <1>2. entry \in Entries /\ tick[d].pc = "mailed" /\ todo \in SUBSET Entries
        BY PersistMoves DEF DigestInv
  <1>3. \A o \in Offers : IF tick[d].bucket[o] = entry[1]
                          THEN row'[o].window = Window(d, o) /\ row'[o].delivery = entry[2]
                          ELSE row'[o] = row[o]
        BY <1>1, <1>2, PersistRow
  <1>4. ASSUME NEW o \in Offers \ shaky, tick[d].bucket[o] = entry[1]
        PROVE  /\ entry = <<tick[d].bucket[o], entry[2]>> /\ entry[2] \in {"SENT", "FAILED"}
               /\ entry[2] = "SENT" => told[o] = Window(d, o)
               /\ entry[2] = "FAILED" => told[o] = NoWindow
    <2>1. /\ entry = <<tick[d].bucket[o], entry[2]>> /\ entry[2] \in {"SENT", "FAILED"}
          /\ entry[1] \in Buckets
          BY <1>2, <1>4 DEF Entries
    <2>2. o \in Listed(d)
          BY <1>4, <2>1 DEF Listed, Buckets
    <2> QED
        BY <1>2, <2>1, <2>2 DEF DigestInv, RecordIsTrue, WillRecord
  <1>5. ASSUME NEW o \in Offers \ shaky
        PROVE  \/ row'[o].window = row[o].window /\ row'[o].delivery = row[o].delivery
               \/ row'[o].window = told[o] /\ row'[o].delivery = "SENT"
               \/ told[o] = NoWindow
        BY <1>3, <1>4
  <1>6. ASSUME NEW o \in Listed(d) \ shaky, WillRecord(d, o), told[o] = Window(d, o)
        PROVE  \/ <<tick[d].bucket[o], "SENT">> \in todo
               \/ row'[o].window = told[o] /\ row'[o].delivery = "SENT"
    <2>1. o \in Offers
          BY DEF Listed
    <2>2. CASE entry = <<tick[d].bucket[o], "SENT">>
          BY <1>3, <1>6, <2>1, <2>2
    <2>3. CASE entry # <<tick[d].bucket[o], "SENT">>
          BY <1>6, <2>3 DEF WillRecord
    <2> QED
        BY <2>2, <2>3
  <1>7. Left(d, todo)
        BY <1>1
  <1>8. \A o \in Listed(d) \ shaky', status \in {"SENT", "FAILED"} :
          <<tick[d].bucket[o], status>> \in todo
            => <<tick[d].bucket[o], status>> \in tick[d].todo
        OBVIOUS
  <1>9. UNCHANGED <<told, again, shaky>>
        BY <1>1
  <1> HIDE DEF todo
  <1> QED
      BY <1>2, <1>5, <1>6, <1>7, <1>8, <1>9, RecordStep

\* When a record fails, the delivery is shaky, whatever it records then.
LEMMA PersistFailStep ==
  ASSUME TypeOK, DigestInv, NEW d \in Ticks, PersistFails(d)
  PROVE  DigestInv'
  <1>1. PICK entry \in tick[d].todo :
          Left(d, IF entry[2] = "SENT"
                  THEN (tick[d].todo \ {entry}) \cup Record(d, "FAILED")
                  ELSE tick[d].todo \ {entry})
        BY DEF PersistFails
  <1> DEFINE todo == IF entry[2] = "SENT"
                     THEN (tick[d].todo \ {entry}) \cup Record(d, "FAILED")
                     ELSE tick[d].todo \ {entry}
  <1>2. todo \in SUBSET Entries /\ tick[d].pc = "mailed"
        BY PersistMoves, RecordEntries DEF DigestInv
  <1>3. Left(d, todo)
        BY <1>1
  <1>4. shaky' = shaky \cup Listed(d) /\ UNCHANGED <<row, told, again>>
        BY DEF PersistFails
  <1> HIDE DEF todo
  <1> QED
      BY <1>2, <1>3, <1>4, RecordStep

LEMMA CrashStep ==
  ASSUME DigestInv, Crash
  PROVE  DigestInv'
  <1>1. \A d \in Ticks : tick'[d].pc = "idle" /\ tick'[d].todo = {}
        BY DEF Crash, NoTick
  <1>2. /\ UNCHANGED <<row, told, again>>
        /\ shaky' = shaky \cup {o \in Offers : \E d \in Ticks :
                                  tick[d].pc = "mailed" /\ Underway(d, o)}
        BY DEF Crash
  <1>3. OneUnderway' /\ RecordsMail' /\ MailIsNew' /\ RecordIsTrue'
        BY <1>1 DEF OneUnderway, RecordsMail, MailIsNew, RecordIsTrue, Underway
  <1>4. ASSUME NEW o \in Offers \ shaky', told[o] # NoWindow
        PROVE  row[o].window = told[o] /\ row[o].delivery = "SENT"
        BY <1>2, <1>4 DEF DigestInv, MailIsRecorded, Underway
  <1>5. MailIsRecorded'
        BY <1>2, <1>4 DEF MailIsRecorded
  <1>6. RemindedOnce'
        BY <1>2 DEF DigestInv, RemindedOnce
  <1> QED
      BY <1>3, <1>5, <1>6 DEF DigestInv

LEMMA DigestStep ==
  ASSUME TypeOK, DigestInv, [Next]_vars
  PROVE  DigestInv'
  <1>1. ASSUME UNCHANGED <<row, tick, told, again, shaky>> PROVE DigestInv'
        BY <1>1, DigestKept
  <1>2. ASSUME NEW p \in Callers, ReadStatus(p) PROVE DigestInv'
        BY <1>1, <1>2 DEF ReadStatus, unchangedMail
  <1>3. ASSUME NEW p \in Callers, WriteStatus(p) PROVE DigestInv'
    <2> DEFINE h == Append(call[p].history, call[p].to)
               r == row[call[p].offer]
    <2>1. /\ call[p].offer \in Offers /\ call[p].to \in Statuses /\ h \in Seq(Statuses)
          /\ r \in Row
          BY <1>3, CallType, RowType, AppendIs DEF WriteStatus
    <2>2. row' = [row EXCEPT ![call[p].offer] = Changed(r, call[p].to, h)]
          BY <1>3 DEF WriteStatus
    <2>3. UNCHANGED <<tick, told, again, shaky>>
          BY <1>3 DEF WriteStatus, unchangedMail
    <2> HIDE DEF h
    <2>4. \A o \in Offers : row'[o].window = row[o].window /\ row'[o].delivery = row[o].delivery
          BY <2>1, <2>2, ChangedRow DEF TypeOK
    <2> QED
        BY <2>3, <2>4, DigestKept
  <1>4. ASSUME NEW set \in SUBSET Offers, NEW to \in Statuses, Moved(set, to)
        PROVE  DigestInv'
    <2>1. ASSUME NEW o \in Offers
          PROVE  row'[o].window = row[o].window /\ row'[o].delivery = row[o].delivery
      <3> DEFINE h == Append(row[o].history, to)
      <3>1. row'[o] = IF o \in set THEN Changed(row[o], to, h) ELSE row[o]
            BY <1>4 DEF Moved
      <3>2. row[o] \in Row /\ h \in Seq(Statuses)
            BY RowType, AppendIs
      <3> HIDE DEF h
      <3> QED
          BY <3>1, <3>2, ChangedRow
    <2>2. UNCHANGED <<tick, told, again, shaky>>
          BY <1>4 DEF Moved, unchangedMail
    <2> QED
        BY <2>1, <2>2, DigestKept
  <1>5. CASE DismissAllSeen \/ AutoArchive
        BY <1>4, <1>5 DEF DismissAllSeen, AutoArchive, Statuses
  <1>6. ASSUME NEW o \in Offers, SetFollowUp(o) PROVE DigestInv'
    <2>1. UNCHANGED <<tick, told, again, shaky>>
          BY <1>6 DEF SetFollowUp, unchangedMail
    <2> QED
        BY <1>6, <2>1, FollowUpRow, DigestKept
  <1>7. ASSUME NEW d \in Ticks, BeginTick(d) PROVE DigestInv'
        BY <1>7, BeginMoves, DeliveryKept DEF BeginTick
  <1>8. ASSUME NEW d \in Ticks, Preview(d) PROVE DigestInv'
    <2>1. tick[d].todo = {}
          BY <1>8 DEF Preview, DigestInv, RecordsMail
    <2> QED
        BY <1>8, <2>1, PreviewMoves, DeliveryKept DEF Preview
  <1>9. ASSUME NEW d \in Ticks, ReadDeliveries(d) PROVE DigestInv'
        BY <1>9, ReadDigest
  <1>10. ASSUME NEW d \in Ticks, SendDigest(d) PROVE DigestInv'
        BY <1>10, SendStep
  <1>11. ASSUME NEW d \in Ticks, SendFails(d) PROVE DigestInv'
        BY <1>11, FailStep
  <1>12. ASSUME NEW d \in Ticks, Persist(d) PROVE DigestInv'
        BY <1>12, PersistStep
  <1>13. ASSUME NEW d \in Ticks, PersistFails(d) PROVE DigestInv'
        BY <1>13, PersistFailStep
  <1>14. CASE Crash
        BY <1>14, CrashStep
  <1>15. CASE TimePasses \/ UNCHANGED vars
        BY <1>1, <1>15 DEF TimePasses, unchangedMail, vars
  <1> QED
      BY <1>2, <1>3, <1>5, <1>6, <1>7, <1>8, <1>9, <1>10, <1>11, <1>12, <1>13, <1>14,
         <1>15 DEF Next

-----------------------------------------------------------------------------
(* The theorems                                                            *)

LEMMA InitInv == Init => IInv
  <1> SUFFICES ASSUME Init PROVE IInv
      OBVIOUS
  <1>1. <<"NEW">> \in Seq(Statuses) /\ Len(<<"NEW">>) = 1 /\ <<"NEW">>[1] = "NEW"
        BY DEF Statuses
  <1>2. \A o \in Offers : /\ row[o].history = <<"NEW">> /\ trail[o] = <<"NEW">>
                          /\ row[o].status = "NEW"
        BY DEF Init
  <1>3. HistoryAccounts
        BY <1>1, <1>2 DEF HistoryAccounts
  <1>4. HistoryIsPast
        BY <1>1, <1>2, SubsequenceOfItself DEF HistoryIsPast
  <1>5. ReadIsPast
        BY DEF Init, ReadIsPast, Idle
  <1>6. DigestInv
        BY DEF Init, NoTick, DigestInv, OneUnderway, RecordsMail, MailIsRecorded,
               MailIsNew, RecordIsTrue, RemindedOnce, Underway
  <1> QED
      BY <1>3, <1>4, <1>5, <1>6, InitType DEF IInv, History

LEMMA StepInv == IInv /\ [Next]_vars => IInv'
  BY TypeStep, HistoryStep, DigestStep DEF IInv, DigestInv

LEMMA InductiveInvariant == Spec => []IInv
  BY InitInv, StepInv, PTL DEF Spec

\* Whatever is interleaved, the rows, the calls and the deliveries keep their types: an
\* entry of a delivery names a bucket, a record a window of a bucket and a day.
THEOREM TypeCorrect == Spec => []TypeOK
  <1>1. IInv => TypeOK
        BY DEF IInv
  <1> QED
      BY InductiveInvariant, <1>1, PTL

\* statusHistory ends with the status of the offer, for any number of calls of
\* updateStatus and of bulk updates; it is complete unless an updateStatus wrote back a
\* history that had grown since it was read.
THEOREM HistoryAccounted == Spec => []HistoryAccounts
  <1>1. IInv => HistoryAccounts
        BY DEF IInv, History
  <1> QED
      BY InductiveInvariant, <1>1, PTL

\* Even then a history loses entries only: it never names a status the offer did not
\* have, nor two in the wrong order.
THEOREM HistoryIsFaithful == Spec => []HistoryIsPast
  <1>1. IInv => HistoryIsPast
        BY DEF IInv, History
  <1> QED
      BY InductiveInvariant, <1>1, PTL

\* No mail is forgotten: what the last one reminded of is recorded as sent, or the
\* delivery that sent it is about to record that, unless deliveries overlapped or the
\* record of a mail failed.
THEOREM MailsAreRecorded == Spec => []MailIsRecorded
  <1>1. IInv => MailIsRecorded
        BY DEF IInv, DigestInv
  <1> QED
      BY InductiveInvariant, <1>1, PTL

\* deliverReminderDigests reminds of an offer once in a window, for any number of
\* deliveries at a time, failures of the mailer and of the database, and restarts, as far
\* as its record can tell it so.
THEOREM RemindersOnce == Spec => []RemindedOnce
  <1>1. IInv => RemindedOnce
        BY DEF IInv, DigestInv
  <1> QED
      BY InductiveInvariant, <1>1, PTL

=============================================================================
