------------------------------- MODULE Notebook -------------------------------
(***************************************************************************)
(* The notebook of one user (job-offers.service.ts): offers whose status   *)
(* is changed by the user and by housekeeping, each change on record in    *)
(* the history of the offer, and follow-ups, of which digests remind by    *)
(* mail, once in each window of a bucket and a day.  Every action is one   *)
(* statement of a handler.                                                 *)
(***************************************************************************)
EXTENDS Naturals, Sequences

CONSTANTS
  Offers,      \* the offers linked to the user
  Callers,     \* concurrent calls of updateStatus
  Requested,   \* the statuses the user asks for
  Ticks,       \* concurrent calls of deliverReminderDigests
  MaxTime,     \* bound: half days
  MaxChanges   \* bound: changes of status of one offer

VARIABLES
  row,      \* the rows of user_job_offers
  call,     \* the calls of updateStatus
  tick,     \* the deliveries of digests
  now,      \* the clock
  trail,    \* every status an offer had (history)
  raced,    \* offers whose status changed under an updateStatus (history)
  told,     \* the window of the last mail about an offer, if no failure came after (history)
  again,    \* offers of which two mails reminded like that in one window (history)
  shaky     \* offers whose deliveries overlapped, or whose mail went unrecorded (history)

vars == <<row, call, tick, now, trail, raced, told, again, shaky>>

-----------------------------------------------------------------------------

\* SAVED stands for all statuses with a follow-up, DISMISSED for REJECTED too.
Statuses == {"NEW", "SEEN", "SAVED", "DISMISSED", "ARCHIVED"}

NotebookAssumption ==
  /\ Requested \subseteq Statuses
  /\ {MaxTime, MaxChanges} \subseteq Nat

ASSUME NotebookAssumption

Times == 0..MaxTime

Day(time) == time \div 2

NoTime == MaxTime + 1

Buckets == {"overdue", "today", "upcoming", "stale"}

Windows == Buckets \X {Day(t) : t \in Times}

NoWindow == <<"none", 0>>

Row ==
  [status : Statuses,
   history : Seq(Statuses),            \* statusHistory
   followUpAt : Times \cup {NoTime},   \* the column and its mirror in pipelineMeta
   window : Windows \cup {NoWindow},   \* reminderLastWindowKey
   delivery : {"none", "SENT", "FAILED"}]

Idle == [pc |-> "idle", offer |-> "none", to |-> "none", history |-> <<>>]

Call == {Idle} \cup [pc : {"read"}, offer : Offers, to : Statuses, history : Seq(Statuses)]

Tick ==
  [pc : {"idle", "begun", "listed", "mailing", "mailed"},
   day : {Day(t) : t \in Times},
   bucket : [Offers -> Buckets \cup {"none"}],
   todo : SUBSET (Buckets \X {"SENT", "FAILED"})]

TypeOK ==
  /\ row \in [Offers -> Row]
  /\ call \in [Callers -> Call]
  /\ tick \in [Ticks -> Tick]
  /\ now \in Times
  /\ trail \in [Offers -> Seq(Statuses)]
  /\ raced \subseteq Offers
  /\ told \in [Offers -> Windows \cup {NoWindow}]
  /\ again \subseteq Offers
  /\ shaky \subseteq Offers

NoTick == [pc |-> "idle", day |-> 0, bucket |-> [o \in Offers |-> "none"], todo |-> {}]

\* linkCatalogOffersToUser inserts the rows with their first entry.
Init ==
  /\ row = [o \in Offers |->
              [status |-> "NEW", history |-> <<"NEW">>, followUpAt |-> NoTime,
               window |-> NoWindow, delivery |-> "none"]]
  /\ call = [p \in Callers |-> Idle]
  /\ tick = [d \in Ticks |-> NoTick]
  /\ now = 0
  /\ trail = [o \in Offers |-> <<"NEW">>]
  /\ raced = {}
  /\ told = [o \in Offers |-> NoWindow]
  /\ again = {}
  /\ shaky = {}

-----------------------------------------------------------------------------
(* The status                                                              *)

unchangedMail == UNCHANGED <<tick, told, again, shaky>>

\* Bound on the changes of an offer.
MayChange(o) == Len(trail[o]) <= MaxChanges

Changed(r, to, history) == [r EXCEPT !.status = to, !.history = history]

\* updateStatus reads the row, without locking it; the same status is no change.
ReadStatus(p) ==
  /\ call[p].pc = "idle"
  /\ \E o \in Offers, to \in Requested :
       /\ MayChange(o)
       /\ to # row[o].status
       /\ call' = [call EXCEPT ![p] =
                     [pc |-> "read", offer |-> o, to |-> to, history |-> row[o].history]]
  /\ UNCHANGED <<row, now, trail, raced>>
  /\ unchangedMail

\* Then it writes the status and the history it read with one more entry.
WriteStatus(p) ==
  LET o == call[p].offer  to == call[p].to IN
  /\ call[p].pc = "read"
  /\ MayChange(o)
  /\ row' = [row EXCEPT ![o] = Changed(@, to, Append(call[p].history, to))]
  /\ trail' = [trail EXCEPT ![o] = Append(@, to)]
  /\ raced' = IF row[o].history # call[p].history THEN raced \cup {o} ELSE raced
  /\ call' = [call EXCEPT ![p] = Idle]
  /\ UNCHANGED now
  /\ unchangedMail

Moved(set, to) ==
  /\ row' = [o \in Offers |->
               IF o \in set
               THEN Changed(row[o], to, Append(row[o].history, to))
               ELSE row[o]]
  /\ trail' = [o \in Offers |-> IF o \in set THEN Append(trail[o], to) ELSE trail[o]]
  /\ UNCHANGED <<call, now, raced>>
  /\ unchangedMail

\* Variant: only the status is written.
DismissWithoutHistory ==
  LET seen == {o \in Offers : row[o].status = "SEEN"} IN
  /\ seen # {}
  /\ \A o \in seen : MayChange(o)
  /\ row' = [o \in Offers |-> IF o \in seen THEN [row[o] EXCEPT !.status = "DISMISSED"] ELSE row[o]]
  /\ trail' = [o \in Offers |-> IF o \in seen THEN Append(trail[o], "DISMISSED") ELSE trail[o]]
  /\ UNCHANGED <<call, now, raced>>
  /\ unchangedMail

\* dismissAllSeen appends to the history in the statement that sets the status.
DismissAllSeen ==
  LET seen == {o \in Offers : row[o].status = "SEEN"} IN
  /\ seen # {}
  /\ \A o \in seen : MayChange(o)
  /\ Moved(seen, "DISMISSED")

\* So does autoArchiveOldOffers, with the new offers that are old enough.
AutoArchive ==
  \E old \in (SUBSET {o \in Offers : row[o].status = "NEW" /\ MayChange(o)}) \ {{}} :
    Moved(old, "ARCHIVED")

-----------------------------------------------------------------------------
(* The follow-up                                                           *)

\* completeFollowUp, snoozeFollowUp, clearFollowUp, updatePipelineMeta and the bulk
\* updates write every field, with the value they ask for or the one they had read: any.
SetFollowUp(o) ==
  /\ \E time \in Times \cup {NoTime} : row' = [row EXCEPT ![o].followUpAt = time]
  /\ UNCHANGED <<call, now, trail, raced>>
  /\ unchangedMail

-----------------------------------------------------------------------------
(* The digests                                                             *)

unchangedOffers == UNCHANGED <<call, now, trail, raced>>

\* resolveFollowUpState and the signals of the attention list: what is due later today is
\* upcoming as well.
FollowUpBuckets(time) ==
  IF time <= now THEN {"overdue"}
  ELSE {"upcoming"} \cup {b \in {"today"} : Day(time) = Day(now)}

\* The bucket buildDeliverableReminderBuckets leaves an offer in, the first of several.  A
\* saved offer may be stale as well; each bucket may leave it out, which keeps ten offers,
\* and all of them do when it has expired.
MayBeIn(o) ==
  IF row[o].status # "SAVED" THEN {"none"}
  ELSE {"none", "stale"} \cup
       (IF row[o].followUpAt = NoTime THEN {} ELSE FollowUpBuckets(row[o].followUpAt))

Window(d, o) == <<tick[d].bucket[o], tick[d].day>>

Listed(d) == {o \in Offers : tick[d].bucket[o] # "none"}

\* The tick reads the clock, which gives its windows their day, and lists the users.
BeginTick(d) ==
  /\ tick[d].pc = "idle"
  /\ tick' = [tick EXCEPT ![d] = [NoTick EXCEPT !.pc = "begun", !.day = Day(now)]]
  /\ UNCHANGED <<row, told, again, shaky>>
  /\ unchangedOffers

\* getReminderPreview reads the offers, and the clock again.
Preview(d) ==
  /\ tick[d].pc = "begun"
  /\ \E bucket \in [Offers -> Buckets \cup {"none"}] :
       /\ \A o \in Offers : bucket[o] \in MayBeIn(o)
       /\ tick' = [tick EXCEPT ![d].pc = "listed", ![d].bucket = bucket]
  /\ UNCHANGED <<row, told, again, shaky>>
  /\ unchangedOffers

IsRecorded(d, o) == row[o].window = Window(d, o) /\ row[o].delivery = "SENT"

\* Deliveries that have read the state of an offer and not recorded theirs.
Underway(d, o) == tick[d].pc \in {"mailing", "mailed"} /\ o \in Listed(d)

Only(d, set) == [o \in Offers |-> IF o \in set THEN tick[d].bucket[o] ELSE "none"]

\* Variant: an offer is left out only after a failure.
ReadDeliveriesFailed(d) ==
  LET unsent == {o \in Listed(d) : ~(row[o].window = Window(d, o) /\ row[o].delivery = "FAILED")} IN
  /\ tick[d].pc = "listed"
  /\ tick' = [tick EXCEPT ![d] =
                IF unsent = {} THEN NoTick
                ELSE [@ EXCEPT !.pc = "mailing", !.bucket = Only(d, unsent)]]
  /\ shaky' = shaky \cup {o \in unsent : \E e \in Ticks \ {d} : Underway(e, o)}
  /\ UNCHANGED <<row, told, again>>
  /\ unchangedOffers

\* The offers of which it has reminded in this window are left out.
ReadDeliveries(d) ==
  LET unsent == {o \in Listed(d) : ~IsRecorded(d, o)} IN
  /\ tick[d].pc = "listed"
  /\ tick' = [tick EXCEPT ![d] =
                IF unsent = {} THEN NoTick
                ELSE [@ EXCEPT !.pc = "mailing", !.bucket = Only(d, unsent)]]
  /\ shaky' = shaky \cup {o \in unsent : \E e \in Ticks \ {d} : Underway(e, o)}
  /\ UNCHANGED <<row, told, again>>
  /\ unchangedOffers

Record(d, status) == {<<tick[d].bucket[o], status>> : o \in Listed(d)}

Mailed(d) ==
  /\ again' = again \cup {o \in Listed(d) : told[o] = Window(d, o)}
  /\ told' = [o \in Offers |-> IF o \in Listed(d) THEN Window(d, o) ELSE told[o]]

SendDigest(d) ==
  /\ tick[d].pc = "mailing"
  /\ tick' = [tick EXCEPT ![d].pc = "mailed", ![d].todo = Record(d, "SENT")]
  /\ Mailed(d)
  /\ UNCHANGED <<row, shaky>>
  /\ unchangedOffers

\* Variant: a failure is recorded without a status.
SendFailsUnnamed(d) ==
  /\ tick[d].pc = "mailing"
  /\ tick' = [tick EXCEPT ![d].pc = "mailed", ![d].todo = Record(d, "none")]
  /\ told' = [o \in Offers |-> IF o \in Listed(d) THEN NoWindow ELSE told[o]]
  /\ UNCHANGED <<row, again, shaky>>
  /\ unchangedOffers

\* An error of the mailer, which may have sent the mail nevertheless.
SendFails(d) ==
  /\ tick[d].pc = "mailing"
  /\ tick' = [tick EXCEPT ![d].pc = "mailed", ![d].todo = Record(d, "FAILED")]
  /\ \/ /\ told' = [o \in Offers |-> IF o \in Listed(d) THEN NoWindow ELSE told[o]]
        /\ UNCHANGED <<again, shaky>>
     \/ Mailed(d) /\ shaky' = shaky \cup Listed(d)
  /\ UNCHANGED row
  /\ unchangedOffers

\* The updates that are left, or the end of the delivery.
Left(d, todo) == tick' = [tick EXCEPT ![d] = IF todo = {} THEN NoTick ELSE [@ EXCEPT !.todo = todo]]

Recorded(r, window, delivery) == [r EXCEPT !.window = window, !.delivery = delivery]

\* persistReminderDeliveryStateBatch, of all buckets at once.
Persist(d) ==
  \E entry \in tick[d].todo :
    /\ row' = [o \in Offers |->
                 IF tick[d].bucket[o] = entry[1]
                 THEN Recorded(row[o], Window(d, o), entry[2])
                 ELSE row[o]]
    /\ Left(d, tick[d].todo \ {entry})
    /\ UNCHANGED <<told, again, shaky>>
    /\ unchangedOffers

\* One that fails after the mail was sent makes all of them FAILED, beside those still
\* under way; one that fails in turn ends the tick, for the users that follow too.
PersistFails(d) ==
  \E entry \in tick[d].todo :
    /\ Left(d, IF entry[2] = "SENT"
               THEN (tick[d].todo \ {entry}) \cup Record(d, "FAILED")
               ELSE tick[d].todo \ {entry})
    /\ shaky' = shaky \cup Listed(d)
    /\ UNCHANGED <<row, told, again>>
    /\ unchangedOffers

-----------------------------------------------------------------------------

\* The process of the API dies.
Crash ==
  /\ \/ \E d \in Ticks : tick[d].pc # "idle"
     \/ \E p \in Callers : call[p].pc # "idle"
  /\ call' = [p \in Callers |-> Idle]
  /\ tick' = [d \in Ticks |-> NoTick]
  /\ shaky' = shaky \cup {o \in Offers : \E d \in Ticks : tick[d].pc = "mailed" /\ Underway(d, o)}
  /\ UNCHANGED <<row, now, trail, raced, told, again>>

TimePasses ==
  /\ now < MaxTime
  /\ now' = now + 1
  /\ UNCHANGED <<row, call, trail, raced>>
  /\ unchangedMail

Next ==
  \/ \E p \in Callers : ReadStatus(p) \/ WriteStatus(p)
  \/ DismissAllSeen \/ AutoArchive
  \/ \E o \in Offers : SetFollowUp(o)
  \/ \E d \in Ticks :
       \/ BeginTick(d) \/ Preview(d) \/ ReadDeliveries(d)
       \/ SendDigest(d) \/ SendFails(d) \/ Persist(d) \/ PersistFails(d)
  \/ Crash
  \/ TimePasses

Spec == Init /\ [][Next]_vars

-----------------------------------------------------------------------------
(* Properties                                                              *)

\* The history of an offer ends with its status, and names every status it ever had
\* unless an updateStatus overwrote a change it had not seen.
HistoryAccounts ==
  \A o \in Offers :
    /\ row[o].history[Len(row[o].history)] = row[o].status
    /\ o \notin raced => row[o].history = trail[o]

\* No two mails in a row, with no failed one between them, remind of an offer in the same
\* window, unless its deliveries overlapped, or a mail went out and was not recorded: the
\* process died, the database failed, or the mailer called it a failure.
RemindedOnce == again \subseteq shaky

=============================================================================
