----------------------- MODULE ProfileGenerationProofs ------------------------
(***************************************************************************)
(* Theorems about ProfileGeneration for any number of profiles, requests,  *)
(* instances and restarts.                                                 *)
(***************************************************************************)
EXTENDS ProfileGeneration, TLAPS, WellFoundedInduction

\* Profiles are created in order, the version of each is at most its place, and nothing
\* is at work on one that does not exist.
InOrder ==
  /\ \A p, q \in Profiles : Exists(p) /\ q < p => Exists(q)
  /\ \A p \in Profiles : profile[p].version <= p
  /\ \A c \in Calls, p \in Profiles :
       call[c].pc = "insert" /\ ~Exists(p) => call[c].version <= p
  /\ \A p \in Profiles : ~Exists(p) =>
       /\ ~profile[p].active /\ profile[p].version = 0 /\ profile[p].lease = "none"
       /\ p \notin overlap
       /\ \A i \in Instances : task[i][p] = "idle"

\* Only a settled profile is being restored.
RestoresSettled ==
  \A c \in Calls : call[c].pc = "restore" =>
    call[c].id \in Profiles /\ profile[call[c].id].status \in {"READY", "FAILED"}

\* Unless its lease ran out meanwhile, one task is at work on a profile, which waits for
\* it under a live lease.
LeaseExcludes ==
  \A p \in Profiles \ overlap :
    /\ \A i, j \in Busy(p) : i = j
    /\ Busy(p) # {} => profile[p].status = "PENDING" /\ profile[p].lease = "live"

\* A profile that took the flag from the others and still has it is alone: no other is
\* usable or about to be.
TakerIsAlone ==
  \A i, j \in Instances, p, q \in Profiles :
    task[i][p] = "deactivated" /\ profile[p].active /\ p # q =>
      /\ q \notin Usable
      /\ task[j][q] = "deactivated" => ~profile[q].active

\* A user with a READY profile, or one about to be, has a usable one or is about to have
\* it, unless a generation broke off.
FlagIsKept ==
  \/ \E p \in Profiles : profile[p].status = "READY"
  \/ \E i \in Instances, p \in Profiles : task[i][p] = "deactivated"
  => \/ Usable # {}
     \/ broken
     \/ \E i \in Instances, p \in Profiles : task[i][p] = "deactivated" /\ profile[p].active

\* A create that is past its check is right about it, unless another one raced it.
ChecksHold ==
  ~raced => \A c \in Calls, p \in Profiles :
    /\ Creating(c) => ~(profile[p].active /\ profile[p].status = "PENDING")
    /\ call[c].pc = "insert" => call[c].version > profile[p].version

\* The inductive invariant behind the invariants of the run and the refinement.
IInv ==
  /\ TypeOK
  /\ InOrder
  /\ RestoresSettled
  /\ LeaseExcludes
  /\ OneUsable
  /\ TakerIsAlone
  /\ FlagIsKept
  /\ ChecksHold
  /\ OneProfilePerRequest

-----------------------------------------------------------------------------
(* The helpers                                                             *)

\* A bounded set of numbers has its maximum.
LEMMA MaxOfBounded ==
  ASSUME NEW S, NEW bound \in Nat, S \subseteq 0..bound, S # {}
  PROVE  Max(S) \in S /\ \A y \in S : y <= Max(S)
  <1> DEFINE gaps == {bound - x : x \in S}
  <1>1. gaps \subseteq Nat /\ gaps # {}
        <2>1. PICK x \in S : TRUE
              OBVIOUS
        <2>2. bound - x \in gaps
              BY <2>1
        <2>3. \A y \in S : bound - y \in Nat
              OBVIOUS
        <2> QED
              BY <2>2, <2>3
  <1>2. \E gap \in gaps : \A y \in gaps : <<y, gap>> \notin OpToRel(<, Nat)
        BY <1>1, NatLessThanWellFounded, WFMin
  <1>3. PICK x \in S : \A y \in S : x >= y
        <2>1. PICK gap \in gaps : \A y \in gaps : ~(y < gap)
              BY <1>1, <1>2 DEF OpToRel
        <2>2. PICK x \in S : gap = bound - x
              OBVIOUS
        <2>3. ASSUME NEW y \in S PROVE x >= y
              <3>1. bound - y \in gaps
                    OBVIOUS
              <3> QED
                    BY <2>1, <2>2, <3>1
        <2> QED
              BY <2>3
  <1> QED
      BY <1>3 DEF Max

LEMMA ActivePendingIsLast ==
  ASSUME TypeOK
  PROVE  /\ ActivePending \in 0..N
         /\ ActivePending # 0 => /\ profile[ActivePending].active
                                 /\ profile[ActivePending].status = "PENDING"
         /\ ActivePending = 0 =>
              \A p \in Profiles : ~(profile[p].active /\ profile[p].status = "PENDING")
  <1> DEFINE S == {0} \cup {p \in Profiles : /\ profile[p].active
                                             /\ profile[p].status = "PENDING"}
  <1>1. N \in Nat
        BY ProfileGenerationAssumption DEF ProfileGenerationAssumption
  <1>2. S \subseteq 0..N /\ S # {}
        BY <1>1 DEF Profiles
  <1>3. Max(S) \in S /\ \A y \in S : y <= Max(S)
        BY <1>1, <1>2, MaxOfBounded
  <1>4. ActivePending = Max(S)
        BY DEF ActivePending
  <1> HIDE DEF S
  <1>5. \A p \in S \ {0} : p \in Profiles /\ profile[p].active /\ profile[p].status = "PENDING"
        BY DEF S
  <1>6. \A p \in Profiles : profile[p].active /\ profile[p].status = "PENDING" => p \in S
        BY DEF S
  <1>7. \A p \in Profiles : p > 0 /\ p \in Nat
        BY <1>1 DEF Profiles
  <1>8. ActivePending \in 0..N
        BY <1>2, <1>3, <1>4
  <1>9. ActivePending # 0 => /\ profile[ActivePending].active
                             /\ profile[ActivePending].status = "PENDING"
        BY <1>3, <1>4, <1>5
  <1>10. ASSUME ActivePending = 0, NEW p \in Profiles, profile[p].active,
                profile[p].status = "PENDING"
         PROVE  FALSE
        BY <1>10, <1>3, <1>4, <1>6, <1>7
  <1> QED
      BY <1>8, <1>9, <1>10

LEMMA NextVersionIsNext ==
  ASSUME TypeOK, InOrder
  PROVE  /\ NextVersion \in Nat
         /\ \A p \in Profiles : NextVersion > profile[p].version
         /\ \A p \in Profiles : ~Exists(p) => NextVersion <= p
  <1> DEFINE S == {0} \cup {profile[p].version : p \in Profiles}
  <1>1. N \in Nat
        BY ProfileGenerationAssumption DEF ProfileGenerationAssumption
  <1>2. \A p \in Profiles : profile[p].version \in Nat /\ profile[p].version <= p
        BY DEF TypeOK, Profile, InOrder
  <1>3. S \subseteq 0..N /\ S # {}
        BY <1>1, <1>2 DEF Profiles
  <1>4. Max(S) \in S /\ \A y \in S : y <= Max(S)
        BY <1>1, <1>3, MaxOfBounded
  <1>5. NextVersion = Max(S) + 1
        BY DEF NextVersion
  <1>6. \A p \in Profiles : profile[p].version \in S
        OBVIOUS
  <1>7. ASSUME NEW p \in Profiles, ~Exists(p) PROVE \A y \in S : y < p
        <2>1. \A q \in Profiles : profile[q].version < p
              BY <1>1, <1>2, <1>7 DEF InOrder, Profiles
        <2> QED
              BY <2>1, <1>1 DEF Profiles
  <1> HIDE DEF S
  <1>8. Max(S) \in Nat
        <2>1. \A y \in 0..N : y \in Nat
              BY <1>1
        <2> QED
              BY <2>1, <1>3, <1>4
  <1>9. \A p \in Profiles : p \in Nat
        BY <1>1 DEF Profiles
  <1>10. \A p \in Profiles : profile[p].version <= Max(S)
        BY <1>4, <1>6
  <1>11. \A p \in Profiles : ~Exists(p) => Max(S) < p
        BY <1>4, <1>7
  <1> QED
      BY <1>2, <1>5, <1>8, <1>9, <1>10, <1>11

-----------------------------------------------------------------------------
(* What the steps do, field by field                                       *)

LEMMA AtCalls == \A c \in Calls : At[c] \in Instances
  BY ProfileGenerationAssumption DEF ProfileGenerationAssumption

Tasks == [Instances -> [Profiles -> {"idle", "queued", "working", "deactivated"}]]

Requests == [pc : {"idle", "version", "insert", "restore"}, id : 0..N, version : Nat]

\* Nothing happens to the tasks but that an idle one of the profile p is queued.
Queues(p) ==
  /\ task' \in Tasks
  /\ \A j \in Instances, q \in Profiles :
       \/ task'[j][q] = task[j][q]
       \/ q = p /\ task[j][q] = "idle" /\ task'[j][q] = "queued"

Moves(i, p, pc) ==
  /\ task' \in Tasks
  /\ task'[i][p] = pc
  /\ \A j \in Instances, q \in Profiles : j # i \/ q # p => task'[j][q] = task[j][q]

Serves(c, request) ==
  /\ call' \in [Calls -> Requests]
  /\ call'[c] = request
  /\ \A d \in Calls : d # c => call'[d] = call[d]

\* The profile p is written, the others remain as they are.
Writes(p, status, active, version, lease) ==
  /\ profile' \in [Profiles -> Profile]
  /\ \A q \in Profiles :
       /\ profile'[q].status = IF q = p THEN status ELSE profile[q].status
       /\ profile'[q].active = IF q = p THEN active ELSE profile[q].active
       /\ profile'[q].version = IF q = p THEN version ELSE profile[q].version
       /\ profile'[q].lease = IF q = p THEN lease ELSE profile[q].lease

\* Only p may keep its flag, nothing else changes.
TakesFlag(p, active) ==
  /\ profile' \in [Profiles -> Profile]
  /\ \A q \in Profiles :
       /\ profile'[q].status = profile[q].status
       /\ profile'[q].active = (q = p /\ active)
       /\ profile'[q].version = profile[q].version
       /\ profile'[q].lease = profile[q].lease

\* A row, written as a whole.
Row(status, active, version, lease) ==
  [status |-> status, active |-> active, version |-> version, lease |-> lease]

LEMMA RowUpdates ==
  ASSUME NEW r \in Profile
  PROVE  /\ [r EXCEPT !.lease = "live"] = Row(r.status, r.active, r.version, "live")
         /\ [r EXCEPT !.lease = "expired"] = Row(r.status, r.active, r.version, "expired")
         /\ \A active \in BOOLEAN :
              [r EXCEPT !.active = active] = Row(r.status, active, r.version, r.lease)
         /\ \A status \in {"READY", "FAILED"} :
              [r EXCEPT !.status = status, !.lease = "none"]
                = Row(status, r.active, r.version, "none")
  <1>1. /\ [r EXCEPT !.lease = "live"] = Row(r.status, r.active, r.version, "live")
        /\ [r EXCEPT !.lease = "expired"] = Row(r.status, r.active, r.version, "expired")
        BY DEF Profile, Row
  <1>2. ASSUME NEW active \in BOOLEAN
        PROVE  [r EXCEPT !.active = active] = Row(r.status, active, r.version, r.lease)
        BY DEF Profile, Row
  <1>3. ASSUME NEW s \in Profile PROVE s = Row(s.status, s.active, s.version, s.lease)
        BY DEF Profile, Row
  <1>4. ASSUME NEW status \in {"READY", "FAILED"}
        PROVE  [r EXCEPT !.status = status, !.lease = "none"]
                 = Row(status, r.active, r.version, "none")
        <2> DEFINE s == [r EXCEPT !.status = status, !.lease = "none"]
        <2>1. /\ s \in Profile /\ s.status = status /\ s.lease = "none"
              /\ s.active = r.active /\ s.version = r.version
              BY DEF Profile
        <2> HIDE DEF s
        <2>2. s = Row(status, r.active, r.version, "none")
              BY <2>1, <1>3
        <2> QED
              BY <2>2 DEF s
  <1> QED
      BY <1>1, <1>2, <1>4

\* Writing one row, field by field.
LEMMA WriteEffect ==
  ASSUME TypeOK, NEW p \in Profiles, NEW status \in {"none", "PENDING", "READY", "FAILED"},
         NEW active \in BOOLEAN, NEW version \in Nat, NEW lease \in {"none", "live", "expired"},
         profile' = [profile EXCEPT ![p] = Row(status, active, version, lease)]
  PROVE  Writes(p, status, active, version, lease)
  <1>1. Row(status, active, version, lease) \in Profile
        BY DEF Row, Profile
  <1>2. profile' \in [Profiles -> Profile]
        BY <1>1 DEF TypeOK
  <1>3. /\ profile'[p] = Row(status, active, version, lease)
        /\ \A q \in Profiles : q # p => profile'[q] = profile[q]
        BY DEF TypeOK
  <1> QED
      BY <1>2, <1>3 DEF Writes, Row

LEMMA RowType ==
  ASSUME TypeOK, NEW p \in Profiles
  PROVE  /\ profile[p] \in Profile
         /\ profile[p].status \in {"none", "PENDING", "READY", "FAILED"}
         /\ profile[p].active \in BOOLEAN
         /\ profile[p].version \in Nat
         /\ profile[p].lease \in {"none", "live", "expired"}
  BY DEF TypeOK, Profile

LEMMA EnsureEffect ==
  ASSUME TypeOK, NEW i \in Instances, NEW p \in Profiles, Ensure(i, p)
  PROVE  Queues(p)
  BY DEF Ensure, Step, TypeOK, Queues, Tasks

LEMMA StepEffect ==
  ASSUME TypeOK, NEW i \in Instances, NEW p \in Profiles,
         NEW pc \in {"idle", "queued", "working", "deactivated"}, Step(i, p, pc)
  PROVE  Moves(i, p, pc)
  BY DEF Step, TypeOK, Moves, Tasks

LEMMA ServeEffect ==
  ASSUME TypeOK, NEW c \in Calls, NEW request \in Requests, Serve(c, request)
  PROVE  Serves(c, request)
  BY DEF Serve, TypeOK, Serves, Requests

LEMMA OthersInactiveEffect ==
  ASSUME TypeOK, NEW p \in Profiles
  PROVE  /\ profile' = OthersInactive(p) => TakesFlag(p, profile[p].active)
         /\ profile' = [OthersInactive(p) EXCEPT ![p].active = TRUE] => TakesFlag(p, TRUE)
  <1> DEFINE one(q) == [profile[q] EXCEPT !.active = @ /\ q = p]
  <1>1. \A q \in Profiles :
          /\ one(q) \in Profile
          /\ one(q).active = (profile[q].active /\ q = p)
          /\ one(q).status = profile[q].status
          /\ one(q).version = profile[q].version
          /\ one(q).lease = profile[q].lease
        <2> SUFFICES ASSUME NEW q \in Profiles
                     PROVE  /\ one(q) \in Profile
                            /\ one(q).active = (profile[q].active /\ q = p)
                            /\ one(q).status = profile[q].status
                            /\ one(q).version = profile[q].version
                            /\ one(q).lease = profile[q].lease
              OBVIOUS
        <2>1. one(q) = [profile[q] EXCEPT !.active = profile[q].active /\ q = p]
              OBVIOUS
        <2>2. (profile[q].active /\ q = p) \in BOOLEAN
              OBVIOUS
        <2>3. one(q) = Row(profile[q].status, profile[q].active /\ q = p,
                           profile[q].version, profile[q].lease)
              BY <2>1, <2>2, RowUpdates, RowType
        <2> QED
              BY <2>2, <2>3, RowType DEF Row, Profile
  <1>2. OthersInactive(p) = [q \in Profiles |-> one(q)]
        BY DEF OthersInactive
  <1> HIDE DEF one
  <1>3. ASSUME profile' = OthersInactive(p) PROVE TakesFlag(p, profile[p].active)
        BY <1>1, <1>2, <1>3 DEF TakesFlag, TypeOK, Profile
  <1>4. ASSUME profile' = [OthersInactive(p) EXCEPT ![p].active = TRUE]
        PROVE  TakesFlag(p, TRUE)
        <2>1. profile'[p] = [one(p) EXCEPT !.active = TRUE]
              BY <1>2, <1>4
        <2>2. \A q \in Profiles : q # p => profile'[q] = one(q)
              BY <1>2, <1>4
        <2>3. profile' = [q \in Profiles |-> profile'[q]]
              BY <1>2, <1>4
        <2>4. profile'[p] = Row(one(p).status, TRUE, one(p).version, one(p).lease)
              BY <2>1, <1>1, RowUpdates
        <2>5. \A q \in Profiles : profile'[q] \in Profile
              <3>1. profile'[p] \in Profile
                    BY <2>4, <1>1 DEF Row, Profile
              <3> QED
                    BY <3>1, <2>2, <1>1
        <2>6. /\ profile'[p].active
              /\ profile'[p].status = profile[p].status
              /\ profile'[p].version = profile[p].version
              /\ profile'[p].lease = profile[p].lease
              BY <2>4, <1>1 DEF Row
        <2> QED
              BY <2>2, <2>3, <2>5, <2>6, <1>1 DEF TakesFlag
  <1> QED
      BY <1>3, <1>4

LEMMA BeginCreateEffect ==
  ASSUME TypeOK, NEW c \in Calls, BeginCreate(c)
  PROVE  /\ UNCHANGED <<profile, crashed, overlap, raced, broken>>
         /\ call[c].pc = "idle"
         /\ \/ /\ UNCHANGED call
               /\ \E p \in Profiles : Exists(p) /\ Queues(p)
            \/ /\ Serves(c, [Idle EXCEPT !.pc = "version"])
               /\ UNCHANGED task
               /\ \A p \in Profiles : ~(profile[p].active /\ profile[p].status = "PENDING")
  <1>1. CASE ActivePending # 0
        <2>1. ActivePending \in Profiles /\ Exists(ActivePending)
              BY <1>1, ActivePendingIsLast, ProfileGenerationAssumption
              DEF Profiles, Exists, ProfileGenerationAssumption
        <2>2. Queues(ActivePending)
              BY <1>1, <2>1, EnsureEffect, AtCalls DEF BeginCreate
        <2> QED
              BY <1>1, <2>1, <2>2 DEF BeginCreate
  <1>2. CASE ActivePending = 0
        <2>1. [Idle EXCEPT !.pc = "version"] \in Requests
              BY ProfileGenerationAssumption DEF Idle, Requests, ProfileGenerationAssumption
        <2> QED
              BY <1>2, <2>1, ServeEffect, ActivePendingIsLast DEF BeginCreate
  <1> QED
      BY <1>1, <1>2

LEMMA IdleType ==
  /\ Idle \in Requests
  /\ Idle.pc = "idle"
  /\ \A version \in Nat : LET r == [Idle EXCEPT !.pc = "insert", !.version = version] IN
       r \in Requests /\ r.pc = "insert" /\ r.version = version
  /\ \A p \in Profiles : LET r == [Idle EXCEPT !.pc = "restore", !.id = p] IN
       r \in Requests /\ r.pc = "restore" /\ r.id = p
  <1>1. N \in Nat
        BY ProfileGenerationAssumption DEF ProfileGenerationAssumption
  <1>0. Idle \in Requests /\ Idle.id = 0 /\ Idle.version = 0
        BY <1>1 DEF Idle, Requests
  <1>2. ASSUME NEW version \in Nat
        PROVE  LET r == [Idle EXCEPT !.pc = "insert", !.version = version] IN
                 r \in Requests /\ r.pc = "insert" /\ r.version = version
        BY <1>0 DEF Requests
  <1>3. ASSUME NEW p \in Profiles
        PROVE  LET r == [Idle EXCEPT !.pc = "restore", !.id = p] IN
                 r \in Requests /\ r.pc = "restore" /\ r.id = p
        <2>1. p \in 0..N
              BY <1>1 DEF Profiles
        <2> QED
              BY <1>0, <2>1 DEF Requests
  <1>4. Idle \in Requests /\ Idle.pc = "idle"
        BY <1>1 DEF Idle, Requests
  <1> QED
      BY <1>2, <1>3, <1>4

LEMMA GetNextVersionEffect ==
  ASSUME TypeOK, InOrder, NEW c \in Calls, GetNextVersion(c)
  PROVE  /\ UNCHANGED <<profile, task, crashed, overlap, raced, broken>>
         /\ call[c].pc = "version"
         /\ \E r \in Requests : /\ r.pc = "insert" /\ r.version = NextVersion
                                /\ Serves(c, r)
  BY NextVersionIsNext, ServeEffect, IdleType DEF GetNextVersion

LEMMA InsertEffect ==
  ASSUME TypeOK, NEW c \in Calls, Insert(c)
  PROVE  /\ UNCHANGED <<crashed, overlap, broken>>
         /\ call[c].pc = "insert"
         /\ raced' = (raced \/ \E d \in Calls \ {c} : Creating(d))
         /\ Serves(c, Idle)
         /\ \E p \in Profiles : /\ ~Exists(p)
                                /\ \A q \in Profiles : q < p => Exists(q)
                                /\ Writes(p, "PENDING", TRUE, call[c].version, "none")
                                /\ Queues(p)
  <1>1. PICK p \in Profiles :
          /\ ~Exists(p)
          /\ \A q \in Profiles : q < p => Exists(q)
          /\ profile' = [profile EXCEPT ![p] = Row("PENDING", TRUE, call[c].version, "none")]
          /\ Ensure(At[c], p)
        BY DEF Insert, Row
  <1>2. call[c].version \in Nat
        BY DEF TypeOK
  <1>3. Writes(p, "PENDING", TRUE, call[c].version, "none")
        BY <1>1, <1>2, WriteEffect
  <1>4. Queues(p)
        BY <1>1, EnsureEffect, AtCalls
  <1> QED
      BY <1>1, <1>3, <1>4, ServeEffect, IdleType DEF Insert

LEMMA RestoreEffect ==
  ASSUME TypeOK, RestoresSettled, NEW c \in Calls, Restore(c)
  PROVE  /\ UNCHANGED <<task, crashed, overlap, raced>>
         /\ call[c].pc = "restore"
         /\ call[c].id \in Profiles
         /\ TakesFlag(call[c].id, TRUE)
         /\ broken' = (profile[call[c].id].status # "READY")
         /\ Serves(c, Idle)
  <1>1. call[c].id \in Profiles
        BY DEF Restore, RestoresSettled
  <1> QED
      BY <1>1, ServeEffect, IdleType, OthersInactiveEffect DEF Restore

LEMMA BeginRestoreEffect ==
  ASSUME TypeOK, NEW c \in Calls, NEW p \in Profiles, BeginRestore(c, p)
  PROVE  /\ UNCHANGED <<profile, task, crashed, overlap, raced, broken>>
         /\ call[c].pc = "idle"
         /\ profile[p].status = "READY"
         /\ \E r \in Requests : r.pc = "restore" /\ r.id = p /\ Serves(c, r)
  BY ServeEffect, IdleType DEF BeginRestore

LEMMA ReadEffect ==
  ASSUME TypeOK, NEW i \in Instances, NEW p \in Profiles, Read(i, p)
  PROVE  /\ UNCHANGED <<profile, call, crashed, overlap, raced, broken>>
         /\ Exists(p)
         /\ Queues(p)
  BY EnsureEffect DEF Read, Exists

LEMMA ClaimEffect ==
  ASSUME TypeOK, NEW i \in Instances, NEW p \in Profiles, Claim(i, p)
  PROVE  /\ UNCHANGED <<call, crashed, overlap, raced, broken>>
         /\ task[i][p] = "queued"
         /\ \/ /\ profile[p].status = "PENDING" /\ profile[p].lease # "live"
               /\ Writes(p, "PENDING", profile[p].active, profile[p].version, "live")
               /\ Moves(i, p, "working")
            \/ UNCHANGED profile /\ Moves(i, p, "idle")
  <1>1. [profile[p] EXCEPT !.lease = "live"]
          = Row(profile[p].status, profile[p].active, profile[p].version, "live")
        BY RowUpdates, RowType
  <1>2. CASE profile[p].status = "PENDING" /\ profile[p].lease # "live"
        <2>1. profile' = [profile EXCEPT ![p] =
                            Row("PENDING", profile[p].active, profile[p].version, "live")]
              BY <1>1, <1>2 DEF Claim
        <2>2. Writes(p, "PENDING", profile[p].active, profile[p].version, "live")
              BY <2>1, RowType, WriteEffect
        <2> QED
              BY <1>2, <2>2, StepEffect DEF Claim
  <1>3. CASE ~(profile[p].status = "PENDING" /\ profile[p].lease # "live")
        BY <1>3, StepEffect DEF Claim
  <1> QED
      BY <1>2, <1>3

LEMMA DeactivateEffect ==
  ASSUME TypeOK, NEW i \in Instances, NEW p \in Profiles, Deactivate(i, p)
  PROVE  /\ UNCHANGED <<call, crashed, overlap, raced>>
         /\ task[i][p] = "working"
         /\ TakesFlag(p, profile[p].active)
         /\ broken' = (broken \/ ~profile[p].active)
         /\ Moves(i, p, "deactivated")
  BY StepEffect, OthersInactiveEffect DEF Deactivate

\* The end of a task, with either outcome.
LEMMA SettleEffect ==
  ASSUME TypeOK, NEW i \in Instances, NEW p \in Profiles,
         WriteReady(i, p) \/ MarkFailed(i, p)
  PROVE  /\ UNCHANGED <<call, crashed, overlap, raced>>
         /\ task[i][p] \in {"working", "deactivated"}
         /\ Moves(i, p, "idle")
         /\ \E outcome \in {"READY", "FAILED"} :
              /\ Writes(p, outcome, profile[p].active, profile[p].version, "none")
              /\ outcome = "READY" => /\ task[i][p] = "deactivated"
                                      /\ broken' = (broken /\ ~profile[p].active)
              /\ outcome = "FAILED" =>
                   broken' = (broken \/ task[i][p] = "deactivated" \/ p \in Usable)
  <1>1. \A outcome \in {"READY", "FAILED"} :
          [profile EXCEPT ![p].status = outcome, ![p].lease = "none"]
            = [profile EXCEPT ![p] = Row(outcome, profile[p].active, profile[p].version, "none")]
        BY RowUpdates, RowType DEF TypeOK
  <1>2. CASE WriteReady(i, p)
        <2>1. Writes(p, "READY", profile[p].active, profile[p].version, "none")
              BY <1>1, <1>2, RowType, WriteEffect DEF WriteReady
        <2> QED
              BY <1>2, <2>1, StepEffect DEF WriteReady
  <1>3. CASE MarkFailed(i, p)
        <2>1. Writes(p, "FAILED", profile[p].active, profile[p].version, "none")
              BY <1>1, <1>3, RowType, WriteEffect DEF MarkFailed
        <2> QED
              BY <1>3, <2>1, StepEffect DEF MarkFailed, Busy
  <1> QED
      BY <1>2, <1>3

LEMMA LeaseExpiresEffect ==
  ASSUME TypeOK, NEW p \in Profiles, LeaseExpires(p)
  PROVE  /\ UNCHANGED <<task, call, crashed, raced, broken>>
         /\ profile[p].lease = "live"
         /\ Writes(p, profile[p].status, profile[p].active, profile[p].version, "expired")
         /\ overlap' = IF Busy(p) # {} THEN overlap \cup {p} ELSE overlap
  <1>1. [profile[p] EXCEPT !.lease = "expired"]
          = Row(profile[p].status, profile[p].active, profile[p].version, "expired")
        BY RowUpdates, RowType
  <1>2. profile' = [profile EXCEPT ![p] =
                      Row(profile[p].status, profile[p].active, profile[p].version, "expired")]
        BY <1>1 DEF LeaseExpires
  <1>3. Writes(p, profile[p].status, profile[p].active, profile[p].version, "expired")
        BY <1>2, RowType, WriteEffect
  <1> QED
      BY <1>3 DEF LeaseExpires

LEMMA RestartEffect ==
  ASSUME TypeOK, NEW i \in Instances, Restart(i)
  PROVE  /\ UNCHANGED <<profile, overlap, raced>>
         /\ crashed' \subseteq MayCrash
         /\ task' \in Tasks
         /\ \A j \in Instances, q \in Profiles :
              task'[j][q] = IF j = i THEN "idle" ELSE task[j][q]
         /\ call' \in [Calls -> Requests]
         /\ \A c \in Calls : call'[c] = Idle \/ call'[c] = call[c]
         /\ broken' = (broken \/ \E p \in Profiles : task[i][p] = "deactivated")
  BY IdleType DEF Restart, TypeOK, Tasks, Requests

-----------------------------------------------------------------------------
(* Each conjunct is kept by every step                                     *)

LEMMA TypeStep ==
  ASSUME TypeOK, InOrder, RestoresSettled, [Next]_vars
  PROVE  TypeOK'
  <1>1. ASSUME NEW c \in Calls, BeginCreate(c)
        PROVE  TypeOK'
        BY <1>1, BeginCreateEffect, RowType DEF TypeOK, Serves, Queues, Tasks, Requests
  <1>2. ASSUME NEW c \in Calls, GetNextVersion(c)
        PROVE  TypeOK'
        BY <1>2, GetNextVersionEffect, RowType DEF TypeOK, Serves, Tasks, Requests
  <1>3. ASSUME NEW c \in Calls, Insert(c)
        PROVE  TypeOK'
        BY <1>3, InsertEffect, RowType DEF TypeOK, Writes, Serves, Queues, Tasks, Requests
  <1>4. ASSUME NEW c \in Calls, Restore(c)
        PROVE  TypeOK'
        BY <1>4, RestoreEffect, RowType DEF TypeOK, TakesFlag, Serves, Tasks, Requests
  <1>5. ASSUME NEW c \in Calls, NEW p \in Profiles, BeginRestore(c, p)
        PROVE  TypeOK'
        BY <1>5, BeginRestoreEffect, RowType DEF TypeOK, Serves, Tasks, Requests
  <1>6. ASSUME NEW i \in Instances, NEW p \in Profiles, Claim(i, p)
        PROVE  TypeOK'
        BY <1>6, ClaimEffect, RowType DEF TypeOK, Writes, Moves, Tasks, Requests
  <1>7. ASSUME NEW i \in Instances, NEW p \in Profiles, Deactivate(i, p)
        PROVE  TypeOK'
        <2>1. /\ profile' \in [Profiles -> Profile]
              /\ task' \in Tasks
              /\ UNCHANGED <<call, crashed, overlap, raced>>
              BY <1>7, DeactivateEffect DEF TakesFlag, Moves
        <2>2. broken' \in BOOLEAN
              <3>1. broken' = (broken \/ ~profile[p].active)
                    BY <1>7, DeactivateEffect
              <3> QED
                    BY <3>1, Zenon
        <2> QED
              BY <2>1, <2>2 DEF TypeOK, Tasks
  <1>8. ASSUME NEW i \in Instances, NEW p \in Profiles, WriteReady(i, p) \/ MarkFailed(i, p)
        PROVE  TypeOK'
        <2>1. /\ profile' \in [Profiles -> Profile]
              /\ task' \in Tasks
              /\ broken' \in BOOLEAN
              /\ UNCHANGED <<call, crashed, overlap, raced>>
              <3>1. broken \in BOOLEAN
                    BY DEF TypeOK
              <3>2. profile[p].active \in BOOLEAN
                    BY RowType
              <3>3. broken' \in BOOLEAN
                    BY <1>8, <3>1, <3>2, SettleEffect, Zenon
              <3> QED
                    BY <1>8, <3>3, SettleEffect DEF Writes, Moves
        <2> QED
              BY <2>1 DEF TypeOK, Tasks
  <1>9. ASSUME NEW i \in Instances, NEW p \in Profiles, Read(i, p)
        PROVE  TypeOK'
        BY <1>9, ReadEffect, RowType DEF TypeOK, Queues, Tasks, Requests
  <1>10. ASSUME NEW i \in Instances, Restart(i)
        PROVE  TypeOK'
        BY <1>10, RestartEffect, RowType DEF TypeOK, Tasks, Requests
  <1>11. ASSUME NEW p \in Profiles, LeaseExpires(p)
        PROVE  TypeOK'
        BY <1>11, LeaseExpiresEffect, RowType DEF TypeOK, Writes, Tasks, Requests
  <1>12. CASE UNCHANGED vars
         BY <1>12 DEF vars, TypeOK
  <1> QED
      BY <1>1, <1>2, <1>3, <1>4, <1>5, <1>6, <1>7, <1>8, <1>9, <1>10, <1>11, <1>12
      DEF Next, Work, Handle

LEMMA OrderStep ==
  ASSUME TypeOK, InOrder, RestoresSettled, [Next]_vars
  PROVE  InOrder'
  <1>1. ASSUME NEW c \in Calls, BeginCreate(c)
        PROVE  InOrder'
        BY <1>1, BeginCreateEffect, RowType DEF InOrder, Exists, Idle, Serves, Queues
  <1>2. ASSUME NEW c \in Calls, GetNextVersion(c)
        PROVE  InOrder'
        BY <1>2, GetNextVersionEffect, NextVersionIsNext, RowType
        DEF InOrder, Exists, Idle, Serves
  <1>3. ASSUME NEW c \in Calls, Insert(c)
        PROVE  InOrder'
        <2>1. PICK p \in Profiles :
                /\ ~Exists(p) /\ (\A q \in Profiles : q < p => Exists(q))
                /\ Writes(p, "PENDING", TRUE, call[c].version, "none") /\ Queues(p)
                /\ Serves(c, Idle) /\ UNCHANGED overlap /\ call[c].pc = "insert"
              BY <1>3, InsertEffect
        <2>2. \A q \in Profiles : Exists(q)' <=> q = p \/ Exists(q)
              BY <2>1 DEF Exists, Writes
        <2>3. \A q, r \in Profiles : Exists(q)' /\ r < q => Exists(r)'
              BY <2>1, <2>2 DEF InOrder
        <2>4. \A q \in Profiles : profile'[q].version <= q
              BY <2>1 DEF InOrder, Writes
        <2>5. \A d \in Calls, q \in Profiles :
                call'[d].pc = "insert" /\ ~Exists(q)' => call'[d].version <= q
              <3> SUFFICES ASSUME NEW d \in Calls, NEW q \in Profiles,
                                  call'[d].pc = "insert", ~Exists(q)'
                           PROVE  call'[d].version <= q
                    OBVIOUS
              <3>1. call'[d] = call[d]
                    BY <2>1, IdleType DEF Serves
              <3>2. ~Exists(q)
                    BY <2>2
              <3> QED
                    BY <3>1, <3>2 DEF InOrder
        <2>6. \A q \in Profiles : ~Exists(q)' =>
                /\ ~profile'[q].active /\ profile'[q].version = 0 /\ profile'[q].lease = "none"
                /\ q \notin overlap'
                /\ \A i \in Instances : task'[i][q] = "idle"
              <3> SUFFICES ASSUME NEW q \in Profiles, ~Exists(q)'
                           PROVE  /\ ~profile'[q].active /\ profile'[q].version = 0
                                  /\ profile'[q].lease = "none" /\ q \notin overlap'
                                  /\ \A i \in Instances : task'[i][q] = "idle"
                    OBVIOUS
              <3>1. ~Exists(q) /\ q # p
                    BY <2>2
              <3>2. \A i \in Instances : task'[i][q] = task[i][q]
                    BY <2>1, <3>1 DEF Queues
              <3> QED
                    BY <2>1, <3>1, <3>2 DEF InOrder, Writes
        <2> QED
              BY <2>3, <2>4, <2>5, <2>6 DEF InOrder
  <1>4. ASSUME NEW c \in Calls, Restore(c)
        PROVE  InOrder'
        <2>1. PICK r \in Profiles :
                /\ profile[r].status # "none" /\ TakesFlag(r, TRUE)
                /\ UNCHANGED <<task, overlap>> /\ Serves(c, Idle)
              BY <1>4, RestoreEffect DEF RestoresSettled
        <2>2. \A q \in Profiles : Exists(q)' = Exists(q)
              BY <2>1 DEF Exists, TakesFlag
        <2>3. \A d \in Calls : call'[d].pc = "insert" => call'[d] = call[d]
              BY <2>1, IdleType DEF Serves
        <2>4. \A q \in Profiles : profile'[q].active => profile[q].active \/ Exists(q)
              BY <2>1 DEF Exists, TakesFlag
        <2> QED
              BY <2>1, <2>2, <2>3, <2>4 DEF InOrder, TakesFlag
  <1>5. ASSUME NEW c \in Calls, NEW p \in Profiles, BeginRestore(c, p)
        PROVE  InOrder'
        BY <1>5, BeginRestoreEffect, RowType DEF InOrder, Exists, Idle, Serves
  <1>6. ASSUME NEW i \in Instances, NEW p \in Profiles, Claim(i, p)
        PROVE  InOrder'
        BY <1>6, ClaimEffect, RowType DEF InOrder, Exists, Idle, Writes, Moves
  <1>7. ASSUME NEW i \in Instances, NEW p \in Profiles, Deactivate(i, p)
        PROVE  InOrder'
        BY <1>7, DeactivateEffect, RowType DEF InOrder, Exists, Idle, TakesFlag, Moves
  <1>8. ASSUME NEW i \in Instances, NEW p \in Profiles, WriteReady(i, p) \/ MarkFailed(i, p)
        PROVE  InOrder'
        <2>1. Exists(p)
              BY <1>8, SettleEffect DEF InOrder
        <2> QED
              BY <1>8, <2>1, SettleEffect, RowType DEF InOrder, Exists, Writes, Moves
  <1>9. ASSUME NEW i \in Instances, NEW p \in Profiles, Read(i, p)
        PROVE  InOrder'
        BY <1>9, ReadEffect, RowType DEF InOrder, Exists, Idle, Queues
  <1>10. ASSUME NEW i \in Instances, Restart(i)
        PROVE  InOrder'
        <2>1. /\ UNCHANGED <<profile, overlap>>
              /\ \A d \in Calls : call'[d].pc = "insert" => call'[d] = call[d]
              /\ \A j \in Instances, q \in Profiles : task[j][q] = "idle" => task'[j][q] = "idle"
              <3>1. \A d \in Calls : call'[d] = Idle \/ call'[d] = call[d]
                    BY <1>10, RestartEffect
              <3> QED
                    <4>1. \A d \in Calls : call'[d].pc = "insert" => call'[d] = call[d]
                          BY <3>1, IdleType
                    <4>2. /\ UNCHANGED <<profile, overlap>>
                          /\ \A j \in Instances, q \in Profiles :
                               task'[j][q] = IF j = i THEN "idle" ELSE task[j][q]
                          BY <1>10, RestartEffect
                    <4> QED
                          BY <4>1, <4>2
        <2> QED
              BY <2>1 DEF InOrder, Exists
  <1>11. ASSUME NEW p \in Profiles, LeaseExpires(p)
        PROVE  InOrder'
        BY <1>11, LeaseExpiresEffect, RowType DEF InOrder, Exists, Idle, Writes
  <1>12. CASE UNCHANGED vars
         BY <1>12 DEF vars, InOrder, Exists, Idle
  <1> QED
      BY <1>1, <1>2, <1>3, <1>4, <1>5, <1>6, <1>7, <1>8, <1>9, <1>10, <1>11, <1>12
      DEF Next, Work, Handle

LEMMA RestoreStep ==
  ASSUME TypeOK, InOrder, RestoresSettled, [Next]_vars
  PROVE  RestoresSettled'
  <1>1. ASSUME NEW c \in Calls, BeginCreate(c)
        PROVE  RestoresSettled'
        BY <1>1, BeginCreateEffect, RowType
        DEF RestoresSettled, Exists, Idle, Serves, Queues
  <1>2. ASSUME NEW c \in Calls, GetNextVersion(c)
        PROVE  RestoresSettled'
        BY <1>2, GetNextVersionEffect, RowType DEF RestoresSettled, Exists, Idle, Serves
  <1>3. ASSUME NEW c \in Calls, Insert(c)
        PROVE  RestoresSettled'
        <2>1. PICK p \in Profiles :
                ~Exists(p) /\ Writes(p, "PENDING", TRUE, call[c].version, "none")
              BY <1>3, InsertEffect
        <2>2. ASSUME NEW d \in Calls, call'[d].pc = "restore"
              PROVE  /\ call'[d].id \in Profiles
                     /\ profile'[call'[d].id].status \in {"READY", "FAILED"}
              <3>1. d # c /\ call'[d] = call[d]
                    BY <1>3, <2>2, InsertEffect, IdleType DEF Serves
              <3>2. call[d].id \in Profiles /\ profile[call[d].id].status \in {"READY", "FAILED"}
                    BY <2>2, <3>1 DEF RestoresSettled
              <3> QED
                    BY <2>1, <3>1, <3>2 DEF Writes, Exists
        <2> QED
              BY <2>2 DEF RestoresSettled
  <1>4. ASSUME NEW c \in Calls, Restore(c)
        PROVE  RestoresSettled'
        BY <1>4, RestoreEffect, RowType DEF RestoresSettled, Exists, Idle, TakesFlag, Serves
  <1>5. ASSUME NEW c \in Calls, NEW p \in Profiles, BeginRestore(c, p)
        PROVE  RestoresSettled'
        BY <1>5, BeginRestoreEffect, RowType DEF RestoresSettled, Exists, Idle, Serves
  <1>6. ASSUME NEW i \in Instances, NEW p \in Profiles, Claim(i, p)
        PROVE  RestoresSettled'
        BY <1>6, ClaimEffect, RowType DEF RestoresSettled, Exists, Idle, Writes, Moves
  <1>7. ASSUME NEW i \in Instances, NEW p \in Profiles, Deactivate(i, p)
        PROVE  RestoresSettled'
        BY <1>7, DeactivateEffect, RowType
        DEF RestoresSettled, Exists, Idle, TakesFlag, Moves
  <1>8. ASSUME NEW i \in Instances, NEW p \in Profiles, WriteReady(i, p) \/ MarkFailed(i, p)
        PROVE  RestoresSettled'
        BY <1>8, SettleEffect, RowType DEF RestoresSettled, Exists, Idle, Writes, Moves
  <1>9. ASSUME NEW i \in Instances, NEW p \in Profiles, Read(i, p)
        PROVE  RestoresSettled'
        BY <1>9, ReadEffect, RowType DEF RestoresSettled, Exists, Idle, Queues
  <1>10. ASSUME NEW i \in Instances, Restart(i)
        PROVE  RestoresSettled'
        BY <1>10, RestartEffect, RowType DEF RestoresSettled, Exists, Idle
  <1>11. ASSUME NEW p \in Profiles, LeaseExpires(p)
        PROVE  RestoresSettled'
        BY <1>11, LeaseExpiresEffect, RowType DEF RestoresSettled, Exists, Idle, Writes
  <1>12. CASE UNCHANGED vars
         BY <1>12 DEF vars, RestoresSettled, Exists, Idle
  <1> QED
      BY <1>1, <1>2, <1>3, <1>4, <1>5, <1>6, <1>7, <1>8, <1>9, <1>10, <1>11, <1>12
      DEF Next, Work, Handle

LEMMA LeaseStep ==
  ASSUME TypeOK, InOrder, RestoresSettled, LeaseExcludes, [Next]_vars
  PROVE  LeaseExcludes'
  <1>1. ASSUME NEW c \in Calls, BeginCreate(c)
        PROVE  LeaseExcludes'
        BY <1>1, BeginCreateEffect, RowType
        DEF LeaseExcludes, Busy, InOrder, Exists, Serves, Queues
  <1>2. ASSUME NEW c \in Calls, GetNextVersion(c)
        PROVE  LeaseExcludes'
        BY <1>2, GetNextVersionEffect, RowType
        DEF LeaseExcludes, Busy, InOrder, Exists, Serves
  <1>3. ASSUME NEW c \in Calls, Insert(c)
        PROVE  LeaseExcludes'
        <2>1. PICK p \in Profiles :
                /\ ~Exists(p) /\ Writes(p, "PENDING", TRUE, call[c].version, "none") /\ Queues(p)
                /\ UNCHANGED overlap
              BY <1>3, InsertEffect
        <2>2. \A q \in Profiles : Busy(q)' = Busy(q)
              BY <2>1 DEF Queues, Busy
        <2>3. Busy(p) = {}
              BY <2>1 DEF Busy, InOrder
        <2>4. ASSUME NEW q \in Profiles \ overlap'
              PROVE  /\ \A i, j \in Busy(q)' : i = j
                     /\ Busy(q)' # {} => profile'[q].status = "PENDING" /\ profile'[q].lease = "live"
              <3>1. CASE q = p
                    BY <2>2, <2>3, <3>1
              <3>2. CASE q # p
                    <4>1. /\ profile'[q].status = profile[q].status
                          /\ profile'[q].lease = profile[q].lease
                          /\ q \notin overlap
                          BY <2>1, <2>4, <3>2 DEF Writes
                    <4> QED
                          BY <2>2, <4>1 DEF LeaseExcludes
              <3> QED
                    BY <3>1, <3>2
        <2> QED
              BY <2>4 DEF LeaseExcludes
  <1>4. ASSUME NEW c \in Calls, Restore(c)
        PROVE  LeaseExcludes'
        BY <1>4, RestoreEffect, RowType
        DEF LeaseExcludes, Busy, InOrder, Exists, TakesFlag, Serves
  <1>5. ASSUME NEW c \in Calls, NEW p \in Profiles, BeginRestore(c, p)
        PROVE  LeaseExcludes'
        BY <1>5, BeginRestoreEffect, RowType
        DEF LeaseExcludes, Busy, InOrder, Exists, Serves
  <1>6. ASSUME NEW i \in Instances, NEW p \in Profiles, Claim(i, p)
        PROVE  LeaseExcludes'
        BY <1>6, ClaimEffect, RowType
        DEF LeaseExcludes, Busy, InOrder, Exists, Writes, Moves
  <1>7. ASSUME NEW i \in Instances, NEW p \in Profiles, Deactivate(i, p)
        PROVE  LeaseExcludes'
        BY <1>7, DeactivateEffect, RowType
        DEF LeaseExcludes, Busy, InOrder, Exists, TakesFlag, Moves
  <1>8. ASSUME NEW i \in Instances, NEW p \in Profiles, WriteReady(i, p) \/ MarkFailed(i, p)
        PROVE  LeaseExcludes'
        BY <1>8, SettleEffect, RowType
        DEF LeaseExcludes, Busy, InOrder, Exists, Writes, Moves
  <1>9. ASSUME NEW i \in Instances, NEW p \in Profiles, Read(i, p)
        PROVE  LeaseExcludes'
        BY <1>9, ReadEffect, RowType DEF LeaseExcludes, Busy, InOrder, Exists, Queues
  <1>10. ASSUME NEW i \in Instances, Restart(i)
        PROVE  LeaseExcludes'
        BY <1>10, RestartEffect, RowType DEF LeaseExcludes, Busy, InOrder, Exists
  <1>11. ASSUME NEW p \in Profiles, LeaseExpires(p)
        PROVE  LeaseExcludes'
        BY <1>11, LeaseExpiresEffect, RowType
        DEF LeaseExcludes, Busy, InOrder, Exists, Writes
  <1>12. CASE UNCHANGED vars
         BY <1>12 DEF vars, LeaseExcludes, Busy, InOrder, Exists
  <1> QED
      BY <1>1, <1>2, <1>3, <1>4, <1>5, <1>6, <1>7, <1>8, <1>9, <1>10, <1>11, <1>12
      DEF Next, Work, Handle

LEMMA UsableStep ==
  ASSUME TypeOK, InOrder, RestoresSettled, OneUsable, TakerIsAlone, [Next]_vars
  PROVE  OneUsable'
  <1>1. ASSUME NEW c \in Calls, BeginCreate(c)
        PROVE  OneUsable'
        BY <1>1, BeginCreateEffect, RowType
        DEF OneUsable, Usable, TakerIsAlone, Serves, Queues
  <1>2. ASSUME NEW c \in Calls, GetNextVersion(c)
        PROVE  OneUsable'
        BY <1>2, GetNextVersionEffect, RowType DEF OneUsable, Usable, TakerIsAlone, Serves
  <1>3. ASSUME NEW c \in Calls, Insert(c)
        PROVE  OneUsable'
        <2>1. PICK p \in Profiles :
                ~Exists(p) /\ Writes(p, "PENDING", TRUE, call[c].version, "none")
              BY <1>3, InsertEffect
        <2>2. Usable' \subseteq Usable
              BY <2>1 DEF Usable, Writes
        <2> QED
              BY <2>2 DEF OneUsable
  <1>4. ASSUME NEW c \in Calls, Restore(c)
        PROVE  OneUsable'
        BY <1>4, RestoreEffect, RowType
        DEF OneUsable, Usable, TakerIsAlone, TakesFlag, Serves
  <1>5. ASSUME NEW c \in Calls, NEW p \in Profiles, BeginRestore(c, p)
        PROVE  OneUsable'
        BY <1>5, BeginRestoreEffect, RowType DEF OneUsable, Usable, TakerIsAlone, Serves
  <1>6. ASSUME NEW i \in Instances, NEW p \in Profiles, Claim(i, p)
        PROVE  OneUsable'
        BY <1>6, ClaimEffect, RowType DEF OneUsable, Usable, TakerIsAlone, Writes, Moves
  <1>7. ASSUME NEW i \in Instances, NEW p \in Profiles, Deactivate(i, p)
        PROVE  OneUsable'
        BY <1>7, DeactivateEffect, RowType
        DEF OneUsable, Usable, TakerIsAlone, TakesFlag, Moves
  <1>8. ASSUME NEW i \in Instances, NEW p \in Profiles, WriteReady(i, p) \/ MarkFailed(i, p)
        PROVE  OneUsable'
        BY <1>8, SettleEffect, RowType DEF OneUsable, Usable, TakerIsAlone, Writes, Moves
  <1>9. ASSUME NEW i \in Instances, NEW p \in Profiles, Read(i, p)
        PROVE  OneUsable'
        BY <1>9, ReadEffect, RowType DEF OneUsable, Usable, TakerIsAlone, Queues
  <1>10. ASSUME NEW i \in Instances, Restart(i)
        PROVE  OneUsable'
        BY <1>10, RestartEffect, RowType DEF OneUsable, Usable, TakerIsAlone
  <1>11. ASSUME NEW p \in Profiles, LeaseExpires(p)
        PROVE  OneUsable'
        BY <1>11, LeaseExpiresEffect, RowType DEF OneUsable, Usable, TakerIsAlone, Writes
  <1>12. CASE UNCHANGED vars
         BY <1>12 DEF vars, OneUsable, Usable, TakerIsAlone
  <1> QED
      BY <1>1, <1>2, <1>3, <1>4, <1>5, <1>6, <1>7, <1>8, <1>9, <1>10, <1>11, <1>12
      DEF Next, Work, Handle

LEMMA TakerStep ==
  ASSUME TypeOK, InOrder, RestoresSettled, TakerIsAlone, [Next]_vars
  PROVE  TakerIsAlone'
  <1>1. ASSUME NEW c \in Calls, BeginCreate(c)
        PROVE  TakerIsAlone'
        <2>1. \A i \in Instances, p \in Profiles :
                task'[i][p] = "deactivated" => task[i][p] = "deactivated"
              BY <1>1, BeginCreateEffect DEF Queues
        <2> QED
              BY <1>1, <2>1, BeginCreateEffect DEF TakerIsAlone, Usable
  <1>2. ASSUME NEW c \in Calls, GetNextVersion(c)
        PROVE  TakerIsAlone'
        BY <1>2, GetNextVersionEffect, RowType
        DEF TakerIsAlone, Usable, InOrder, Exists, Serves
  <1>3. ASSUME NEW c \in Calls, Insert(c)
        PROVE  TakerIsAlone'
        <2>1. PICK p \in Profiles :
                /\ ~Exists(p) /\ Writes(p, "PENDING", TRUE, call[c].version, "none") /\ Queues(p)
              BY <1>3, InsertEffect
        <2>2. \A i \in Instances, q \in Profiles :
                task'[i][q] = "deactivated" => task[i][q] = "deactivated" /\ q # p
              BY <2>1 DEF Queues, InOrder
        <2> QED
              BY <2>1, <2>2 DEF TakerIsAlone, Usable, Writes
  <1>4. ASSUME NEW c \in Calls, Restore(c)
        PROVE  TakerIsAlone'
        BY <1>4, RestoreEffect, RowType
        DEF TakerIsAlone, Usable, InOrder, Exists, TakesFlag, Serves
  <1>5. ASSUME NEW c \in Calls, NEW p \in Profiles, BeginRestore(c, p)
        PROVE  TakerIsAlone'
        BY <1>5, BeginRestoreEffect, RowType
        DEF TakerIsAlone, Usable, InOrder, Exists, Serves
  <1>6. ASSUME NEW i \in Instances, NEW p \in Profiles, Claim(i, p)
        PROVE  TakerIsAlone'
        BY <1>6, ClaimEffect, RowType
        DEF TakerIsAlone, Usable, InOrder, Exists, Writes, Moves
  <1>7. ASSUME NEW i \in Instances, NEW p \in Profiles, Deactivate(i, p)
        PROVE  TakerIsAlone'
        <2>1. /\ TakesFlag(p, profile[p].active)
              /\ Moves(i, p, "deactivated")
              BY <1>7, DeactivateEffect
        <2>2. \A q \in Profiles \ {p} : ~profile'[q].active
              BY <2>1 DEF TakesFlag
        <2> QED
              BY <2>2 DEF TakerIsAlone, Usable
  <1>8. ASSUME NEW i \in Instances, NEW p \in Profiles, WriteReady(i, p) \/ MarkFailed(i, p)
        PROVE  TakerIsAlone'
        BY <1>8, SettleEffect, RowType
        DEF TakerIsAlone, Usable, InOrder, Exists, Writes, Moves
  <1>9. ASSUME NEW i \in Instances, NEW p \in Profiles, Read(i, p)
        PROVE  TakerIsAlone'
        BY <1>9, ReadEffect, RowType DEF TakerIsAlone, Usable, InOrder, Exists, Queues
  <1>10. ASSUME NEW i \in Instances, Restart(i)
        PROVE  TakerIsAlone'
        BY <1>10, RestartEffect DEF TakerIsAlone, Usable
  <1>11. ASSUME NEW p \in Profiles, LeaseExpires(p)
        PROVE  TakerIsAlone'
        BY <1>11, LeaseExpiresEffect, RowType
        DEF TakerIsAlone, Usable, InOrder, Exists, Writes
  <1>12. CASE UNCHANGED vars
         BY <1>12 DEF vars, TakerIsAlone, Usable, InOrder, Exists
  <1> QED
      BY <1>1, <1>2, <1>3, <1>4, <1>5, <1>6, <1>7, <1>8, <1>9, <1>10, <1>11, <1>12
      DEF Next, Work, Handle

LEMMA FlagStep ==
  ASSUME TypeOK, InOrder, RestoresSettled, FlagIsKept, [Next]_vars
  PROVE  FlagIsKept'
  <1>1. ASSUME NEW c \in Calls, BeginCreate(c)
        PROVE  FlagIsKept'
        BY <1>1, BeginCreateEffect, RowType DEF FlagIsKept, Usable, Exists, Serves, Queues
  <1>2. ASSUME NEW c \in Calls, GetNextVersion(c)
        PROVE  FlagIsKept'
        BY <1>2, GetNextVersionEffect, RowType DEF FlagIsKept, Usable, Exists, Serves
  <1>3. ASSUME NEW c \in Calls, Insert(c)
        PROVE  FlagIsKept'
        <2>1. PICK p \in Profiles :
                /\ ~Exists(p) /\ Writes(p, "PENDING", TRUE, call[c].version, "none") /\ Queues(p)
                /\ UNCHANGED broken
              BY <1>3, InsertEffect
        <2>2. \A i \in Instances, q \in Profiles :
                (task'[i][q] = "deactivated") <=> (task[i][q] = "deactivated")
              BY <2>1 DEF Queues
        <2>3. \A i \in Instances, q \in Profiles : task[i][q] = "deactivated" => q # p
              BY <2>1 DEF InOrder
        <2>4. \A q \in Profiles : profile[q].status = "READY" => q # p
              BY <2>1 DEF Exists, InOrder
        <2>5. Usable' = Usable
              BY <2>1, <2>4 DEF Usable, Writes, Exists
        <2>6. CASE Usable # {} \/ broken
              BY <2>1, <2>5, <2>6 DEF FlagIsKept
        <2>7. CASE \E i \in Instances, q \in Profiles :
                     task[i][q] = "deactivated" /\ profile[q].active
              BY <2>1, <2>2, <2>3, <2>7 DEF FlagIsKept, Writes
        <2>8. CASE /\ ~ \E q \in Profiles : profile[q].status = "READY"
                   /\ ~ \E i \in Instances, q \in Profiles : task[i][q] = "deactivated"
              <3>1. \A q \in Profiles : profile[q].status # "READY"
                    BY <2>8
              <3>2. \A q \in Profiles : profile'[q].status # "READY"
                    BY <2>1, <3>1 DEF Writes
              <3>3. \A i \in Instances, q \in Profiles : task[i][q] # "deactivated"
                    BY <2>8
              <3>4. \A i \in Instances, q \in Profiles : task'[i][q] # "deactivated"
                    BY <2>2, <3>3
              <3> QED
                    BY <3>2, <3>4 DEF FlagIsKept
        <2> QED
              BY <2>6, <2>7, <2>8 DEF FlagIsKept
  <1>4. ASSUME NEW c \in Calls, Restore(c)
        PROVE  FlagIsKept'
        <2>1. PICK p \in Profiles :
                /\ p = call[c].id
                /\ TakesFlag(p, TRUE) /\ UNCHANGED task
                /\ broken' = (profile[p].status # "READY")
              BY <1>4, RestoreEffect
        <2>2. CASE profile[p].status = "READY"
              BY <2>1, <2>2 DEF FlagIsKept, Usable, TakesFlag
        <2>3. CASE profile[p].status # "READY"
              BY <2>1, <2>3 DEF FlagIsKept
        <2> QED
              BY <2>2, <2>3
  <1>5. ASSUME NEW c \in Calls, NEW p \in Profiles, BeginRestore(c, p)
        PROVE  FlagIsKept'
        BY <1>5, BeginRestoreEffect, RowType DEF FlagIsKept, Usable, Exists, Serves
  <1>6. ASSUME NEW i \in Instances, NEW p \in Profiles, Claim(i, p)
        PROVE  FlagIsKept'
        BY <1>6, ClaimEffect, RowType DEF FlagIsKept, Usable, Exists, Writes, Moves
  <1>7. ASSUME NEW i \in Instances, NEW p \in Profiles, Deactivate(i, p)
        PROVE  FlagIsKept'
        <2>1. /\ TakesFlag(p, profile[p].active)
              /\ Moves(i, p, "deactivated")
              /\ broken' = (broken \/ ~profile[p].active)
              BY <1>7, DeactivateEffect
        <2>2. CASE profile[p].active
              BY <2>1, <2>2 DEF FlagIsKept, TakesFlag, Moves
        <2>3. CASE ~profile[p].active
              BY <2>1, <2>3 DEF FlagIsKept
        <2> QED
              BY <2>2, <2>3
  <1>8. ASSUME NEW i \in Instances, NEW p \in Profiles, WriteReady(i, p) \/ MarkFailed(i, p)
        PROVE  FlagIsKept'
        <2>1. PICK outcome \in {"READY", "FAILED"} :
                /\ Moves(i, p, "idle")
                /\ Writes(p, outcome, profile[p].active, profile[p].version, "none")
                /\ outcome = "READY" => /\ task[i][p] = "deactivated"
                                        /\ broken' = (broken /\ ~profile[p].active)
                /\ outcome = "FAILED" =>
                     broken' = (broken \/ task[i][p] = "deactivated" \/ p \in Usable)
              BY <1>8, SettleEffect
        <2>2. \A q \in Profiles \ {p} : /\ q \in Usable' <=> q \in Usable
                                        /\ profile'[q].status = profile[q].status
              BY <2>1 DEF Usable, Writes
        <2>3. \A j \in Instances, q \in Profiles : /\ profile'[q].active = profile[q].active
                                                   /\ j # i \/ q # p => task'[j][q] = task[j][q]
              BY <2>1 DEF Writes, Moves
        <2>4. CASE outcome = "READY" /\ profile[p].active
              <3>1. p \in Usable'
                    BY <2>1, <2>4 DEF Usable, Writes
              <3> QED
                    BY <3>1 DEF FlagIsKept
        <2>5. CASE outcome = "READY" /\ ~profile[p].active
              <3>1. (broken' <=> broken) /\ p \notin Usable
                    BY <2>1, <2>5, Zenon DEF Usable
              <3>2. \/ Usable # {} \/ broken
                    \/ \E j \in Instances, q \in Profiles : /\ task[j][q] = "deactivated"
                                                            /\ profile[q].active
                    BY <2>1, <2>5 DEF FlagIsKept
              <3> QED
                    BY <3>1, <3>2, <2>2, <2>3, <2>5 DEF FlagIsKept, Usable
        <2>6. CASE outcome = "FAILED" /\ (task[i][p] = "deactivated" \/ p \in Usable)
              BY <2>1, <2>6 DEF FlagIsKept
        <2>7. CASE outcome = "FAILED" /\ task[i][p] # "deactivated" /\ p \notin Usable
              <3>1. broken' <=> broken
                    BY <2>1, <2>7, Zenon
              <3>2. p \notin Usable' /\ profile'[p].status # "READY"
                    BY <2>1, <2>7 DEF Usable, Writes
              <3>3. \A j \in Instances, q \in Profiles :
                      task'[j][q] = "deactivated" <=> task[j][q] = "deactivated"
                    BY <2>1, <2>3, <2>7 DEF Moves
              <3>4. Usable' = Usable
                    BY <2>2, <2>7, <3>2 DEF Usable
              <3>5. ASSUME \E q \in Profiles : profile'[q].status = "READY"
                    PROVE  \E q \in Profiles : profile[q].status = "READY"
                    BY <3>2, <3>5, <2>2
              <3> QED
                    BY <3>1, <3>3, <3>4, <3>5, <2>3 DEF FlagIsKept
        <2> QED
              BY <2>4, <2>5, <2>6, <2>7
  <1>9. ASSUME NEW i \in Instances, NEW p \in Profiles, Read(i, p)
        PROVE  FlagIsKept'
        BY <1>9, ReadEffect, RowType DEF FlagIsKept, Usable, Exists, Queues
  <1>10. ASSUME NEW i \in Instances, Restart(i)
        PROVE  FlagIsKept'
        <2>1. /\ UNCHANGED profile
              /\ \A j \in Instances, q \in Profiles :
                   task'[j][q] = IF j = i THEN "idle" ELSE task[j][q]
              /\ broken' = (broken \/ \E p \in Profiles : task[i][p] = "deactivated")
              BY <1>10, RestartEffect
        <2>2. CASE \E p \in Profiles : task[i][p] = "deactivated"
              BY <2>1, <2>2 DEF FlagIsKept
        <2>3. CASE ~ \E p \in Profiles : task[i][p] = "deactivated"
              <3>1. \A j \in Instances, q \in Profiles :
                      task'[j][q] = "deactivated" <=> task[j][q] = "deactivated"
                    BY <2>1, <2>3
              <3>2. broken' <=> broken
                    BY <2>1, <2>3, Zenon
              <3> QED
                    BY <3>1, <3>2, <2>1 DEF FlagIsKept, Usable
        <2> QED
              BY <2>2, <2>3
  <1>11. ASSUME NEW p \in Profiles, LeaseExpires(p)
        PROVE  FlagIsKept'
        BY <1>11, LeaseExpiresEffect, RowType DEF FlagIsKept, Usable, Exists, Writes
  <1>12. CASE UNCHANGED vars
         BY <1>12 DEF vars, FlagIsKept, Usable, Exists
  <1> QED
      BY <1>1, <1>2, <1>3, <1>4, <1>5, <1>6, <1>7, <1>8, <1>9, <1>10, <1>11, <1>12
      DEF Next, Work, Handle

LEMMA ChecksStep ==
  ASSUME TypeOK, InOrder, RestoresSettled, ChecksHold, [Next]_vars
  PROVE  ChecksHold'
  <1>1. ASSUME NEW c \in Calls, BeginCreate(c)
        PROVE  ChecksHold'
        BY <1>1, BeginCreateEffect, RowType
        DEF ChecksHold, Creating, Idle, RestoresSettled, Serves, Queues
  <1>2. ASSUME NEW c \in Calls, GetNextVersion(c)
        PROVE  ChecksHold'
        BY <1>2, GetNextVersionEffect, NextVersionIsNext, RowType
        DEF ChecksHold, Creating, Idle, RestoresSettled, Serves
  <1>3. ASSUME NEW c \in Calls, Insert(c)
        PROVE  ChecksHold'
        <2>1. PICK p \in Profiles :
                /\ ~Exists(p) /\ Writes(p, "PENDING", TRUE, call[c].version, "none")
                /\ Serves(c, Idle)
                /\ raced' = (raced \/ \E d \in Calls \ {c} : Creating(d))
              BY <1>3, InsertEffect
        <2>2. ASSUME ~raced' PROVE \A d \in Calls : ~Creating(d)'
              BY <2>1, <2>2, IdleType DEF Creating, Serves
        <2> QED
              BY <2>2 DEF ChecksHold, Creating
  <1>4. ASSUME NEW c \in Calls, Restore(c)
        PROVE  ChecksHold'
        BY <1>4, RestoreEffect, RowType
        DEF ChecksHold, Creating, Idle, RestoresSettled, TakesFlag, Serves
  <1>5. ASSUME NEW c \in Calls, NEW p \in Profiles, BeginRestore(c, p)
        PROVE  ChecksHold'
        BY <1>5, BeginRestoreEffect, RowType
        DEF ChecksHold, Creating, Idle, RestoresSettled, Serves
  <1>6. ASSUME NEW i \in Instances, NEW p \in Profiles, Claim(i, p)
        PROVE  ChecksHold'
        BY <1>6, ClaimEffect, RowType
        DEF ChecksHold, Creating, Idle, RestoresSettled, Writes, Moves
  <1>7. ASSUME NEW i \in Instances, NEW p \in Profiles, Deactivate(i, p)
        PROVE  ChecksHold'
        BY <1>7, DeactivateEffect, RowType
        DEF ChecksHold, Creating, Idle, RestoresSettled, TakesFlag, Moves
  <1>8. ASSUME NEW i \in Instances, NEW p \in Profiles, WriteReady(i, p) \/ MarkFailed(i, p)
        PROVE  ChecksHold'
        BY <1>8, SettleEffect, RowType
        DEF ChecksHold, Creating, Idle, RestoresSettled, Writes, Moves
  <1>9. ASSUME NEW i \in Instances, NEW p \in Profiles, Read(i, p)
        PROVE  ChecksHold'
        BY <1>9, ReadEffect, RowType DEF ChecksHold, Creating, Idle, RestoresSettled, Queues
  <1>10. ASSUME NEW i \in Instances, Restart(i)
        PROVE  ChecksHold'
        BY <1>10, RestartEffect, RowType DEF ChecksHold, Creating, Idle, RestoresSettled
  <1>11. ASSUME NEW p \in Profiles, LeaseExpires(p)
        PROVE  ChecksHold'
        BY <1>11, LeaseExpiresEffect, RowType
        DEF ChecksHold, Creating, Idle, RestoresSettled, Writes
  <1>12. CASE UNCHANGED vars
         BY <1>12 DEF vars, ChecksHold, Creating, Idle, RestoresSettled
  <1> QED
      BY <1>1, <1>2, <1>3, <1>4, <1>5, <1>6, <1>7, <1>8, <1>9, <1>10, <1>11, <1>12
      DEF Next, Work, Handle

LEMMA RequestStep ==
  ASSUME TypeOK, InOrder, RestoresSettled, ChecksHold, OneProfilePerRequest, [Next]_vars
  PROVE  OneProfilePerRequest'
  <1>1. ASSUME NEW c \in Calls, BeginCreate(c)
        PROVE  OneProfilePerRequest'
        BY <1>1, BeginCreateEffect, RowType
        DEF ChecksHold, Creating, OneProfilePerRequest, Exists, RestoresSettled, Serves,
            Queues
  <1>2. ASSUME NEW c \in Calls, GetNextVersion(c)
        PROVE  OneProfilePerRequest'
        BY <1>2, GetNextVersionEffect, RowType
        DEF ChecksHold, Creating, OneProfilePerRequest, Exists, RestoresSettled, Serves
  <1>3. ASSUME NEW c \in Calls, Insert(c)
        PROVE  OneProfilePerRequest'
        <2>1. PICK p \in Profiles :
                /\ ~Exists(p) /\ Writes(p, "PENDING", TRUE, call[c].version, "none")
                /\ call[c].pc = "insert"
                /\ raced' = (raced \/ \E d \in Calls \ {c} : Creating(d))
              BY <1>3, InsertEffect
        <2> SUFFICES ASSUME ~raced, NEW q \in Profiles, NEW r \in Profiles,
                            Exists(q)', Exists(r)', q # r
                     PROVE  /\ profile'[q].version # profile'[r].version
                            /\ ~ \A x \in {q, r} : /\ profile'[x].active
                                                   /\ profile'[x].status = "PENDING"
              BY <2>1 DEF OneProfilePerRequest
        <2>2. \A x \in Profiles :
                /\ call[c].version > profile[x].version
                /\ ~(profile[x].active /\ profile[x].status = "PENDING")
              BY <2>1 DEF ChecksHold, Creating
        <2>3. CASE q # p /\ r # p
              <3>1. \A x \in {q, r} : /\ profile'[x].version = profile[x].version
                                      /\ profile'[x].status = profile[x].status
                                      /\ profile'[x].active = profile[x].active
                    BY <2>1, <2>3 DEF Writes
              <3> QED
                    BY <2>3, <3>1 DEF OneProfilePerRequest, Exists
        <2>4. ASSUME NEW x \in Profiles, x # p
              PROVE  /\ profile'[x].version # profile'[p].version
                     /\ ~(profile'[x].active /\ profile'[x].status = "PENDING")
              <3>1. /\ profile'[x].version = profile[x].version
                    /\ profile'[x].status = profile[x].status
                    /\ profile'[x].active = profile[x].active
                    /\ profile'[p].version = call[c].version
                    BY <2>1, <2>4 DEF Writes
              <3>2. call[c].version \in Nat
                    BY DEF TypeOK
              <3> QED
                    BY <2>2, <3>1, <3>2, RowType
        <2>5. CASE q = p \/ r = p
              BY <2>4, <2>5
        <2> QED
              BY <2>3, <2>5
  <1>4. ASSUME NEW c \in Calls, Restore(c)
        PROVE  OneProfilePerRequest'
        BY <1>4, RestoreEffect, RowType
        DEF ChecksHold, Creating, OneProfilePerRequest, Exists, RestoresSettled, TakesFlag,
            Serves
  <1>5. ASSUME NEW c \in Calls, NEW p \in Profiles, BeginRestore(c, p)
        PROVE  OneProfilePerRequest'
        BY <1>5, BeginRestoreEffect, RowType
        DEF ChecksHold, Creating, OneProfilePerRequest, Exists, RestoresSettled, Serves
  <1>6. ASSUME NEW i \in Instances, NEW p \in Profiles, Claim(i, p)
        PROVE  OneProfilePerRequest'
        BY <1>6, ClaimEffect, RowType
        DEF ChecksHold, Creating, OneProfilePerRequest, Exists, RestoresSettled, Writes,
            Moves
  <1>7. ASSUME NEW i \in Instances, NEW p \in Profiles, Deactivate(i, p)
        PROVE  OneProfilePerRequest'
        BY <1>7, DeactivateEffect, RowType
        DEF ChecksHold, Creating, OneProfilePerRequest, Exists, RestoresSettled, TakesFlag,
            Moves
  <1>8. ASSUME NEW i \in Instances, NEW p \in Profiles, WriteReady(i, p) \/ MarkFailed(i, p)
        PROVE  OneProfilePerRequest'
        <2>1. PICK outcome \in {"READY", "FAILED"} :
                Writes(p, outcome, profile[p].active, profile[p].version, "none")
              BY <1>8, SettleEffect
        <2>2. Exists(p) /\ UNCHANGED raced
              BY <1>8, SettleEffect DEF InOrder
        <2>3. \A q \in Profiles : /\ Exists(q)' => Exists(q)
                                  /\ profile'[q].version = profile[q].version
                                  /\ profile'[q].active /\ profile'[q].status = "PENDING"
                                     => profile[q].active /\ profile[q].status = "PENDING"
              BY <2>1, <2>2 DEF Writes, Exists
        <2> QED
              BY <2>2, <2>3 DEF OneProfilePerRequest
  <1>9. ASSUME NEW i \in Instances, NEW p \in Profiles, Read(i, p)
        PROVE  OneProfilePerRequest'
        BY <1>9, ReadEffect, RowType
        DEF ChecksHold, Creating, OneProfilePerRequest, Exists, RestoresSettled, Queues
  <1>10. ASSUME NEW i \in Instances, Restart(i)
        PROVE  OneProfilePerRequest'
        BY <1>10, RestartEffect, RowType
        DEF ChecksHold, Creating, OneProfilePerRequest, Exists, RestoresSettled
  <1>11. ASSUME NEW p \in Profiles, LeaseExpires(p)
        PROVE  OneProfilePerRequest'
        BY <1>11, LeaseExpiresEffect, RowType
        DEF ChecksHold, Creating, OneProfilePerRequest, Exists, RestoresSettled, Writes
  <1>12. CASE UNCHANGED vars
         BY <1>12
         DEF vars, ChecksHold, Creating, OneProfilePerRequest, Exists, RestoresSettled
  <1> QED
      BY <1>1, <1>2, <1>3, <1>4, <1>5, <1>6, <1>7, <1>8, <1>9, <1>10, <1>11, <1>12
      DEF Next, Work, Handle

-----------------------------------------------------------------------------
(* The theorems                                                            *)

LEMMA InvInit == Init => IInv
  <1> SUFFICES ASSUME Init PROVE IInv
      OBVIOUS
  <1>1. TypeOK
        BY IdleType DEF Init, TypeOK, Profile, Requests
  <1>2. \A p \in Profiles : ~Exists(p) /\ Busy(p) = {}
        BY DEF Init, Exists, Busy
  <1>3. InOrder
        <2>1. \A p \in Profiles : /\ profile[p].version = 0 /\ ~profile[p].active
                                 /\ profile[p].lease = "none" /\ p \notin overlap
                                 /\ \A i \in Instances : task[i][p] = "idle"
              BY DEF Init
        <2>2. \A p \in Profiles : 0 <= p
              BY ProfileGenerationAssumption DEF Profiles, ProfileGenerationAssumption
        <2>3. \A c \in Calls : call[c].pc # "insert"
              BY IdleType DEF Init
        <2> QED
              BY <1>2, <2>1, <2>2, <2>3 DEF InOrder
  <1>4. RestoresSettled /\ ChecksHold
        BY IdleType DEF Init, RestoresSettled, ChecksHold, Creating
  <1>5. LeaseExcludes
        BY <1>2 DEF LeaseExcludes
  <1>6. OneUsable /\ TakerIsAlone /\ FlagIsKept
        BY DEF Init, OneUsable, TakerIsAlone, FlagIsKept, Usable
  <1>7. OneProfilePerRequest
        BY <1>2 DEF OneProfilePerRequest
  <1> QED
      BY <1>1, <1>3, <1>4, <1>5, <1>6, <1>7 DEF IInv

LEMMA InvStep == IInv /\ [Next]_vars => IInv'
  BY TypeStep, OrderStep, RestoreStep, LeaseStep, UsableStep, TakerStep, FlagStep,
     ChecksStep,
     RequestStep
  DEF IInv

LEMMA Invariance == Spec => []IInv
  BY InvInit, InvStep, PTL DEF Spec

\* Every reachable state of ProfileGeneration is well typed.
THEOREM TypeCorrect == Spec => []TypeOK
  <1>1. IInv => TypeOK
        BY DEF IInv
  <1> QED
      BY Invariance, <1>1, PTL

\* Never are two READY profiles of a user active, however creating, deactivating,
\* settling and restoring interleave.
THEOREM UsableIsUnique == Spec => []OneUsable
  <1>1. IInv => OneUsable
        BY DEF IInv
  <1> QED
      BY Invariance, <1>1, PTL

\* A user with a READY profile has a usable one, but for the cases the property names.
THEOREM UsableRemains == Spec => []UsableIsKept
  <1>1. IInv => UsableIsKept
        BY DEF IInv, FlagIsKept, UsableIsKept
  <1> QED
      BY Invariance, <1>1, PTL

\* Without a race of two creates, no version is given twice and one profile waits.
THEOREM RequestsShareAProfile == Spec => []OneProfilePerRequest
  <1>1. IInv => OneProfilePerRequest
        BY DEF IInv
  <1> QED
      BY Invariance, <1>1, PTL

\* For each profile, a step is one of LeasedJob, or a stutter.
LEMMA JobStep ==
  ASSUME IInv, [Next]_vars, NEW p \in Profiles
  PROVE  [Job(p)!Next]_(Job(p)!vars)
  <1> USE DEF Job!vars, IInv
  <1>1. ASSUME NEW c \in Calls, BeginCreate(c) \/ GetNextVersion(c)
        PROVE  UNCHANGED Job(p)!vars
        BY <1>1, BeginCreateEffect, GetNextVersionEffect DEF Queues, Busy
  <1>2. ASSUME NEW c \in Calls, Insert(c)
        PROVE  Job(p)!Request \/ UNCHANGED Job(p)!vars
        <2>1. PICK q \in Profiles :
                /\ ~Exists(q) /\ Writes(q, "PENDING", TRUE, call[c].version, "none") /\ Queues(q)
                /\ UNCHANGED overlap
              BY <1>2, InsertEffect
        <2>2. Busy(p)' = Busy(p)
              BY <2>1 DEF Queues, Busy
        <2>3. CASE p # q
              BY <2>1, <2>2, <2>3 DEF Writes
        <2>4. CASE p = q
              <3>1. Busy(p) = {} /\ p \notin overlap
                    BY <2>1, <2>4 DEF InOrder, Busy
              <3>2. profile'[p].status = "PENDING"
                    BY <2>1, <2>4 DEF Writes
              <3>3. (p \in overlap)' = (Busy(p) # {})
                    <4>1. (p \in overlap)' = FALSE
                          BY <2>1, <3>1
                    <4>2. (Busy(p) # {}) = FALSE
                          BY <3>1
                    <4> QED
                          BY <4>1, <4>2
              <3> QED
                    BY <2>2, <3>2, <3>3 DEF Job!Request
        <2> QED
              BY <2>3, <2>4
  <1>3. ASSUME NEW c \in Calls, Restore(c) \/ \E q \in Profiles : BeginRestore(c, q)
        PROVE  UNCHANGED Job(p)!vars
        BY <1>3, RestoreEffect, BeginRestoreEffect DEF TakesFlag, Busy
  <1>4. ASSUME NEW i \in Instances, NEW q \in Profiles, Read(i, q)
        PROVE  UNCHANGED Job(p)!vars
        BY <1>4, ReadEffect DEF Queues, Busy
  <1>5. ASSUME NEW i \in Instances, NEW q \in Profiles, Claim(i, q)
        PROVE  Job(p)!Take(i) \/ UNCHANGED Job(p)!vars
        <2>1. CASE /\ profile[q].status = "PENDING" /\ profile[q].lease # "live"
                   /\ Writes(q, "PENDING", profile[q].active, profile[q].version, "live")
                   /\ Moves(i, q, "working")
              <3>1. CASE p # q
                    BY <1>5, <2>1, <3>1, ClaimEffect DEF Writes, Moves, Busy
              <3>2. CASE p = q
                    <4>1. /\ i \notin Busy(p) /\ Busy(p)' = Busy(p) \cup {i}
                          /\ UNCHANGED overlap /\ profile'[p].status = "PENDING"
                          BY <1>5, <2>1, <3>2, ClaimEffect DEF Writes, Moves, Busy
                    <4>2. Busy(p) = {} \/ p \in overlap
                          BY <2>1, <3>2 DEF LeaseExcludes
                    <4> QED
                          BY <2>1, <3>2, <4>1, <4>2 DEF Job!Take
              <3> QED
                    BY <3>1, <3>2
        <2>2. CASE UNCHANGED profile /\ Moves(i, q, "idle")
              BY <1>5, <2>2, ClaimEffect DEF Moves, Busy
        <2> QED
              BY <1>5, <2>1, <2>2, ClaimEffect
  <1>6. ASSUME NEW i \in Instances, NEW q \in Profiles, Deactivate(i, q)
        PROVE  UNCHANGED Job(p)!vars
        <2>1. /\ TakesFlag(q, profile[q].active) /\ Moves(i, q, "deactivated")
              /\ task[i][q] = "working" /\ UNCHANGED overlap
              BY <1>6, DeactivateEffect
        <2> QED
              BY <2>1 DEF TakesFlag, Moves, Busy
  <1>7. ASSUME NEW i \in Instances, NEW q \in Profiles, WriteReady(i, q) \/ MarkFailed(i, q)
        PROVE  Job(p)!Settle(i) \/ UNCHANGED Job(p)!vars
        <2>1. PICK outcome \in {"READY", "FAILED"} :
                /\ Writes(q, outcome, profile[q].active, profile[q].version, "none")
                /\ Moves(i, q, "idle") /\ i \in Busy(q) /\ UNCHANGED overlap
              BY <1>7, SettleEffect DEF Busy
        <2>2. CASE p # q
              BY <2>1, <2>2 DEF Writes, Moves, Busy
        <2>3. CASE p = q
              <3>1. Busy(p)' = Busy(p) \ {i}
                    BY <2>1, <2>3 DEF Moves, Busy
              <3> QED
                    BY <2>1, <2>3, <3>1 DEF Writes, Job!Settle, Job!Settled
        <2> QED
              BY <2>2, <2>3
  <1>8. ASSUME NEW i \in Instances, Restart(i)
        PROVE  Job(p)!Stop(i) \/ UNCHANGED Job(p)!vars
        <2>1. /\ UNCHANGED <<profile, overlap>>
              /\ Busy(p)' = Busy(p) \ {i}
              BY <1>8, RestartEffect DEF Busy
        <2> QED
              BY <2>1 DEF Job!Stop
  <1>9. ASSUME NEW q \in Profiles, LeaseExpires(q)
        PROVE  Job(p)!Lapse \/ UNCHANGED Job(p)!vars
        <2>1. /\ Writes(q, profile[q].status, profile[q].active, profile[q].version, "expired")
              /\ UNCHANGED task
              /\ overlap' = IF Busy(q) # {} THEN overlap \cup {q} ELSE overlap
              BY <1>9, LeaseExpiresEffect
        <2>2. Busy(p)' = Busy(p) /\ profile'[p].status = profile[p].status
              BY <2>1 DEF Busy, Writes
        <2>3. CASE p \in overlap
              <3>1. p \in overlap'
                    BY <2>1, <2>3
              <3> QED
                    BY <2>2, <2>3, <3>1
        <2>4. CASE p \notin overlap /\ p \notin overlap'
              BY <2>2, <2>4
        <2>5. CASE p \notin overlap /\ p \in overlap'
              <3>1. Busy(p) # {}
                    BY <2>1, <2>5
              <3>2. (p \in overlap)' = TRUE
                    BY <2>5
              <3> QED
                    BY <2>2, <3>1, <3>2 DEF Job!Lapse
        <2> QED
              BY <2>3, <2>4, <2>5
  <1>10. CASE UNCHANGED vars
         BY <1>10 DEF vars, Busy
  <1> QED
      BY <1>1, <1>2, <1>3, <1>4, <1>5, <1>6, <1>7, <1>8, <1>9, <1>10
      DEF Next, Handle, Work, Job!Next

\* The generation of each profile implements LeasedJob.
THEOREM ImplementsLeasedJob == Spec => OneOutcomePerProfile
  <1>1. Init => \A p \in Profiles : Job(p)!Init
        BY DEF Init, Busy, Job!Init
  <1>2. IInv /\ [Next]_vars => \A p \in Profiles : [Job(p)!Next]_(Job(p)!vars)
        BY JobStep
  <1>3. (\A p \in Profiles : [Job(p)!Next]_(Job(p)!vars))
        => [\A p \in Profiles : [Job(p)!Next]_(Job(p)!vars)]_vars
        OBVIOUS
  <1> QED
      BY <1>1, <1>2, <1>3, Invariance, PTL DEF Spec, OneOutcomePerProfile

LEMMA JobWorkers == IInv => \A p \in Profiles : Job(p)!OneWorker
  BY DEF IInv, LeaseExcludes, Job!OneWorker, Job!Settled

\* So each profile keeps what LeasedJob promises: one task generates it at a time, and
\* none once it has an outcome, unless its lease ran out during a generation.
THEOREM OneGeneration == Spec => []\A p \in Profiles : Job(p)!OneWorker
  BY Invariance, JobWorkers, PTL

\* READY is not replaced by FAILED, nor FAILED by READY, without such an overlap.
THEOREM OutcomesStand ==
  ASSUME NEW p \in Profiles
  PROVE  Spec => Job(p)!OutcomeStands
  <1> DEFINE Replaced == /\ profile[p].status \in Job(p)!Settled
                         /\ (profile[p].status)' \in Job(p)!Settled \ {profile[p].status}
  <1>1. IInv /\ [Next]_vars => [Replaced => (p \in overlap)]_(Job(p)!vars)
    <2> SUFFICES ASSUME IInv, [Next]_vars, p \notin overlap, Replaced
                 PROVE  FALSE
        OBVIOUS
    <2>1. Busy(p) = {}
          BY JobWorkers DEF Job!OneWorker
    <2>2. Job(p)!Next
          BY JobStep DEF Job!vars
    <2>3. ~Job(p)!Request /\ ~Job(p)!Lapse /\ ~Job(p)!Withdraw
          BY DEF Job!Request, Job!Lapse, Job!Withdraw, Job!Settled
    <2>4. \A i \in Instances : ~Job(p)!Take(i) /\ ~Job(p)!Settle(i) /\ ~Job(p)!Stop(i)
          BY <2>1 DEF Job!Take, Job!Settle, Job!Stop, Job!Settled
    <2> QED
        BY <2>2, <2>3, <2>4 DEF Job!Next
  <1> QED
      BY <1>1, Invariance, PTL DEF Spec, Job!OutcomeStands

=============================================================================
