-------------------------- MODULE ProfileGeneration ---------------------------
(***************************************************************************)
(* The career profiles of one user (career-profiles.service.ts): versions  *)
(* that are created PENDING and active, generated in the background under  *)
(* a lease, and may be restored.  One of them is to be the profile that    *)
(* scraping and matching use, the one that is both active and READY, but   *)
(* no constraint says so: creating, deactivating and settling are separate *)
(* statements of separate handlers.                                        *)
(***************************************************************************)
EXTENDS Naturals, FiniteSetsExt

CONSTANTS
  N,           \* how many profiles are created at most, the bound of this model
  Instances,   \* API processes, each with its generationQueue
  Calls,       \* requests that may be handled at the same time, again and again
  At,          \* the instance that handles each call
  Kinds,       \* the operations of each call
  MayCrash     \* the instances that restart once

ProfileGenerationAssumption ==
  /\ N \in Nat
  /\ At \in [Calls -> Instances]
  /\ Kinds \in [Calls -> SUBSET {"create", "restore"}]
  /\ MayCrash \subseteq Instances

ASSUME ProfileGenerationAssumption

VARIABLES
  profile,  \* career_profiles, in the order of creation
  task,     \* the entry of each profile in the generationQueue of each instance
  call,     \* where each request is
  crashed,  \* instances that have restarted
  overlap,  \* profiles whose lease ran out during their generation (history)
  raced,    \* a create inserted while another was past its check (history)
  broken    \* a generation deactivated the others and did not take over (history)

vars == <<profile, task, call, crashed, overlap, raced, broken>>

-----------------------------------------------------------------------------

Profiles == 1..N

Profile == [status : {"none", "PENDING", "READY", "FAILED"}, active : BOOLEAN,
            version : Nat, lease : {"none", "live", "expired"}]

Exists(p) == profile[p].status # "none"

\* A create is at "version" or "insert", a restore of the profile id at "restore".
TypeOK ==
  /\ profile \in [Profiles -> Profile]
  /\ task \in [Instances -> [Profiles -> {"idle", "queued", "working", "deactivated"}]]
  /\ call \in [Calls -> [pc : {"idle", "version", "insert", "restore"},
                         id : 0..N, version : Nat]]
  /\ crashed \subseteq MayCrash
  /\ overlap \subseteq Profiles
  /\ raced \in BOOLEAN
  /\ broken \in BOOLEAN

Idle == [pc |-> "idle", id |-> 0, version |-> 0]

Init ==
  /\ profile = [p \in Profiles |->
                  [status |-> "none", active |-> FALSE, version |-> 0, lease |-> "none"]]
  /\ task = [i \in Instances |-> [p \in Profiles |-> "idle"]]
  /\ call = [c \in Calls |-> Idle]
  /\ crashed = {}
  /\ overlap = {}
  /\ raced = FALSE
  /\ broken = FALSE

-----------------------------------------------------------------------------
(* Helpers                                                                 *)

Step(i, p, pc) == task' = [task EXCEPT ![i][p] = pc]

Serve(c, request) == call' = [call EXCEPT ![c] = request]

\* ensureGenerationQueued: an entry in the map swallows the request.
Ensure(i, p) == IF task[i][p] = "idle" THEN Step(i, p, "queued") ELSE UNCHANGED task

\* The instances at work on a profile.
Busy(p) == {i \in Instances : task[i][p] \in {"working", "deactivated"}}

\* deactivateProfiles, and the first half of a restore.
OthersInactive(p) ==
  [q \in Profiles |-> [profile[q] EXCEPT !.active = @ /\ q = p]]

\* Profiles that getCareerProfileContext may return.
Usable == {p \in Profiles : profile[p].active /\ profile[p].status = "READY"}

\* The active PENDING profile created last, 0 when there is none.
ActivePending ==
  Max({0} \cup {p \in Profiles : profile[p].active /\ profile[p].status = "PENDING"})

Creating(c) == call[c].pc \in {"version", "insert"}

NextVersion == Max({0} \cup {profile[p].version : p \in Profiles}) + 1

-----------------------------------------------------------------------------
(* create                                                                  *)

\* Variant: every request gets a new profile.
BeginCreateAlways(c) ==
  /\ "create" \in Kinds[c]
  /\ call[c].pc = "idle"
  /\ Serve(c, [Idle EXCEPT !.pc = "version"])
  /\ UNCHANGED <<profile, task, crashed, overlap, raced, broken>>

\* An active profile that still waits for its generation is taken instead of a new
\* one.  The user has an input and documents with enough text.
BeginCreate(c) ==
  /\ "create" \in Kinds[c]
  /\ call[c].pc = "idle"
  /\ IF ActivePending # 0
     THEN Ensure(At[c], ActivePending) /\ UNCHANGED call
     ELSE Serve(c, [Idle EXCEPT !.pc = "version"]) /\ UNCHANGED task
  /\ UNCHANGED <<profile, crashed, overlap, raced, broken>>

GetNextVersion(c) ==
  /\ call[c].pc = "version"
  /\ Serve(c, [Idle EXCEPT !.pc = "insert", !.version = NextVersion])
  /\ UNCHANGED <<profile, task, crashed, overlap, raced, broken>>

\* Variant: the others are deactivated at once.
InsertDeactivating(c) ==
  /\ call[c].pc = "insert"
  /\ \E p \in Profiles :
       /\ ~Exists(p)
       /\ \A q \in Profiles : q < p => Exists(q)
       /\ profile' = [OthersInactive(p) EXCEPT ![p] =
                        [status |-> "PENDING", active |-> TRUE,
                         version |-> call[c].version, lease |-> "none"]]
       /\ Ensure(At[c], p)
  /\ raced' = (raced \/ \E d \in Calls \ {c} : Creating(d))
  /\ Serve(c, Idle)
  /\ UNCHANGED <<crashed, overlap, broken>>

\* The new profile is active at once, and so are those that were.  Its generation is
\* queued without waiting for anything else.
Insert(c) ==
  /\ call[c].pc = "insert"
  /\ \E p \in Profiles :
       /\ ~Exists(p)
       /\ \A q \in Profiles : q < p => Exists(q)
       /\ profile' = [profile EXCEPT ![p] =
                        [status |-> "PENDING", active |-> TRUE,
                         version |-> call[c].version, lease |-> "none"]]
       /\ Ensure(At[c], p)
  /\ raced' = (raced \/ \E d \in Calls \ {c} : Creating(d))
  /\ Serve(c, Idle)
  /\ UNCHANGED <<crashed, overlap, broken>>

-----------------------------------------------------------------------------
(* Reads and restore                                                       *)

\* getLatest, getById and listVersions queue what they find PENDING.
Read(i, p) ==
  /\ profile[p].status = "PENDING"
  /\ Ensure(i, p)
  /\ UNCHANGED <<profile, call, crashed, overlap, raced, broken>>

BeginRestore(c, p) ==
  /\ "restore" \in Kinds[c]
  /\ call[c].pc = "idle"
  /\ profile[p].status = "READY"
  /\ Serve(c, [Idle EXCEPT !.pc = "restore", !.id = p])
  /\ UNCHANGED <<profile, task, crashed, overlap, raced, broken>>

\* One transaction.  The profile may have been marked FAILED since it was read.
Restore(c) ==
  /\ call[c].pc = "restore"
  /\ profile' = [OthersInactive(call[c].id) EXCEPT ![call[c].id].active = TRUE]
  /\ broken' = (profile[call[c].id].status # "READY")
  /\ Serve(c, Idle)
  /\ UNCHANGED <<task, crashed, overlap, raced>>

-----------------------------------------------------------------------------
(* processQueuedGeneration                                                 *)

\* Variant: a live lease is not respected.
ClaimAnyLease(i, p) ==
  /\ task[i][p] = "queued"
  /\ IF profile[p].status = "PENDING"
     THEN profile' = [profile EXCEPT ![p].lease = "live"] /\ Step(i, p, "working")
     ELSE Step(i, p, "idle") /\ UNCHANGED profile
  /\ UNCHANGED <<call, crashed, overlap, raced, broken>>

\* Variant: a lease that ran out is not taken over.
ClaimOnlyFree(i, p) ==
  /\ task[i][p] = "queued"
  /\ IF profile[p].status = "PENDING" /\ profile[p].lease = "none"
     THEN profile' = [profile EXCEPT ![p].lease = "live"] /\ Step(i, p, "working")
     ELSE Step(i, p, "idle") /\ UNCHANGED profile
  /\ UNCHANGED <<call, crashed, overlap, raced, broken>>

\* One conditional update; a task that does not get the row ends without a trace.
Claim(i, p) ==
  /\ task[i][p] = "queued"
  /\ IF profile[p].status = "PENDING" /\ profile[p].lease # "live"
     THEN profile' = [profile EXCEPT ![p].lease = "live"] /\ Step(i, p, "working")
     ELSE Step(i, p, "idle") /\ UNCHANGED profile
  /\ UNCHANGED <<call, crashed, overlap, raced, broken>>

\* Variant: the others keep their flag.
DeactivateNone(i, p) ==
  /\ task[i][p] = "working"
  /\ broken' = (broken \/ ~profile[p].active)
  /\ Step(i, p, "deactivated")
  /\ UNCHANGED <<profile, call, crashed, overlap, raced>>

\* The profile is written, the others lose their flag.  Whether this one still has its
\* own is not asked.
Deactivate(i, p) ==
  /\ task[i][p] = "working"
  /\ profile' = OthersInactive(p)
  /\ broken' = (broken \/ ~profile[p].active)
  /\ Step(i, p, "deactivated")
  /\ UNCHANGED <<call, crashed, overlap, raced>>

\* Variant: the entry stays in the map.
WriteReadyKeepingEntry(i, p) ==
  /\ task[i][p] = "deactivated"
  /\ profile' = [profile EXCEPT ![p].status = "READY", ![p].lease = "none"]
  /\ broken' = (broken /\ ~profile[p].active)
  /\ Step(i, p, "done")
  /\ UNCHANGED <<call, crashed, overlap, raced>>

\* The profile is READY, by id and whatever happened to it, active or not.
WriteReady(i, p) ==
  /\ task[i][p] = "deactivated"
  /\ profile' = [profile EXCEPT ![p].status = "READY", ![p].lease = "none"]
  /\ broken' = (broken /\ ~profile[p].active)
  /\ Step(i, p, "idle")
  /\ UNCHANGED <<call, crashed, overlap, raced>>

\* markProfileFailed, also by id, when the input is missing or the model fails, and
\* when one of the two statements before throws.
MarkFailed(i, p) ==
  /\ i \in Busy(p)
  /\ profile' = [profile EXCEPT ![p].status = "FAILED", ![p].lease = "none"]
  /\ broken' = (broken \/ task[i][p] = "deactivated" \/ p \in Usable)
  /\ Step(i, p, "idle")
  /\ UNCHANGED <<call, crashed, overlap, raced>>

LeaseExpires(p) ==
  /\ profile[p].lease = "live"
  /\ profile' = [profile EXCEPT ![p].lease = "expired"]
  /\ overlap' = IF Busy(p) # {} THEN overlap \cup {p} ELSE overlap
  /\ UNCHANGED <<task, call, crashed, raced, broken>>

\* The instance restarts: its map and its requests are gone.  A task whose
\* markProfileFailed throws does the same, because nobody handles the rejection.
Restart(i) ==
  /\ i \in MayCrash \ crashed
  /\ crashed' = crashed \cup {i}
  /\ task' = [task EXCEPT ![i] = [p \in Profiles |-> "idle"]]
  /\ call' = [c \in Calls |-> IF At[c] = i THEN Idle ELSE call[c]]
  /\ broken' = (broken \/ \E p \in Profiles : task[i][p] = "deactivated")
  /\ UNCHANGED <<profile, overlap, raced>>

-----------------------------------------------------------------------------

Handle(c) == GetNextVersion(c) \/ Insert(c) \/ Restore(c)

Work(i, p) == Claim(i, p) \/ Deactivate(i, p) \/ WriteReady(i, p) \/ MarkFailed(i, p)

Next ==
  \/ \E c \in Calls : BeginCreate(c) \/ Handle(c) \/ \E p \in Profiles : BeginRestore(c, p)
  \/ \E i \in Instances : Restart(i) \/ \E p \in Profiles : Work(i, p) \/ Read(i, p)
  \/ \E p \in Profiles : LeaseExpires(p)

Spec == Init /\ [][Next]_vars

\* Tasks go on, leases run out with time, and the user looks at the profiles again and
\* again.
Fairness ==
  \A p \in Profiles :
    /\ \A i \in Instances : WF_vars(Work(i, p))
    /\ WF_vars(LeaseExpires(p))
    /\ WF_vars(\E i \in Instances : Read(i, p))

FairSpec == Spec /\ Fairness

-----------------------------------------------------------------------------
(* Properties                                                              *)

Job(p) == INSTANCE LeasedJob WITH Workers <- Instances, status <- profile[p].status,
                                  busy <- Busy(p), overlap <- (p \in overlap)

\* Each generation does what LeasedJob says: one outcome, by one task, unless its lease
\* ran out during the generation.
OneOutcomePerProfile ==
  /\ \A p \in Profiles : Job(p)!Init
  /\ [][\A p \in Profiles : [Job(p)!Next]_(Job(p)!vars)]_vars

\* Never are two READY profiles active, although new profiles are active beside old ones
\* and a restore runs beside generations.
OneUsable == \A p, q \in Usable : p = q

\* A user with a READY profile has a usable one, except between the two statements of a
\* generation, or after a generation that took the flag from the others and then failed,
\* or had lost its own flag before.
UsableIsKept ==
  (\E p \in Profiles : profile[p].status = "READY") =>
    \/ Usable # {}
    \/ broken
    \/ \E i \in Instances, p \in Profiles : task[i][p] = "deactivated"

\* A second create gets the profile that waits, and no version is given twice, unless
\* two creates were past their checks at the same time.
OneProfilePerRequest ==
  ~raced =>
    \A p, q \in Profiles : Exists(p) /\ Exists(q) /\ p # q =>
      /\ profile[p].version # profile[q].version
      /\ ~(\A x \in {p, q} : profile[x].active /\ profile[x].status = "PENDING")

\* Every profile is settled, whatever restarts, as long as the user looks.
ProfileIsSettled ==
  \A p \in Profiles : profile[p].status = "PENDING" ~> profile[p].status # "PENDING"

=============================================================================
