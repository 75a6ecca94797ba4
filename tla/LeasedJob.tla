------------------------------ MODULE LeasedJob ------------------------------
(***************************************************************************)
(* What the API promises of work it does in the background for one row, be *)
(* it the extraction of a document or the generation of a career profile.  *)
(* A request makes the row PENDING, a worker takes the row under a lease   *)
(* and settles it.  Workers get into each other's way only when the lease  *)
(* ran out, or a new request came, while one of them was busy.             *)
(***************************************************************************)

CONSTANT Workers

VARIABLES
  status,   \* of the row, "none" while there is no row
  busy,     \* the workers that may still settle the row
  overlap   \* a lease ran out under a worker, or a request came while one was busy

vars == <<status, busy, overlap>>

Settled == {"READY", "FAILED"}

TypeOK ==
  /\ status \in {"none", "PENDING"} \cup Settled
  /\ busy \subseteq Workers
  /\ overlap \in BOOLEAN

Init ==
  /\ status = "none"
  /\ busy = {}
  /\ overlap = FALSE

-----------------------------------------------------------------------------

Request ==
  /\ status' = "PENDING"
  /\ overlap' = (busy # {})
  /\ UNCHANGED busy

Take(w) ==
  /\ status = "PENDING"
  /\ w \notin busy
  /\ busy = {} \/ overlap
  /\ busy' = busy \cup {w}
  /\ UNCHANGED <<status, overlap>>

Lapse ==
  /\ busy # {}
  /\ overlap' = TRUE
  /\ UNCHANGED <<status, busy>>

Settle(w) ==
  /\ w \in busy
  /\ status' \in Settled
  /\ busy' = busy \ {w}
  /\ UNCHANGED overlap

\* A worker dies, or finds that the row is gone.
Stop(w) ==
  /\ w \in busy
  /\ busy' = busy \ {w}
  /\ UNCHANGED <<status, overlap>>

Withdraw ==
  /\ status' = "none"
  /\ UNCHANGED <<busy, overlap>>

Next == \/ Request \/ Lapse \/ Withdraw
        \/ \E w \in Workers : Take(w) \/ Settle(w) \/ Stop(w)

Spec == Init /\ [][Next]_vars

-----------------------------------------------------------------------------
(* What follows from it                                                    *)

\* Without an overlap at most one worker is busy, and none with a settled row.
OneWorker ==
  ~overlap => /\ \A v, w \in busy : v = w
              /\ status \in Settled => busy = {}

\* An outcome is replaced by the other one only after an overlap; else a request
\* comes first.
OutcomeStands ==
  [][(status \in Settled /\ status' \in Settled \ {status}) => overlap]_vars

=============================================================================
