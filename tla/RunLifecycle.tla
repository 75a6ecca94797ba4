---------------------------- MODULE RunLifecycle ----------------------------
(***************************************************************************)
(* The scrape-run life cycle the API promises: the transition table        *)
(* ALLOWED_STATUS_TRANSITIONS of job-sources.types.ts, seen as a state     *)
(* machine.  It is the abstract specification of ScrapeRun, which models   *)
(* the handlers that write the status column.                              *)
(***************************************************************************)

VARIABLE status

\* RunStatus
Statuses == {"PENDING", "RUNNING", "COMPLETED", "FAILED"}

\* The two statuses from which the table allows no transition.
Terminal == {"COMPLETED", "FAILED"}

\* ALLOWED_STATUS_TRANSITIONS
Allowed == [s \in Statuses |->
              CASE s = "PENDING" -> {"RUNNING", "FAILED"}
                [] s = "RUNNING" -> {"COMPLETED", "FAILED"}
                [] OTHER         -> {}]

-----------------------------------------------------------------------------

LifecycleInit == status = "PENDING"

LifecycleNext == status' \in Allowed[status]

LifecycleSpec == LifecycleInit /\ [][LifecycleNext]_status

\* Every active run is eventually finalised.
EventuallyFinal == <>[](status \in Terminal)

=============================================================================
