---------------------------- MODULE MCScrapeRun ----------------------------
(***************************************************************************)
(* Small instances of ScrapeRun.  The worker reports a run COMPLETED, and  *)
(* retries the callback; another execution of the run reports it FAILED,   *)
(* with an attempt that does not follow.                                   *)
(***************************************************************************)
EXTENDS ScrapeRun, TLC

MCFewCallbacks ==
  { [id |-> "e1", attempt |-> 1, status |-> "COMPLETED", jobs |-> Offers],
    [id |-> "e2", attempt |-> 3, status |-> "FAILED",    jobs |-> {}] }

\* ... with a retry that carries no jobs.
MCCallbacks ==
  MCFewCallbacks \cup
  { [id |-> "e1", attempt |-> 2, status |-> "COMPLETED", jobs |-> {}] }

\* Worker calls differ only in the choices they make.
CallerSymmetry == Permutations(Callers)

=============================================================================
