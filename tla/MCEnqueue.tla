------------------------------ MODULE MCEnqueue -------------------------------
(***************************************************************************)
(* A small instance of Enqueue: a user who scrapes, retries and rematches  *)
(* while up to two triggers handle the schedule.                           *)
(***************************************************************************)
EXTENDS Enqueue, TLC

CONSTANTS c1, c2

MCKinds == (c1 :> Modes) @@ (c2 :> {"tick"})

=============================================================================
