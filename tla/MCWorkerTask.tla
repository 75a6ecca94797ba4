---------------------------- MODULE MCWorkerTask ----------------------------
(***************************************************************************)
(* Small instances of WorkerTask: the task of the first run is delivered   *)
(* twice, that of every other run once.                                    *)
(***************************************************************************)
EXTENDS WorkerTask

CONSTANTS r1, r2, r3, d1, d2, d3, d4

\* Which run each delivery belongs to.
MCRunOf == [d \in Deliveries |-> CASE d \in {d1, d2} -> r1
                                   [] d = d3          -> r2
                                   [] d = d4          -> r3]

=============================================================================
