------------------------------ MODULE MCNotebook ------------------------------
(***************************************************************************)
(* A small instance of Notebook: concurrent status changes and digests of  *)
(* one offer, over two days.                                               *)
(***************************************************************************)
EXTENDS Notebook, TLC

CONSTANTS o1, p1, d1, d2

TickSymmetry == Permutations(Ticks)

=============================================================================
