----------------------------- MODULE MCScrapeJob ------------------------------
(***************************************************************************)
(* A small instance of ScrapeJob: two attempts, three detail pages in two  *)
(* batches, and fallbacks for two of them.                                 *)
(***************************************************************************)
EXTENDS ScrapeJob

CONSTANT o1

=============================================================================
