-------------------------- MODULE MCProfileGeneration -------------------------
(***************************************************************************)
(* A small instance of ProfileGeneration: two instances of the API, each   *)
(* with one request at a time; the user of the first restores, too.        *)
(***************************************************************************)
EXTENDS ProfileGeneration

CONSTANTS i1, i2, c1, c2

MCAt == [c \in Calls |-> IF c = c1 THEN i1 ELSE i2]

MCKinds == [c \in Calls |-> IF c = c1 THEN {"create", "restore"} ELSE {"create"}]

=============================================================================
