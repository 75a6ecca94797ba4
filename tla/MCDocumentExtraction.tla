------------------------- MODULE MCDocumentExtraction -------------------------
(***************************************************************************)
(* A small instance of DocumentExtraction: each call has an instance of    *)
(* its own, and the user of the first uploads, the other cleans up.        *)
(***************************************************************************)
EXTENDS DocumentExtraction, TLC

CONSTANTS i1, i2, c1, c2, c3

MCAt == [c \in Calls |-> IF c = c1 THEN i1 ELSE i2]

MCKinds == (c1 :> {"confirm", "extract"}) @@ (c2 :> {"extract", "remove"})
           @@ (c3 :> {"sync", "remove"})

=============================================================================
