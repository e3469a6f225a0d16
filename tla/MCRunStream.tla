----------------------------- MODULE MCRunStream -----------------------------
(***************************************************************************)
(* An instance of RunStream for TLC: one client of one Run.                *)
(***************************************************************************)
EXTENDS RunStream

CONSTANTS r1, c1

MCFollows == [c \in {c1} |-> r1]
=============================================================================
