--------------------------- MODULE MCInvestigation ---------------------------
(***************************************************************************)
(* An instance of Investigation for TLC: two candidate ids, two tasks, two *)
(* definitions.                                                            *)
(***************************************************************************)
EXTENDS Investigation

CONSTANTS c1, c2, scan, dig, narrow, wide
=============================================================================
