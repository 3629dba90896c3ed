------------------------------ MODULE MC_Access ------------------------------
(* Instances of Access for TLC. *)
EXTENDS Access

CONSTANTS p1, p2, c1, c2
=============================================================================
