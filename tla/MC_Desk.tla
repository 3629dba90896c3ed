------------------------------- MODULE MC_Desk -------------------------------
(* Instances of Desk for TLC. *)
EXTENDS Desk, TLC

CONSTANTS a1, d1, c1, c2

\* The slots of requests can be exchanged: they are named in no property.
SlotSymmetry == Permutations({c1, c2})
=============================================================================
