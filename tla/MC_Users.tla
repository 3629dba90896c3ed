------------------------------ MODULE MC_Users ------------------------------
(***************************************************************************)
(* Two users, one of them stored under an international number.            *)
(***************************************************************************)
EXTENDS Users, TLC

MCAmounts == (0 :> 1 @@ 1 :> 2)
=============================================================================
