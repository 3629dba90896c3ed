--------------------------- MODULE MC_Invitations ---------------------------
(* Instances of Invitations for TLC. *)
EXTENDS Invitations

CONSTANTS e1, e2, c1, c2
=============================================================================
