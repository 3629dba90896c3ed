--------------------------- MODULE MC_Eligibility ---------------------------
(* Instances of Eligibility for TLC. *)
EXTENDS Eligibility, TLC

CONSTANTS c1, c2, t1

\* A request and its repetition, of a subscriber in the 50 % cohort only.
Repeated == (c1 :> t1) @@ (c2 :> t1)
OneSubscriber == (c1 :> 20) @@ (c2 :> 20)
=============================================================================
