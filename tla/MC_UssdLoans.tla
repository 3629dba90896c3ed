---------------------------- MODULE MC_UssdLoans ----------------------------
(* Instances of UssdLoans for TLC. *)
EXTENDS UssdLoans

CONSTANTS u1, s1, l1, l2, l3, c1, c2, j1, j2, j3

\* A gateway that sends a sessionId, and one that sends only the number, in
\* international form.
TwoGateways == {<<s1, "local">>, <<NoSid, "other">>}
=============================================================================
