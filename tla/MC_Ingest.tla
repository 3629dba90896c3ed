------------------------------ MODULE MC_Ingest ------------------------------
(* Instances of Ingest for TLC. *)
EXTENDS Ingest, TLC

CONSTANTS s1, l1, r1, g1

Line(who, when, amount) == [who |-> who, when |-> when, amount |-> amount]
Activation(who, when, class) == [who |-> who, when |-> when, class |-> class]
Vendor(kind, ids) ==
    [kind |-> kind, who |-> s1, when |-> 10, ids |-> ids, ref |-> Missing, recovered |-> FALSE]

\* Two activation files that disagree and one that names a subscriber twice; a
\* vendor file; usage with lines that are rejected; a file without its header.
MCContent ==
    [a |-> [source |-> "airtel-activation", date |-> 1, headers |-> TRUE,
            lines |-> <<Activation(s1, 1, 7), Activation(s1, 1, Bad)>>],
     b |-> [source |-> "airtel-activation", date |-> 1, headers |-> TRUE,
            lines |-> <<Activation(s1, 2, Missing)>>],
     t |-> [source |-> "airtel-activation", date |-> 1, headers |-> TRUE,
            lines |-> <<Activation(s1, 1, Missing), Activation(s1, 1, 7)>>],
     v |-> [source |-> "vendor", date |-> 1, headers |-> TRUE,
            lines |-> <<Vendor("loan", [loan_id |-> l1]), Vendor(Bad, [id |-> l1]),
                        Vendor("recovery", [recovery_id |-> r1])>>],
     r |-> [source |-> "refill", date |-> 1, headers |-> TRUE,
            lines |-> <<Line(s1, 1, -5), Line(s1, 1, 5)>>],
     d |-> [source |-> "sdp", date |-> 1, headers |-> FALSE,
            lines |-> <<Line(s1, 1, -5), Line(Missing, 1, 5)>>],
     x |-> [source |-> "refill", date |-> 1, headers |-> FALSE, lines |-> <<Line(s1, 1, 5)>>]]
MCTogether == {{"a", "b"}, {"t"}, {"v"}, {"r"}, {"d"}, {"x"}}
MCLogs == g1 :> [who |-> s1, at |-> 12, ref |-> Missing]
=============================================================================
