--------------------------- MODULE MC_CsdpLedger ---------------------------
(* Small instances of CsdpLedger for TLC.                                  *)
EXTENDS CsdpLedger, TLC

CONSTANTS l1, l2, s1, r1, r2

\* One subscriber with every loan, one or two recoveries.
MCOwner == [l \in Loans |-> s1]
MCPayer == [r \in Recoveries |-> s1]
MCRepayable == [l \in Loans |-> 2]
MCSumRepayable == [S \in SUBSET Loans |-> MapThenSumSet(LAMBDA l : MCRepayable[l], S)]

\* r1 repays l1 only, in full.
ItemsOne == [r \in Recoveries |-> <<l1>>]
AppliedFull == [r \in Recoveries |-> [l \in Loans |-> 2]]

\* r1 repays l1 then l2, r2 the other way round.
ItemsCrossed == [r \in Recoveries |-> IF r = r1 THEN <<l1, l2>> ELSE <<l2, l1>>]

\* csdp_cdr_refill after the repository's migrations, and with the column the
\* materializer's statement names.
MigratedColumns == {"id", "batch_id", "msisdn", "event_at", "amount_naira", "service_class",
                    "raw", "created_at"}
NamedColumns == MigratedColumns \cup {"refilled_at"}

WorkerSymmetry == Permutations(Workers)
=============================================================================
