---------------------------- MODULE MC_LoanBook ----------------------------
(* Instances of LoanBook for TLC. *)
EXTENDS LoanBook, TLC

CONSTANTS u1, u2, l1, l2, l3, l4, t1, t2, t3, t4, c1, c2, c3, ref1

\* UpdateLoanDto bodies.
PatchOf(a, p, s) == [amount |-> a, paid |-> p, status |-> s]
PaidTo(n) == PatchOf(NoAmount, n, NoStatus)

\* The amount paid is raised, by the handler's own account.
RaisePatches == {PaidTo(2), PaidTo(4)}

\* It is lowered, raised past the amount due, and combined with a new amount;
\* an amount and a status alone.
AnyPatches == {PaidTo(0), PaidTo(3), PatchOf(3, 2, NoStatus),
               PatchOf(1, NoAmount, "DEFAULTED")}

\* Primary keys and handlers are interchangeable.
Sym == Permutations(Txs) \union Permutations(Calls) \union Permutations(Loans \ Live)
============================================================================
