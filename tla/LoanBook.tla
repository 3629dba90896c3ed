------------------------------ MODULE LoanBook ------------------------------
(***************************************************************************)
(* The loan book of the admin backend: the LOANS, TRANSACTIONS, USERS and  *)
(* CREDIT_SCORE_HISTORY tables and every HTTP handler that writes them:    *)
(*                                                                         *)
(*   loans.service.ts         create, update, approve, reject, disburse,   *)
(*                            remove                                       *)
(*   mno.service.ts           processFulfillment, processRepayment         *)
(*   transactions.service.ts  createRepayment, reconcile                   *)
(*   credit-score.service.ts  awardPointsForRepayment (called by three of  *)
(*                            the above)                                   *)
(*                                                                         *)
(* No handler opens a database transaction or takes a lock.  Each one      *)
(* loads entities, changes the copies, and writes them back with           *)
(* repository.save, which overwrites the whole row (and re-inserts a row   *)
(* deleted meanwhile).  A call is therefore a small program: pc says where *)
(* it is, row and usr are its private copies of a loan and of a user, and  *)
(* every write is a step of its own, so that calls interleave between any  *)
(* two of their writes and between a read and the write that follows it.   *)
(* Consecutive reads with no write of the same call between them are one   *)
(* step.                                                                   *)
(*                                                                         *)
(* Left out: interest, due dates, names, telephone numbers and the Redis   *)
(* response caches (no write depends on them); transactions other than     *)
(* repayments (no handler creates one).                                    *)
(***************************************************************************)
EXTENDS Integers, FiniteSets, FiniteSetsExt

CONSTANTS
    Users,          \* USERS rows (nothing here creates or deletes one)
    Loans,          \* primary keys available to LOANS
    Txs,            \* primary keys available to TRANSACTIONS
    Calls,          \* HTTP handlers that can be in flight
    Refs,           \* transactionReference values of the mobile operator
    Amounts,        \* loan and repayment amounts the callers use
    Patches,        \* UpdateLoanDto bodies the callers use
    ReconcileTo,    \* statuses the callers reconcile a transaction to
    ReconcileAmounts,   \* corrected amounts of a reconciliation, NoAmount for none
    Ops,            \* endpoints the callers use
    MaxActive,      \* bound: handlers in flight at the same time
    MaxCalls,       \* bound: calls of a behaviour
    Faults,         \* TRUE: handlers die mid-way and the scoring may throw
    Live,           \* loans already disbursed in the initial state
    StartAmount,    \* ... and their amount
    StartLimit,     \* credit limit of a user at the start
    AutoLimit,      \* user.autoLimitEnabled
    FirstTimeAmount, LowAmount, HighAmount, HighScore,  \* credit_score.thresholds
    MaxScore,       \* credit_score.max_score
    FullPoints,     \* points of a repayment that settles the loan
    PartialPoints,  \* points of one that does not, when it earns any
    NoUser, NoLoan, NoTx, NoRow, Deleted, NoRef, NoAmount, NoStatus, NoBody

LoanStatus == {"PENDING", "APPROVED", "REJECTED", "DISBURSED", "REPAYING",
               "COMPLETED", "DEFAULTED"}

TransactionStatus == {"PENDING", "COMPLETED", "FAILED", "REFUNDED"}

RepaymentStatus == {"PENDING", "PARTIAL", "COMPLETED", "OVERDUE"}

\* A row of LOANS.  loanId is the n of LOAN-<year>-<n>.
LoanRow == [loanId : Nat, user : Users, status : LoanStatus, amount : Int,
            amountDue : Int, amountPaid : Int, outstandingAmount : Int]

\* A row of TRANSACTIONS.  number is the n of TXN-<year>-<n>, and 0 for the
\* random MNO-... identifiers.
TxRow == [number : Nat, loan : Loans, user : Users, amount : Int,
          status : TransactionStatus, reference : Refs \union {NoRef}]

UserRow == [creditScore : Int, creditLimit : Int, totalLoans : Nat,
            totalRepaid : Int, repaymentStatus : RepaymentStatus]

\* The fields of an UpdateLoanDto that matter here; absent is NoAmount/NoStatus.
Patch == [amount : Int \union {NoAmount}, paid : Int \union {NoAmount},
          status : LoanStatus \union {NoStatus}]

PCs == {"idle", "number", "insert", "count", "saveUser", "saveLoan", "pending",
        "delete", "mnoInsert", "txInsert", "load", "patch", "reread", "award",
        "awardLoan", "awardUser", "awardHistory", "recalc", "updNumber",
        "updInsert", "reload", "fallback", "apply"}

\* Every null is outside the type it stands beside, a caller only sends bodies
\* the DTOs accept, and a table has finitely many rows.
ASSUME BookAssumption ==
    /\ NoUser \notin Users /\ NoLoan \notin Loans /\ NoTx \notin Txs /\ NoRef \notin Refs
    /\ Deleted \notin LoanRow /\ NoRow # Deleted
    /\ NoRow \notin LoanRow /\ NoRow \notin TxRow /\ NoRow \notin UserRow
    /\ NoAmount \notin Int /\ NoStatus \notin LoanStatus /\ NoBody \notin Patch
    /\ Amounts \subseteq Nat \ {0}
    /\ Patches \subseteq Patch
    /\ ReconcileTo \subseteq TransactionStatus
    /\ ReconcileAmounts \subseteq Int \union {NoAmount}
    /\ Live \subseteq Loans /\ IsFiniteSet(Live) /\ StartAmount \in Nat \ {0}
    /\ {StartLimit, FirstTimeAmount, LowAmount, HighAmount, HighScore,
        MaxScore, FullPoints, PartialPoints} \subseteq Nat
    /\ AutoLimit \in BOOLEAN /\ Faults \in BOOLEAN
    /\ MaxActive \in Nat /\ MaxCalls \in Nat

VARIABLES
    loan,       \* LOANS by primary key; a key is never used again once Deleted
    tx,         \* TRANSACTIONS by primary key
    user,       \* USERS
    history,    \* CREDIT_SCORE_HISTORY: rows and points recorded per transaction
    pc, next,   \* where a call is, and where it goes after the current sub-task
    arg,        \* its loan, transaction, number and request body
    row, usr,   \* its copies of a loan and of a user
    credited,   \* the copy of the loan awardPointsForRepayment works on
    calls       \* calls made so far

tables == <<loan, tx, user, history>>
locals == <<pc, next, arg, row, usr, credited>>
vars == <<loan, tx, user, history, pc, next, arg, row, usr, credited, calls>>

\* What a call works on: a user, a loan, a transaction, the number it drew for
\* a new row, an amount, and the rest of the request body.
Arg(u, l, t, n, a, b) == [u |-> u, l |-> l, t |-> t, n |-> n, a |-> a, b |-> b]

-----------------------------------------------------------------------------
\* Queries.

Rows == {l \in Loans : loan[l] \notin {NoRow, Deleted}}
TxRows == {t \in Txs : tx[t] # NoRow}
LoansOf(u) == {l \in Rows : loan[l].user = u}
RepaymentsOf(l) == {t \in TxRows : tx[t].loan = l}

\* The debt the credit limit is compared with: loans merely requested or
\* approved do not count.
activeLoanStatuses == {"DISBURSED", "REPAYING", "DEFAULTED"}

totalOutstanding(u) ==
    LET active == {l \in LoansOf(u) : loan[l].status \in activeLoanStatuses}
    IN  MapThenSumSet(LAMBDA l : loan[l].outstandingAmount, active)

AmountOf(S) == MapThenSumSet(LAMBDA t : tx[t].amount, S)

Completed(S) == {t \in S : tx[t].status = "COMPLETED"}

generateLoanId == Cardinality(Rows) + 1

\* mutant: the operator's own identifiers are counted too.
generateTransactionId_all == Cardinality(TxRows) + 1

generateTransactionId == Cardinality({t \in TxRows : tx[t].number # 0}) + 1

-----------------------------------------------------------------------------
\* Control.

\* Where a call is, where it goes next, and what it holds.
At(r, p, nx, a, lr, ur) ==
    /\ pc' = [pc EXCEPT ![r] = p]
    /\ next' = [next EXCEPT ![r] = nx]
    /\ arg' = [arg EXCEPT ![r] = a]
    /\ row' = [row EXCEPT ![r] = lr]
    /\ usr' = [usr EXCEPT ![r] = ur]

Finish(r) ==
    /\ At(r, "idle", "idle", Arg(NoUser, NoLoan, NoTx, 0, 0, NoBody), NoRow, NoRow)
    /\ credited' = [credited EXCEPT ![r] = NoRow]

\* The same call goes on at p.
Goto(r, p) ==
    /\ At(r, p, next[r], arg[r], row[r], usr[r])
    /\ UNCHANGED credited

\* The sub-task is over: go where its caller continues.
Proceed(r) ==
    IF next[r] = "idle" THEN Finish(r)
    ELSE /\ At(r, next[r], "idle", arg[r], row[r], NoRow)
         /\ credited' = [credited EXCEPT ![r] = NoRow]

\* A request reaches endpoint op.
Request(r, op) ==
    /\ op \in Ops
    /\ pc[r] = "idle"
    /\ Cardinality({c \in Calls : pc[c] # "idle"}) < MaxActive
    /\ calls < MaxCalls
    /\ calls' = calls + 1

\* The first step of a handler: it has loaded what it needs and written nothing.
Start(r, p, nx, a, lr) ==
    /\ At(r, p, nx, a, lr, NoRow)
    /\ UNCHANGED <<loan, tx, user, history, credited>>

-----------------------------------------------------------------------------
\* loans.service.ts, create and remove.

create(r, u, amount) ==
    /\ Request(r, "create")
    /\ amount <= user[u].creditLimit
    /\ totalOutstanding(u) + amount <= user[u].creditLimit
    /\ Start(r, "number", "idle", Arg(u, NoLoan, NoTx, 0, amount, NoBody), NoRow)

createNumber(r) ==
    /\ pc[r] = "number"
    /\ At(r, "insert", "idle",
          Arg(arg[r].u, NoLoan, NoTx, generateLoanId, arg[r].a, NoBody), NoRow, NoRow)
    /\ UNCHANGED <<loan, tx, user, history, credited, calls>>

\* A loanId already taken violates the unique index: the caller gets a 400.
createInsert(r) ==
    /\ pc[r] = "insert"
    /\ UNCHANGED <<tx, user, history, calls>>
    /\ \/ /\ \E l \in Rows : loan[l].loanId = arg[r].n
          /\ Finish(r)
          /\ UNCHANGED loan
       \/ /\ \A l \in Rows : loan[l].loanId # arg[r].n
          /\ \E l \in {k \in Loans : loan[k] = NoRow} :
                loan' = [loan EXCEPT ![l] =
                    [loanId |-> arg[r].n, user |-> arg[r].u, status |-> "PENDING",
                     amount |-> arg[r].a, amountDue |-> arg[r].a, amountPaid |-> 0,
                     outstandingAmount |-> arg[r].a]]
          /\ Goto(r, "count")

\* A fresh copy of user u with these three columns replaced.
UserWith(u, loans, repaid, status) ==
    [creditScore |-> user[u].creditScore, creditLimit |-> user[u].creditLimit,
     totalLoans |-> loans, totalRepaid |-> repaid, repaymentStatus |-> status]

\* totalLoans is recounted into a fresh copy of the user ...
countLoans(r) ==
    LET u == arg[r].u
    IN  /\ pc[r] = "count"
        /\ At(r, "saveUser", "idle", arg[r], row[r],
              UserWith(u, Cardinality(LoansOf(u)), user[u].totalRepaid,
                       user[u].repaymentStatus))
        /\ UNCHANGED <<loan, tx, user, history, credited, calls>>

\* ... and the copy is saved over the row.
saveUser(r) ==
    /\ pc[r] = "saveUser"
    /\ user' = [user EXCEPT ![arg[r].u] = usr[r]]
    /\ Proceed(r)
    /\ UNCHANGED <<loan, tx, history, calls>>

remove(r, l) ==
    /\ Request(r, "remove")
    /\ l \in Rows
    /\ Start(r, "delete", "idle", Arg(loan[l].user, l, NoTx, 0, 0, NoBody), NoRow)

\* mutant: the loans are not recounted after the deletion.
removeDelete_notRecounted(r) ==
    /\ pc[r] = "delete"
    /\ UNCHANGED <<tx, user, history, calls>>
    /\ \/ RepaymentsOf(arg[r].l) # {} /\ UNCHANGED loan
       \/ /\ RepaymentsOf(arg[r].l) = {}
          /\ loan' = [loan EXCEPT ![arg[r].l] = Deleted]
    /\ Finish(r)

\* A transaction that refers to the loan makes the foreign key refuse the
\* DELETE, and the handler throws.
removeDelete(r) ==
    /\ pc[r] = "delete"
    /\ UNCHANGED <<tx, user, history, calls>>
    /\ \/ RepaymentsOf(arg[r].l) # {} /\ Finish(r) /\ UNCHANGED loan
       \/ /\ RepaymentsOf(arg[r].l) = {}
          /\ loan' = [loan EXCEPT ![arg[r].l] = Deleted]
          /\ Goto(r, "count")

-----------------------------------------------------------------------------
\* loans.service.ts approve, reject and disburse; mno.service.ts fulfillment.

\* The handler loaded loan l and set its status.
StartSave(r, l, status, nx) ==
    Start(r, "saveLoan", nx, Arg(loan[l].user, l, NoTx, 0, 0, NoBody),
          [loanId |-> loan[l].loanId, user |-> loan[l].user, status |-> status,
           amount |-> loan[l].amount, amountDue |-> loan[l].amountDue,
           amountPaid |-> loan[l].amountPaid,
           outstandingAmount |-> loan[l].outstandingAmount])

\* loanRepository.save: the copy replaces the row, whatever that holds by now.
saveLoan(r) ==
    /\ pc[r] = "saveLoan"
    /\ loan' = [loan EXCEPT ![arg[r].l] = row[r]]
    /\ Proceed(r)
    /\ UNCHANGED <<tx, user, history, calls>>

\* mutant: the status is not checked.
approve_unchecked(r, l) ==
    /\ Request(r, "approve")
    /\ l \in Rows
    /\ StartSave(r, l, "APPROVED", "idle")

approve(r, l) ==
    /\ Request(r, "approve")
    /\ l \in Rows /\ loan[l].status = "PENDING"
    /\ StartSave(r, l, "APPROVED", "idle")

reject(r, l) ==
    /\ Request(r, "reject")
    /\ l \in Rows /\ loan[l].status = "PENDING"
    /\ StartSave(r, l, "REJECTED", "idle")

disburse(r, l) ==
    /\ Request(r, "disburse")
    /\ l \in Rows /\ loan[l].status = "APPROVED"
    /\ StartSave(r, l, "DISBURSED", "pending")

disburseUser(r) ==
    LET u == arg[r].u
    IN  /\ pc[r] = "pending"
        /\ At(r, "saveUser", "idle", arg[r], row[r],
              UserWith(u, user[u].totalLoans, user[u].totalRepaid, "PENDING"))
        /\ UNCHANGED <<loan, tx, user, history, credited, calls>>

\* The operator may report a loan nobody approved as disbursed.
processFulfillment(r, l) ==
    /\ Request(r, "fulfil")
    /\ l \in Rows /\ loan[l].status \in {"PENDING", "APPROVED"}
    /\ StartSave(r, l, "DISBURSED", "idle")

-----------------------------------------------------------------------------
\* credit-score.service.ts, awardPointsForRepayment.

\* The loan after amount more has been paid: amountPaid is clamped to amountDue.
creditLoan(lr, amount) ==
    LET paid == IF lr.amountPaid + amount <= lr.amountDue
                THEN lr.amountPaid + amount ELSE lr.amountDue
        out == lr.amountDue - paid
    IN  [loanId |-> lr.loanId, user |-> lr.user,
         status |-> IF out <= 0 THEN "COMPLETED"
                    ELSE IF lr.status = "DISBURSED" THEN "REPAYING" ELSE lr.status,
         amount |-> lr.amount, amountDue |-> lr.amountDue,
         amountPaid |-> paid, outstandingAmount |-> out]

\* Loads the transaction, the loan, the user and the history.  A transaction
\* with a history row has been processed already; one that is no longer
\* completed makes the service throw (awardThrows).
award(r) ==
    LET t == arg[r].t
        l == tx[t].loan
        u == tx[t].user
        after == creditLoan(loan[l], tx[t].amount)
    IN  /\ pc[r] = "award"
        /\ tx[t].status = "COMPLETED" /\ l \in Rows
        /\ \/ history[t].rows > 0 /\ Proceed(r)
           \/ /\ history[t].rows = 0
              /\ At(r, "awardLoan", next[r], arg[r], row[r],
                    UserWith(u, user[u].totalLoans, user[u].totalRepaid + tx[t].amount,
                             IF after.outstandingAmount <= 0 THEN "COMPLETED"
                             ELSE IF after.amountPaid > 0 THEN "PARTIAL"
                             ELSE user[u].repaymentStatus))
              /\ credited' = [credited EXCEPT ![r] = after]
        /\ UNCHANGED <<loan, tx, user, history, calls>>

awardLoan(r) ==
    /\ pc[r] = "awardLoan"
    /\ loan' = [loan EXCEPT ![tx[arg[r].t].loan] = credited[r]]
    /\ Goto(r, "awardUser")
    /\ UNCHANGED <<tx, user, history, calls>>

\* What calculatePointsForRepayment can return: a repayment that settles the
\* loan always earns points, a partial one may fall below the minimum.
Points(settled) == IF settled THEN {FullPoints} ELSE {0, PartialPoints}

\* calculateEligibleLoanAmountFromScore reads totalLoans from the table.
EligibleAmount(u, score) ==
    IF user[u].totalLoans = 0 THEN FirstTimeAmount
    ELSE IF score >= HighScore THEN HighAmount ELSE LowAmount

\* Without points the user is saved and the service returns: no history row.
awardUser(r) ==
    LET u == tx[arg[r].t].user
        copy == usr[r]
    IN  /\ pc[r] = "awardUser"
        /\ \E points \in Points(credited[r].outstandingAmount <= 0) :
              LET sum == copy.creditScore + points
                  score == IF sum > MaxScore THEN MaxScore ELSE sum
              IN  IF points <= 0
                  THEN /\ user' = [user EXCEPT ![u] = copy]
                       /\ Proceed(r)
                  ELSE /\ user' = [user EXCEPT ![u] =
                              [creditScore |-> score,
                               creditLimit |-> IF AutoLimit THEN EligibleAmount(u, score)
                                               ELSE copy.creditLimit,
                               totalLoans |-> copy.totalLoans,
                               totalRepaid |-> copy.totalRepaid,
                               repaymentStatus |-> copy.repaymentStatus]]
                       /\ At(r, "awardHistory", next[r],
                             Arg(arg[r].u, arg[r].l, arg[r].t, points, arg[r].a, arg[r].b),
                             row[r], usr[r])
                       /\ UNCHANGED credited
        /\ UNCHANGED <<loan, tx, history, calls>>

\* mutant: only the first award of a loan is recorded.
awardHistory_firstOfLoan(r) ==
    LET t == arg[r].t
        recorded == \E s \in RepaymentsOf(tx[t].loan) : history[s].rows > 0
    IN  /\ pc[r] = "awardHistory"
        /\ history' = IF recorded THEN history
                      ELSE [history EXCEPT ![t] = [rows |-> 1, points |-> arg[r].n]]
        /\ Proceed(r)
        /\ UNCHANGED <<loan, tx, user, calls>>

awardHistory(r) ==
    LET t == arg[r].t
    IN  /\ pc[r] = "awardHistory"
        /\ history' = [history EXCEPT ![t] = [rows |-> history[t].rows + 1,
                                              points |-> history[t].points + arg[r].n]]
        /\ Proceed(r)
        /\ UNCHANGED <<loan, tx, user, calls>>

\* The service throws: the transaction is no longer completed, or (Faults) the
\* database fails before one of its steps.  The operator's handler and
\* reconcile log it and go on, update falls back to totalRepaid.
awardThrows(r) ==
    /\ pc[r] \in {"award", "awardLoan", "awardUser", "awardHistory"}
    /\ Faults \/ (pc[r] = "award" /\ tx[arg[r].t].status # "COMPLETED")
    /\ IF next[r] = "reload"
       THEN /\ At(r, "fallback", "idle", arg[r], row[r], NoRow)
            /\ credited' = [credited EXCEPT ![r] = NoRow]
       ELSE Proceed(r)
    /\ UNCHANGED <<loan, tx, user, history, calls>>

-----------------------------------------------------------------------------
\* mno.service.ts, processRepayment.

\* A transaction row for a repayment of loan l.
Repayment(number, l, u, amount, status, ref) ==
    [number |-> number, loan |-> l, user |-> u, amount |-> amount,
     status |-> status, reference |-> ref]

\* mutant: a repeated reference is only recognised on the same loan.
processRepayment_perLoan(r, l, amount, ref) ==
    /\ Request(r, "repay")
    /\ l \in Rows /\ loan[l].status \in {"DISBURSED", "REPAYING"}
    /\ amount <= loan[l].outstandingAmount
    /\ ref # NoRef => \A t \in RepaymentsOf(l) : tx[t].reference # ref
    /\ Start(r, "mnoInsert", "idle", Arg(loan[l].user, l, NoTx, 0, amount, ref),
             creditLoan(loan[l], amount))

\* A reference seen before is answered "already processed" and changes nothing.
processRepayment(r, l, amount, ref) ==
    /\ Request(r, "repay")
    /\ l \in Rows /\ loan[l].status \in {"DISBURSED", "REPAYING"}
    /\ amount <= loan[l].outstandingAmount
    /\ ref # NoRef => \A t \in TxRows : tx[t].reference # ref
    /\ LET out == loan[l].outstandingAmount - amount
       IN  Start(r, "mnoInsert", "idle",
                 Arg(loan[l].user, l, NoTx, 0, amount, ref),
                 [loanId |-> loan[l].loanId, user |-> loan[l].user,
                  status |-> IF out <= 0 THEN "COMPLETED" ELSE "REPAYING",
                  amount |-> loan[l].amount, amountDue |-> loan[l].amountDue,
                  amountPaid |-> loan[l].amountPaid + amount,
                  outstandingAmount |-> out])

\* The loan is saved with the repayment and then handed to the scoring.
repaymentInsert(r) ==
    /\ pc[r] = "mnoInsert"
    /\ \E t \in Txs \ TxRows :
          /\ tx' = [tx EXCEPT ![t] = Repayment(0, arg[r].l, arg[r].u, arg[r].a,
                                               "COMPLETED", arg[r].b)]
          /\ At(r, "saveLoan", "award",
                Arg(arg[r].u, arg[r].l, t, 0, arg[r].a, NoBody), row[r], NoRow)
    /\ UNCHANGED <<loan, user, history, credited, calls>>

-----------------------------------------------------------------------------
\* transactions.service.ts, createRepayment and reconcile.

\* Whatever the status of the loan: only amounts are checked.
createRepayment(r, l, amount) ==
    /\ Request(r, "repayment")
    /\ l \in Rows
    /\ amount <= loan[l].outstandingAmount
    /\ AmountOf({t \in RepaymentsOf(l) : tx[t].status \in {"COMPLETED", "PENDING"}})
          + amount <= loan[l].amountDue
    /\ Start(r, "txInsert", "idle",
             Arg(loan[l].user, l, NoTx, generateTransactionId, amount, NoBody), NoRow)

\* A transactionId already taken violates the unique index: the caller gets a
\* 500.  Otherwise the new row is reconciled as completed by the same call.
repaymentPending(r) ==
    /\ pc[r] = "txInsert"
    /\ \/ /\ \E t \in TxRows : tx[t].number = arg[r].n
          /\ Finish(r)
          /\ UNCHANGED tx
       \/ /\ \A t \in TxRows : tx[t].number # arg[r].n
          /\ \E t \in Txs \ TxRows :
                /\ tx' = [tx EXCEPT ![t] = Repayment(arg[r].n, arg[r].l, arg[r].u,
                                                     arg[r].a, "PENDING", NoRef)]
                /\ At(r, "load", "idle",
                      Arg(arg[r].u, arg[r].l, t, 0, arg[r].a, "COMPLETED"), NoRow, NoRow)
          /\ UNCHANGED credited
    /\ UNCHANGED <<loan, user, history, calls>>

\* A reconciliation loads the transaction.  One that finds it completed does no
\* more than patch the row: n is 0 for it.
Reconciling(r, t, status, amount) ==
    At(r, "patch", "idle",
       Arg(tx[t].user, tx[t].loan, t,
           IF tx[t].status # "COMPLETED" THEN 1 ELSE 0,
           IF amount = NoAmount THEN tx[t].amount ELSE amount, status), NoRow, NoRow)

reconcile(r, t, status, amount) ==
    /\ Request(r, "reconcile")
    /\ t \in TxRows
    /\ Reconciling(r, t, status, amount)
    /\ UNCHANGED <<loan, tx, user, history, credited>>

repaymentReconcile(r) ==
    /\ pc[r] = "load"
    /\ Reconciling(r, arg[r].t, arg[r].b, arg[r].a)
    /\ UNCHANGED <<loan, tx, user, history, credited, calls>>

reconcilePatch(r) ==
    LET t == arg[r].t
    IN  /\ pc[r] = "patch"
        /\ tx' = [tx EXCEPT ![t] = Repayment(tx[t].number, tx[t].loan, tx[t].user,
                                             arg[r].a, arg[r].b, tx[t].reference)]
        /\ IF arg[r].n = 1 THEN Goto(r, "reread") ELSE Finish(r)
        /\ UNCHANGED <<loan, user, history, calls>>

\* The patched row is loaded again.  Points are awarded if this call completed
\* it, and totalRepaid is recalculated if it is completed, by whichever call.
reconcileReread(r) ==
    LET completed == tx[arg[r].t].status = "COMPLETED"
    IN  /\ pc[r] = "reread"
        /\ \/ /\ arg[r].b = "COMPLETED"
              /\ At(r, "award", IF completed THEN "recalc" ELSE "idle",
                    arg[r], NoRow, NoRow)
              /\ UNCHANGED credited
           \/ arg[r].b # "COMPLETED" /\ completed /\ Goto(r, "recalc")
           \/ arg[r].b # "COMPLETED" /\ ~completed /\ Finish(r)
        /\ UNCHANGED <<loan, tx, user, history, calls>>

recalculateTotalRepaid(r) ==
    LET u == arg[r].u
    IN  /\ pc[r] = "recalc"
        /\ At(r, "saveUser", "idle", arg[r], row[r],
              UserWith(u, user[u].totalLoans,
                       AmountOf(Completed({t \in TxRows : tx[t].user = u})),
                       user[u].repaymentStatus))
        /\ UNCHANGED <<loan, tx, user, history, credited, calls>>

-----------------------------------------------------------------------------
\* loans.service.ts, update.

\* A new amount restates what is due and what is outstanding.  (A new interest
\* rate does the same with the amount the loan has.)
Restated(lr, p) ==
    IF p.amount = NoAmount THEN lr
    ELSE [loanId |-> lr.loanId, user |-> lr.user, status |-> lr.status,
          amount |-> lr.amount, amountDue |-> p.amount,
          amountPaid |-> lr.amountPaid, outstandingAmount |-> p.amount - lr.amountPaid]

\* What the patch adds to the amount paid, as the call sees it.
Increase(lr, p) == IF p.paid = NoAmount THEN 0 ELSE p.paid - lr.amountPaid

update(r, l, p) ==
    /\ Request(r, "update")
    /\ l \in Rows
    /\ Start(r, IF Increase(loan[l], p) > 0 THEN "updNumber" ELSE "apply", "idle",
             Arg(loan[l].user, l, NoTx, 0, 0, p), Restated(loan[l], p))

updateNumber(r) ==
    /\ pc[r] = "updNumber"
    /\ At(r, "updInsert", "idle",
          Arg(arg[r].u, arg[r].l, NoTx, generateTransactionId, 0, arg[r].b), row[r], NoRow)
    /\ UNCHANGED <<loan, tx, user, history, credited, calls>>

\* A transactionId already taken is logged and the update goes on without a
\* transaction; otherwise the new repayment is handed to the scoring.
updateInsert(r) ==
    /\ pc[r] = "updInsert"
    /\ \/ /\ \E t \in TxRows : tx[t].number = arg[r].n
          /\ Goto(r, "apply")
          /\ UNCHANGED tx
       \/ /\ \A t \in TxRows : tx[t].number # arg[r].n
          /\ \E t \in Txs \ TxRows :
                /\ tx' = [tx EXCEPT ![t] =
                      Repayment(arg[r].n, arg[r].l, arg[r].u,
                                Increase(row[r], arg[r].b), "COMPLETED", NoRef)]
                /\ At(r, "award", "reload",
                      Arg(arg[r].u, arg[r].l, t, 0, 0, arg[r].b), row[r], NoRow)
          /\ UNCHANGED credited
    /\ UNCHANGED <<loan, user, history, calls>>

\* What the scoring service wrote is copied into the row the call holds.
updateReload(r) ==
    LET now == loan[arg[r].l]
    IN  /\ pc[r] = "reload"
        /\ At(r, "apply", "idle", arg[r],
              IF arg[r].l \notin Rows THEN row[r]
              ELSE [loanId |-> row[r].loanId, user |-> row[r].user,
                    status |-> now.status, amount |-> row[r].amount,
                    amountDue |-> row[r].amountDue, amountPaid |-> now.amountPaid,
                    outstandingAmount |-> now.outstandingAmount], NoRow)
        /\ UNCHANGED <<loan, tx, user, history, credited, calls>>

\* The scoring service threw: totalRepaid is added here instead.
updateFallback(r) ==
    LET u == arg[r].u
    IN  /\ pc[r] = "fallback"
        /\ At(r, "saveUser", "apply", arg[r], row[r],
              UserWith(u, user[u].totalLoans,
                       user[u].totalRepaid + Increase(row[r], arg[r].b),
                       user[u].repaymentStatus))
        /\ UNCHANGED <<loan, tx, user, history, credited, calls>>

\* mutant: the outstanding amount is left as it was loaded.
Patched_outstandingKept(lr, p) ==
    [loanId |-> lr.loanId, user |-> lr.user,
     status |-> IF p.status = NoStatus THEN lr.status ELSE p.status,
     amount |-> IF p.amount = NoAmount THEN lr.amount ELSE p.amount,
     amountDue |-> lr.amountDue,
     amountPaid |-> IF p.paid = NoAmount THEN lr.amountPaid ELSE p.paid,
     outstandingAmount |-> lr.outstandingAmount]

\* The body is assigned over the row; the outstanding amount and the status
\* follow the amount paid only when the body has one.
Patched(lr, p) ==
    LET paid == IF p.paid = NoAmount THEN lr.amountPaid ELSE p.paid
        status == IF p.status = NoStatus THEN lr.status ELSE p.status
        out == IF p.paid = NoAmount THEN lr.outstandingAmount ELSE lr.amountDue - paid
    IN  [loanId |-> lr.loanId, user |-> lr.user,
         status |-> IF p.paid = NoAmount THEN status
                    ELSE IF out <= 0 THEN "COMPLETED"
                    ELSE IF status = "DISBURSED" /\ paid > 0 THEN "REPAYING"
                    ELSE status,
         amount |-> IF p.amount = NoAmount THEN lr.amount ELSE p.amount,
         amountDue |-> lr.amountDue, amountPaid |-> paid, outstandingAmount |-> out]

updateApply(r) ==
    /\ pc[r] = "apply"
    /\ loan' = [loan EXCEPT ![arg[r].l] = Patched(row[r], arg[r].b)]
    /\ Finish(r)
    /\ UNCHANGED <<tx, user, history, calls>>

-----------------------------------------------------------------------------
\* The process dies under the call: nothing it wrote is undone.
Crash(r) ==
    /\ Faults
    /\ pc[r] # "idle"
    /\ Finish(r)
    /\ UNCHANGED <<loan, tx, user, history, calls>>

Init ==
    /\ \E number \in [Live -> 1..Cardinality(Live)] :
          /\ \A l, k \in Live : number[l] = number[k] => l = k
          /\ \E owner \in [Live -> Users] :
                /\ loan = [l \in Loans |-> IF l \notin Live THEN NoRow ELSE
                      [loanId |-> number[l], user |-> owner[l], status |-> "DISBURSED",
                       amount |-> StartAmount, amountDue |-> StartAmount,
                       amountPaid |-> 0, outstandingAmount |-> StartAmount]]
                /\ user = [u \in Users |->
                      [creditScore |-> 0, creditLimit |-> StartLimit,
                       totalLoans |-> Cardinality({l \in Live : owner[l] = u}),
                       totalRepaid |-> 0,
                       repaymentStatus |-> "PENDING"]]
    /\ tx = [t \in Txs |-> NoRow]
    /\ history = [t \in Txs |-> [rows |-> 0, points |-> 0]]
    /\ pc = [r \in Calls |-> "idle"]
    /\ next = [r \in Calls |-> "idle"]
    /\ arg = [r \in Calls |-> Arg(NoUser, NoLoan, NoTx, 0, 0, NoBody)]
    /\ row = [r \in Calls |-> NoRow]
    /\ usr = [r \in Calls |-> NoRow]
    /\ credited = [r \in Calls |-> NoRow]
    /\ calls = 0

\* The calls that arrive ...
Arrive(r) ==
    \/ \E u \in Users, amount \in Amounts : create(r, u, amount)
    \/ \E l \in Loans :
          \/ remove(r, l) \/ approve(r, l) \/ reject(r, l)
          \/ disburse(r, l) \/ processFulfillment(r, l)
          \/ \E p \in Patches : update(r, l, p)
          \/ \E amount \in Amounts : createRepayment(r, l, amount)
          \/ \E amount \in Amounts, ref \in Refs \union {NoRef} :
                processRepayment(r, l, amount, ref)
    \/ \E t \in Txs, status \in ReconcileTo, amount \in ReconcileAmounts :
          reconcile(r, t, status, amount)

\* ... and the steps they take.
Step(r) ==
    \/ createNumber(r) \/ createInsert(r) \/ countLoans(r) \/ saveUser(r)
    \/ removeDelete(r) \/ saveLoan(r) \/ disburseUser(r)
    \/ award(r) \/ awardLoan(r) \/ awardUser(r) \/ awardHistory(r) \/ awardThrows(r)
    \/ repaymentInsert(r) \/ repaymentPending(r) \/ repaymentReconcile(r)
    \/ reconcilePatch(r) \/ reconcileReread(r) \/ recalculateTotalRepaid(r)
    \/ updateNumber(r) \/ updateInsert(r) \/ updateReload(r) \/ updateFallback(r)
    \/ updateApply(r)

Next == \E r \in Calls : Arrive(r) \/ Step(r) \/ Crash(r)

Spec == Init /\ [][Next]_vars

-----------------------------------------------------------------------------
\* Properties.

\* Every table and every private copy holds what its columns can hold.
TypeOK ==
    /\ loan \in [Loans -> LoanRow \union {NoRow, Deleted}]
    /\ tx \in [Txs -> TxRow \union {NoRow}]
    /\ user \in [Users -> UserRow]
    /\ history \in [Txs -> [rows : Nat, points : Nat]]
    /\ pc \in [Calls -> PCs] /\ next \in [Calls -> PCs]
    /\ \A r \in Calls :
          /\ arg[r].u \in Users \union {NoUser} /\ arg[r].l \in Loans \union {NoLoan}
          /\ arg[r].t \in Txs \union {NoTx} /\ arg[r].n \in Nat /\ arg[r].a \in Int
    /\ row \in [Calls -> LoanRow \union {NoRow}]
    /\ usr \in [Calls -> UserRow \union {NoRow}]
    /\ credited \in [Calls -> LoanRow \union {NoRow}]
    /\ calls \in 0..MaxCalls

Quiet == \A r \in Calls : pc[r] = "idle"

Balanced(lr) == lr.outstandingAmount = lr.amountDue - lr.amountPaid

\* Five handlers compute amountPaid and outstandingAmount, each with a formula of
\* its own, from copies that may be stale and may mix columns read at different
\* times (update reloads three of them).  Whatever the interleaving, and wherever
\* a handler dies, no row is left whose outstanding amount is not what is due
\* less what is paid.
BooksBalance == \A l \in Rows : Balanced(loan[l])

\* Two handlers number their transactions by counting the rows, without a lock.
\* The unique index makes one of two racing calls fail, so the numbers stay
\* 1, 2, ... with no gap: the number the next call draws is always free, and a
\* failed call never makes the later ones fail.
TransactionNumbersDense ==
    LET numbered == {t \in TxRows : tx[t].number # 0}
    IN  {tx[t].number : t \in numbered} = 1..Cardinality(numbered)

\* What a loan may become: only approve, reject, disbursement, repayment and
\* settlement, in that order.  A repayment entered by an administrator settles a
\* loan whatever its status.
MayBecome(old, new) ==
    \/ new = "COMPLETED"
    \/ old = "PENDING" /\ new \in {"APPROVED", "REJECTED", "DISBURSED"}
    \/ old = "APPROVED" /\ new = "DISBURSED"
    \/ old = "DISBURSED" /\ new = "REPAYING"

\* Over any sequence of calls that do not overlap, no loan goes back to an
\* earlier stage, and a rejected one is never approved or disbursed.
StatusForward ==
    [][\A l \in Rows : l \in Rows' =>
          loan'[l].status = loan[l].status \/ MayBecome(loan[l].status, loan'[l].status)]_vars

\* Over any sequence of calls that do not overlap, the totals kept in USERS agree
\* with the tables they summarise: totalLoans with the loans that exist, and
\* totalRepaid, unless a repayment has been taken back, with the repayments
\* completed, through all the ways a repayment is booked.
TotalsAgree ==
    Quiet => \A u \in Users :
        LET mine == {t \in TxRows : tx[t].user = u}
        IN  /\ user[u].totalLoans = Cardinality(LoansOf(u))
            /\ Completed(mine) = mine => user[u].totalRepaid = AmountOf(mine)

\* Over any sequence of calls that do not overlap, the credit score is the points
\* in CREDIT_SCORE_HISTORY, up to the maximum score: no award is missing from the
\* history, and a transaction earns points once, even when it is taken back and
\* completed again.
ScoreExplained ==
    /\ \A t \in Txs : history[t].rows <= 1
    /\ Quiet => \A u \in Users :
        LET earned == MapThenSumSet(LAMBDA t : history[t].points,
                                    {t \in TxRows : tx[t].user = u})
        IN  user[u].creditScore = IF earned > MaxScore THEN MaxScore ELSE earned

\* Over any sequence of calls that do not overlap, a reference the operator sends
\* again makes no second transaction, even once the loan has changed since.
OneTransactionPerReference ==
    \A t, s \in TxRows :
        tx[t].reference # NoRef /\ tx[t].reference = tx[s].reference => t = s

====
