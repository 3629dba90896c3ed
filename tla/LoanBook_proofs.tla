--------------------------- MODULE LoanBook_proofs ---------------------------
(***************************************************************************)
(* The theorems of LoanBook, for any number of users, loans, transactions  *)
(* and calls, and those of Scoring, which share its lemmas about sums.     *)
(*                                                                         *)
(*   TypeOK, BooksBalance, TransactionNumbersDense                         *)
(*                             any interleaving and any crash              *)
(*   OneTransactionPerReference                                            *)
(*                             calls that do not overlap                   *)
(*   StatusForward             the same, where no handler dies and no body *)
(*                             sets a status                               *)
(*   TotalsAgree, ScoreExplained                                           *)
(*                             the same, where no handler dies and no      *)
(*                             amount is corrected                         *)
(*                                                                         *)
(* None is inductive by itself: a step writes a private copy over a row,   *)
(* or uses a number or a lookup of an earlier step, so each invariant says *)
(* what a call holds at every place where it will still write.  The copy   *)
(* of update, which mixes columns of two reads, need not balance: Patched  *)
(* computes the outstanding amount again before the row is saved.  While a *)
(* repayment is booked the row of its user lacks what the call still has   *)
(* to write, and TallyInv says how much that is at each step.              *)
(*                                                                         *)
(*   NeverBeyondHeadroom, BetterRecordNeverHurts                           *)
(*                             any configuration without a negative        *)
(*                             amount or a divisor of 0, any curve that    *)
(*                             does not fall                               *)
(***************************************************************************)
EXTENDS LoanBook, Scoring, FiniteSetTheorems, WellFoundedInduction, TLAPS

AwardPCs == {"award", "awardLoan", "awardUser", "awardHistory"}

\* A loan whose amounts are integers and balance.
Sound(lr) ==
    /\ lr.amountDue \in Int /\ lr.amountPaid \in Int
    /\ Balanced(lr)

\* The call is inside update, in a sub-task of it included.
InUpdate(r) ==
    \/ pc[r] \in {"updNumber", "updInsert", "reload", "fallback", "apply"}
    \/ pc[r] \in AwardPCs /\ next[r] = "reload"
    \/ pc[r] = "saveUser" /\ next[r] = "apply"

Domains ==
    /\ DOMAIN loan = Loans /\ DOMAIN tx = Txs
    /\ DOMAIN pc = Calls /\ DOMAIN next = Calls /\ DOMAIN arg = Calls
    /\ DOMAIN row = Calls /\ DOMAIN credited = Calls

RowsSound == \A l \in Loans : loan[l] \notin {NoRow, Deleted} => Sound(loan[l])

AmountsInt == \A t \in Txs : tx[t] # NoRow => tx[t].amount \in Int

\* A sub-task is only entered from where the code calls it, and what a call
\* holds there is good enough for what it will write.
CallSound(r) ==
    /\ next[r] # "idle" =>
          \/ pc[r] = "saveLoan" /\ next[r] \in {"award", "pending"}
          \/ pc[r] \in AwardPCs /\ next[r] \in {"recalc", "reload"}
          \/ pc[r] = "saveUser" /\ next[r] = "apply"
    /\ pc[r] \in {"number", "insert", "mnoInsert", "txInsert", "load", "patch"}
          => arg[r].a \in Int
    /\ pc[r] \in AwardPCs \/ next[r] = "award"
          => arg[r].t \in Txs /\ tx[arg[r].t].amount \in Int
    /\ pc[r] \in {"load", "patch", "reread"} => arg[r].t \in Txs /\ tx[arg[r].t].amount \in Int
    /\ pc[r] \in {"saveLoan", "mnoInsert"} => Sound(row[r])
    /\ pc[r] = "awardLoan" => Sound(credited[r])
    /\ InUpdate(r) =>
          /\ arg[r].b \in Patch
          /\ row[r].amountDue \in Int /\ row[r].amountPaid \in Int
          /\ arg[r].b.paid = NoAmount => Sound(row[r]) /\ pc[r] = "apply"

CallsSound == \A r \in Calls : CallSound(r)

BookInv == Domains /\ RowsSound /\ AmountsInt /\ CallsSound

\* The loan the scoring service writes balances by the way it is computed.
LEMMA CreditedBalances ==
    ASSUME NEW lr, Sound(lr), NEW amount \in Int
    PROVE  Sound(creditLoan(lr, amount))
BY DEF Sound, Balanced, creditLoan

\* What update writes balances: recomputed when the body has an amount paid,
\* and as loaded when it has none.
LEMMA PatchedBalances ==
    ASSUME NEW lr, NEW p \in Patch, lr.amountDue \in Int, lr.amountPaid \in Int,
           p.paid = NoAmount => Sound(lr)
    PROVE  Sound(Patched(lr, p))
BY BookAssumption DEF Sound, Balanced, Patched, Patch

\* Initially the live loans have nothing paid and no call is in flight.
LEMMA InitBook == Init => BookInv
<1> SUFFICES ASSUME Init PROVE BookInv
    OBVIOUS
<1>1. Domains
    BY DEF Init, Domains
<1>2. RowsSound
    BY BookAssumption DEF Init, RowsSound, Sound, Balanced
<1>3. AmountsInt
    BY DEF Init, AmountsInt
<1>4. CallsSound
    BY DEF Init, CallsSound, CallSound, InUpdate, AwardPCs
<1> QED
    BY <1>1, <1>2, <1>3, <1>4 DEF BookInv

\* Only call r moves.
Moves(r) ==
    /\ DOMAIN pc' = Calls /\ DOMAIN next' = Calls /\ DOMAIN arg' = Calls
    /\ DOMAIN row' = Calls /\ DOMAIN credited' = Calls
    /\ \A s \in Calls \ {r} :
          /\ pc'[s] = pc[s] /\ next'[s] = next[s] /\ arg'[s] = arg[s]
          /\ row'[s] = row[s] /\ credited'[s] = credited[s]

\* A step of call r keeps the invariant if the tables and r itself stay sound: a
\* call that does not move keeps what it holds, as no transaction loses its amount.
LEMMA StepKeeps ==
    ASSUME BookInv, NEW r \in Calls, Moves(r),
           DOMAIN loan' = Loans, RowsSound', DOMAIN tx' = Txs, AmountsInt',
           \A t \in Txs : tx[t].amount \in Int => tx'[t].amount \in Int,
           CallSound(r)'
    PROVE  BookInv'
<1>1. ASSUME NEW s \in Calls, s # r
      PROVE  CallSound(s)'
    <2>1. /\ pc'[s] = pc[s] /\ next'[s] = next[s] /\ arg'[s] = arg[s]
          /\ row'[s] = row[s] /\ credited'[s] = credited[s]
        BY <1>1 DEF Moves
    <2>2. CallSound(s)
        BY DEF BookInv, CallsSound
    <2> QED
        BY <2>1, <2>2 DEF CallSound, InUpdate
<1>2. Domains'
    BY DEF Moves, Domains
<1> QED
    BY <1>1, <1>2 DEF BookInv, CallsSound

\* In particular when it leaves the loans and the transactions alone.
LEMMA LocalStepKeeps ==
    ASSUME BookInv, NEW r \in Calls, Moves(r), UNCHANGED <<loan, tx>>,
           CallSound(r)'
    PROVE  BookInv'
<1>1. RowsSound' /\ AmountsInt' /\ DOMAIN loan' = Loans /\ DOMAIN tx' = Txs
    BY DEF BookInv, Domains, RowsSound, AmountsInt
<1> QED
    BY <1>1, StepKeeps

\* At moves its call only.
LEMMA AtMoves ==
    ASSUME BookInv, NEW r \in Calls, NEW p, NEW nx, NEW a, NEW lr, NEW ur,
           At(r, p, nx, a, lr, ur), UNCHANGED credited
    PROVE  /\ Moves(r)
           /\ pc'[r] = p /\ next'[r] = nx /\ arg'[r] = a /\ row'[r] = lr
BY DEF BookInv, Domains, Moves, At

\* A call that ends holds nothing.
LEMMA FinishKeeps ==
    ASSUME BookInv, NEW r \in Calls, Finish(r)
    PROVE  Moves(r) /\ CallSound(r)'
<1>1. Moves(r) /\ pc'[r] = "idle" /\ next'[r] = "idle"
    BY DEF BookInv, Domains, Moves, At, Finish
<1> QED
    BY <1>1 DEF CallSound, InUpdate, AwardPCs

\* A call that leaves a sub-task holds what the caller of the sub-task needs.
LEMMA ProceedKeeps ==
    ASSUME BookInv, NEW r \in Calls, Proceed(r),
           pc[r] \in AwardPCs \union {"saveLoan", "saveUser"},
           \A t \in Txs : tx[t].amount \in Int => tx'[t].amount \in Int
    PROVE  Moves(r) /\ CallSound(r)'
<1>1. CASE next[r] = "idle"
    BY <1>1, FinishKeeps DEF Proceed
<1>2. CASE next[r] # "idle"
    <2>1. At(r, next[r], "idle", arg[r], row[r], NoRow) /\ credited' = [credited EXCEPT ![r] = NoRow]
        BY <1>2 DEF Proceed
    <2>2. /\ Moves(r)
          /\ pc'[r] = next[r] /\ next'[r] = "idle" /\ arg'[r] = arg[r] /\ row'[r] = row[r]
        BY <2>1 DEF BookInv, Domains, Moves, At
    <2>3. CallSound(r)
        BY DEF BookInv, CallsSound
    <2> QED
        BY <1>2, <2>2, <2>3 DEF CallSound, InUpdate, AwardPCs
<1> QED
    BY <1>1, <1>2

\* create holds an amount of a request.
LEMMA CreateKeeps ==
    ASSUME BookInv, NEW r \in Calls, NEW u \in Users, NEW amount \in Amounts,
           create(r, u, amount)
    PROVE  BookInv'
<1>1. Moves(r)
    BY DEF BookInv, Domains, Moves, At, create, Start
<1>2. CallSound(r)'
    BY BookAssumption DEF BookInv, Domains, CallsSound, At, CallSound, InUpdate, AwardPCs, Arg, create, Start
<1> QED
    BY <1>1, <1>2, LocalStepKeeps DEF create, Start

\* Counting changes nothing but the number the call holds.
LEMMA CreateNumberKeeps ==
    ASSUME BookInv, NEW r \in Calls, createNumber(r)
    PROVE  BookInv'
<1>1. Moves(r)
    BY DEF BookInv, Domains, Moves, At, createNumber
<1>2. CallSound(r)'
    BY DEF BookInv, Domains, CallsSound, At, CallSound, InUpdate, AwardPCs, Arg, createNumber
<1> QED
    BY <1>1, <1>2, LocalStepKeeps DEF createNumber

\* Recounting changes the copy of the user only.
LEMMA CountLoansKeeps ==
    ASSUME BookInv, NEW r \in Calls, countLoans(r)
    PROVE  BookInv'
<1>1. Moves(r)
    BY DEF BookInv, Domains, Moves, At, countLoans
<1>2. CallSound(r)'
    BY DEF BookInv, Domains, CallsSound, At, CallSound, InUpdate, AwardPCs, Arg, countLoans
<1> QED
    BY <1>1, <1>2, LocalStepKeeps DEF countLoans

\* So does the change of the repayment status.
LEMMA DisburseUserKeeps ==
    ASSUME BookInv, NEW r \in Calls, disburseUser(r)
    PROVE  BookInv'
<1>1. Moves(r)
    BY DEF BookInv, Domains, Moves, At, disburseUser
<1>2. CallSound(r)'
    BY DEF BookInv, Domains, CallsSound, At, CallSound, InUpdate, AwardPCs, Arg, disburseUser
<1> QED
    BY <1>1, <1>2, LocalStepKeeps DEF disburseUser

\* So does the recalculation of what was repaid.
LEMMA RecalculateKeeps ==
    ASSUME BookInv, NEW r \in Calls, recalculateTotalRepaid(r)
    PROVE  BookInv'
<1>1. Moves(r)
    BY DEF BookInv, Domains, Moves, At, recalculateTotalRepaid
<1>2. CallSound(r)'
    BY DEF BookInv, Domains, CallsSound, At, CallSound, InUpdate, AwardPCs, Arg, recalculateTotalRepaid
<1> QED
    BY <1>1, <1>2, LocalStepKeeps DEF recalculateTotalRepaid

\* remove holds no copy.
LEMMA RemoveKeeps ==
    ASSUME BookInv, NEW r \in Calls, NEW l \in Loans, remove(r, l)
    PROVE  BookInv'
<1>1. Moves(r)
    BY DEF BookInv, Domains, Moves, At, remove, Start
<1>2. CallSound(r)'
    BY DEF BookInv, Domains, CallsSound, At, CallSound, InUpdate, AwardPCs, Arg, remove, Start
<1> QED
    BY <1>1, <1>2, LocalStepKeeps DEF remove, Start

\* A loan loaded from the table balances, whatever status it is given.
LEMMA StartSaveKeeps ==
    ASSUME BookInv, NEW r \in Calls, NEW l \in Rows, NEW status, NEW nx \in {"idle", "pending"},
           StartSave(r, l, status, nx)
    PROVE  BookInv'
<1>1. Moves(r)
    BY DEF BookInv, Domains, Moves, At, StartSave, Start
<1>2. CallSound(r)'
    BY DEF BookInv, Domains, CallsSound, At, CallSound, InUpdate, AwardPCs, Arg, RowsSound, Rows, Sound, Balanced, StartSave, Start
<1> QED
    BY <1>1, <1>2, LocalStepKeeps DEF StartSave, Start

\* What the operator's repayment moves from outstanding to paid is one amount.
LEMMA ProcessRepaymentKeeps ==
    ASSUME BookInv, NEW r \in Calls, NEW l \in Loans, NEW amount \in Amounts,
           NEW ref \in Refs \union {NoRef}, processRepayment(r, l, amount, ref)
    PROVE  BookInv'
<1>1. Moves(r)
    BY DEF BookInv, Domains, Moves, At, processRepayment, Start
<1>2. CallSound(r)'
    BY BookAssumption DEF BookInv, Domains, CallsSound, At, CallSound, InUpdate, AwardPCs, Arg, RowsSound, Rows, Sound, Balanced, processRepayment, Start
<1> QED
    BY <1>1, <1>2, LocalStepKeeps DEF processRepayment, Start

\* createRepayment holds an amount of a request.
LEMMA CreateRepaymentKeeps ==
    ASSUME BookInv, NEW r \in Calls, NEW l \in Loans, NEW amount \in Amounts,
           createRepayment(r, l, amount)
    PROVE  BookInv'
<1>1. Moves(r)
    BY DEF BookInv, Domains, Moves, At, createRepayment, Start
<1>2. CallSound(r)'
    BY BookAssumption DEF BookInv, Domains, CallsSound, At, CallSound, InUpdate, AwardPCs, Arg, createRepayment, Start
<1> QED
    BY <1>1, <1>2, LocalStepKeeps DEF createRepayment, Start

\* A reconciliation holds a transaction that exists and an amount.
LEMMA ReconcilingKeeps ==
    ASSUME BookInv, NEW r \in Calls, NEW t \in TxRows, NEW status, NEW amount \in Int \union {NoAmount},
           Reconciling(r, t, status, amount), UNCHANGED <<loan, tx, credited>>
    PROVE  BookInv'
<1>1. Moves(r)
    BY DEF BookInv, Domains, Moves, At, Reconciling
<1>2. CallSound(r)'
    BY DEF BookInv, Domains, CallsSound, At, CallSound, InUpdate, AwardPCs, Arg, AmountsInt, TxRows, Reconciling
<1> QED
    BY <1>1, <1>2, LocalStepKeeps DEF Reconciling

\* The transaction still exists when it is loaded again.
LEMMA RereadKeeps ==
    ASSUME BookInv, NEW r \in Calls, reconcileReread(r)
    PROVE  BookInv'
<1>1. CallSound(r) /\ pc[r] = "reread" /\ UNCHANGED <<loan, tx>>
    BY DEF reconcileReread, BookInv, CallsSound
<1>2. arg[r].t \in Txs /\ tx[arg[r].t].amount \in Int /\ next[r] = "idle"
    BY <1>1 DEF CallSound, AwardPCs
<1>3. CASE Finish(r)
    BY <1>1, <1>3, FinishKeeps, LocalStepKeeps
<1>4. CASE Goto(r, "recalc")
    <2>1. Moves(r) /\ pc'[r] = "recalc" /\ next'[r] = "idle"
        BY <1>2, <1>4, AtMoves DEF Goto
    <2>2. CallSound(r)'
        BY <2>1 DEF CallSound, InUpdate, AwardPCs
    <2> QED
        BY <1>1, <2>1, <2>2, LocalStepKeeps
<1>5. CASE \E nx \in {"recalc", "idle"} :
              At(r, "award", nx, arg[r], NoRow, NoRow) /\ UNCHANGED credited
    <2>1. PICK nx \in {"recalc", "idle"} :
              At(r, "award", nx, arg[r], NoRow, NoRow) /\ UNCHANGED credited
        BY <1>5
    <2>2. /\ Moves(r) /\ pc'[r] = "award" /\ next'[r] \in {"recalc", "idle"}
          /\ arg'[r] = arg[r]
        BY <2>1, AtMoves
    <2>3. CallSound(r)'
        BY <1>1, <1>2, <2>2 DEF CallSound, InUpdate, AwardPCs
    <2> QED
        BY <1>1, <2>2, <2>3, LocalStepKeeps
<1> QED
    BY <1>3, <1>4, <1>5 DEF reconcileReread

\* The copy the scoring service makes balances.
LEMMA AwardKeeps ==
    ASSUME BookInv, NEW r \in Calls, award(r)
    PROVE  BookInv'
<1> DEFINE t == arg[r].t
           after == creditLoan(loan[tx[t].loan], tx[t].amount)
<1>1. CASE history[t].rows > 0 /\ Proceed(r)
    <2>1. Moves(r) /\ CallSound(r)'
        BY <1>1, ProceedKeeps DEF award, AwardPCs
    <2> QED
        BY <2>1, LocalStepKeeps DEF award
<1>2. CASE ~(history[t].rows > 0 /\ Proceed(r))
    <2>1. /\ \E ur : At(r, "awardLoan", next[r], arg[r], row[r], ur)
          /\ credited' = [credited EXCEPT ![r] = after]
        BY <1>2 DEF award
    <2>2. /\ Moves(r)
          /\ pc'[r] = "awardLoan" /\ next'[r] = next[r] /\ arg'[r] = arg[r]
          /\ row'[r] = row[r] /\ credited'[r] = after
        BY <2>1 DEF BookInv, Domains, Moves, At
    <2>3. Sound(after)
        <3>1. t \in Txs /\ tx[t].amount \in Int /\ tx[t].loan \in Rows
            BY DEF award, BookInv, CallsSound, CallSound, AwardPCs
        <3>2. Sound(loan[tx[t].loan])
            BY <3>1 DEF BookInv, RowsSound, Rows
        <3> QED
            BY <3>1, <3>2, CreditedBalances
    <2>4. CallSound(r) /\ pc[r] = "award" /\ UNCHANGED <<loan, tx>>
        BY DEF award, BookInv, CallsSound
    <2>5. CallSound(r)'
        BY <2>2, <2>3, <2>4 DEF CallSound, InUpdate, AwardPCs, Sound, Balanced
    <2> QED
        BY <2>2, <2>4, <2>5, LocalStepKeeps
<1> QED
    BY <1>1, <1>2

\* update holds a loan loaded from the table, restated.
LEMMA UpdateKeeps ==
    ASSUME BookInv, NEW r \in Calls, NEW l \in Loans, NEW p \in Patches, update(r, l, p)
    PROVE  BookInv'
<1>1. Moves(r)
    BY DEF BookInv, Domains, Moves, At, update, Start
<1>2. CallSound(r)'
    BY BookAssumption DEF BookInv, Domains, CallsSound, At, CallSound, InUpdate, AwardPCs, Arg, Increase, Restated, Patch, RowsSound, Rows, Sound, Balanced, update, Start
<1> QED
    BY <1>1, <1>2, LocalStepKeeps DEF update, Start

\* Counting changes nothing but the number the call holds.
LEMMA UpdateNumberKeeps ==
    ASSUME BookInv, NEW r \in Calls, updateNumber(r)
    PROVE  BookInv'
<1>1. Moves(r)
    BY DEF BookInv, Domains, Moves, At, updateNumber
<1>2. CallSound(r)'
    BY DEF BookInv, Domains, CallsSound, At, CallSound, InUpdate, AwardPCs, Arg, updateNumber
<1> QED
    BY <1>1, <1>2, LocalStepKeeps DEF updateNumber

\* Only an update with an amount paid mixes the columns of two reads.
LEMMA UpdateReloadKeeps ==
    ASSUME BookInv, NEW r \in Calls, updateReload(r)
    PROVE  BookInv'
<1>1. Moves(r)
    BY DEF BookInv, Domains, Moves, At, updateReload
<1>2. CallSound(r)'
    BY DEF BookInv, Domains, CallsSound, At, CallSound, InUpdate, AwardPCs, Arg, RowsSound, Rows, Sound, Balanced, updateReload
<1> QED
    BY <1>1, <1>2, LocalStepKeeps DEF updateReload

\* The fallback changes the copy of the user only.
LEMMA UpdateFallbackKeeps ==
    ASSUME BookInv, NEW r \in Calls, updateFallback(r)
    PROVE  BookInv'
<1>1. Moves(r)
    BY DEF BookInv, Domains, Moves, At, updateFallback
<1>2. CallSound(r)'
    BY DEF BookInv, Domains, CallsSound, At, CallSound, InUpdate, AwardPCs, Arg, updateFallback
<1> QED
    BY <1>1, <1>2, LocalStepKeeps DEF updateFallback

\* A user saved is not part of the invariant; update goes on with what it holds.
LEMMA SaveUserKeeps ==
    ASSUME BookInv, NEW r \in Calls, saveUser(r)
    PROVE  BookInv'
<1>1. Moves(r) /\ CallSound(r)'
    BY ProceedKeeps DEF saveUser
<1> QED
    BY <1>1, LocalStepKeeps DEF saveUser

\* Nor is the history.
LEMMA AwardHistoryKeeps ==
    ASSUME BookInv, NEW r \in Calls, awardHistory(r)
    PROVE  BookInv'
<1>1. Moves(r) /\ CallSound(r)'
    BY ProceedKeeps DEF awardHistory, AwardPCs
<1> QED
    BY <1>1, LocalStepKeeps DEF awardHistory

\* The user is saved and the service returns, or goes on to the history.
LEMMA AwardUserKeeps ==
    ASSUME BookInv, NEW r \in Calls, awardUser(r)
    PROVE  BookInv'
<1>1. CASE Proceed(r)
    <2>1. Moves(r) /\ CallSound(r)'
        BY <1>1, ProceedKeeps DEF awardUser, AwardPCs
    <2> QED
        BY <2>1, LocalStepKeeps DEF awardUser
<1>2. CASE ~Proceed(r)
    <2>1. PICK n : /\ At(r, "awardHistory", next[r],
                         Arg(arg[r].u, arg[r].l, arg[r].t, n, arg[r].a, arg[r].b),
                         row[r], usr[r])
                   /\ UNCHANGED credited
        BY <1>2 DEF awardUser
    <2>2. /\ Moves(r) /\ pc'[r] = "awardHistory" /\ next'[r] = next[r]
          /\ row'[r] = row[r] /\ arg'[r].t = arg[r].t /\ arg'[r].b = arg[r].b
        BY <2>1, AtMoves DEF Arg
    <2>3. CallSound(r) /\ pc[r] = "awardUser" /\ UNCHANGED <<loan, tx>>
        BY DEF awardUser, BookInv, CallsSound
    <2>4. CallSound(r)'
        BY <2>2, <2>3 DEF CallSound, InUpdate, AwardPCs
    <2> QED
        BY <2>2, <2>3, <2>4, LocalStepKeeps
<1> QED
    BY <1>1, <1>2

\* When the scoring throws, its caller goes on with what it holds.
LEMMA AwardThrowsKeeps ==
    ASSUME BookInv, NEW r \in Calls, awardThrows(r)
    PROVE  BookInv'
<1>1. CASE next[r] = "reload"
    <2>1. /\ Moves(r) /\ pc'[r] = "fallback" /\ next'[r] = "idle"
          /\ arg'[r] = arg[r] /\ row'[r] = row[r]
        BY <1>1 DEF awardThrows, BookInv, Domains, Moves, At
    <2>2. CallSound(r) /\ pc[r] \in AwardPCs /\ UNCHANGED <<loan, tx>>
        BY DEF awardThrows, AwardPCs, BookInv, CallsSound
    <2>3. CallSound(r)'
        BY <1>1, <2>1, <2>2 DEF CallSound, InUpdate, AwardPCs
    <2> QED
        BY <2>1, <2>2, <2>3, LocalStepKeeps
<1>2. CASE next[r] # "reload"
    <2>1. Moves(r) /\ CallSound(r)'
        BY <1>2, ProceedKeeps DEF awardThrows, AwardPCs
    <2> QED
        BY <2>1, LocalStepKeeps DEF awardThrows
<1> QED
    BY <1>1, <1>2

\* The call ends before its next step.
LEMMA CrashKeeps ==
    ASSUME BookInv, NEW r \in Calls, Crash(r)
    PROVE  BookInv'
BY FinishKeeps, LocalStepKeeps DEF Crash

\* A new loan has nothing paid.
LEMMA CreateInsertKeeps ==
    ASSUME BookInv, NEW r \in Calls, createInsert(r)
    PROVE  BookInv'
<1>1. CASE UNCHANGED loan /\ Finish(r)
    BY <1>1, FinishKeeps, LocalStepKeeps DEF createInsert
<1>2. CASE ~(UNCHANGED loan /\ Finish(r))
    <2>1. PICK l \in Loans :
              loan' = [loan EXCEPT ![l] =
                  [loanId |-> arg[r].n, user |-> arg[r].u, status |-> "PENDING",
                   amount |-> arg[r].a, amountDue |-> arg[r].a, amountPaid |-> 0,
                   outstandingAmount |-> arg[r].a]]
        BY <1>2 DEF createInsert
    <2>2. Goto(r, "count") /\ pc[r] = "insert" /\ UNCHANGED tx
        BY <1>2 DEF createInsert
    <2>3. arg[r].a \in Int /\ next[r] = "idle"
        BY <2>2 DEF BookInv, CallsSound, CallSound, AwardPCs
    <2>4. RowsSound' /\ DOMAIN loan' = Loans
        BY <2>1, <2>3 DEF BookInv, Domains, RowsSound, Sound, Balanced
    <2>5. Moves(r) /\ pc'[r] = "count" /\ next'[r] = "idle"
        BY <2>2, <2>3, AtMoves DEF Goto
    <2>6. CallSound(r)'
        BY <2>5 DEF CallSound, InUpdate, AwardPCs
    <2>7. AmountsInt' /\ DOMAIN tx' = Txs
        BY <2>2 DEF BookInv, Domains, AmountsInt
    <2> QED
        BY <2>2, <2>4, <2>5, <2>6, <2>7, StepKeeps
<1> QED
    BY <1>1, <1>2

\* A deleted loan has no amounts.
LEMMA RemoveDeleteKeeps ==
    ASSUME BookInv, NEW r \in Calls, removeDelete(r)
    PROVE  BookInv'
<1>1. CASE UNCHANGED loan /\ Finish(r)
    BY <1>1, FinishKeeps, LocalStepKeeps DEF removeDelete
<1>2. CASE ~(UNCHANGED loan /\ Finish(r))
    <2>1. /\ loan' = [loan EXCEPT ![arg[r].l] = Deleted]
          /\ Goto(r, "count") /\ pc[r] = "delete" /\ UNCHANGED tx
        BY <1>2 DEF removeDelete
    <2>2. next[r] = "idle"
        BY <2>1 DEF BookInv, CallsSound, CallSound, AwardPCs
    <2>3. RowsSound' /\ DOMAIN loan' = Loans
        BY <2>1 DEF BookInv, Domains, RowsSound, Sound, Balanced
    <2>4. Moves(r) /\ pc'[r] = "count" /\ next'[r] = "idle"
        BY <2>1, <2>2, AtMoves DEF Goto
    <2>5. CallSound(r)'
        BY <2>4 DEF CallSound, InUpdate, AwardPCs
    <2>6. AmountsInt' /\ DOMAIN tx' = Txs
        BY <2>1 DEF BookInv, Domains, AmountsInt
    <2> QED
        BY <2>1, <2>3, <2>4, <2>5, <2>6, StepKeeps
<1> QED
    BY <1>1, <1>2

\* A row overwritten by a copy that balances: what saveLoan, the scoring and the
\* end of update have in common.
LEMMA WriteKeeps ==
    ASSUME BookInv, NEW r \in Calls, NEW l, NEW lr, Sound(lr),
           loan' = [loan EXCEPT ![l] = lr], UNCHANGED tx,
           Moves(r), CallSound(r)'
    PROVE  BookInv'
<1>1. RowsSound' /\ DOMAIN loan' = Loans
    BY DEF BookInv, Domains, RowsSound, Sound, Balanced
<1>2. AmountsInt' /\ DOMAIN tx' = Txs
    BY DEF BookInv, Domains, AmountsInt
<1> QED
    BY <1>1, <1>2, StepKeeps

\* The copy written balances; the operator's handler goes on to the scoring.
LEMMA SaveLoanKeeps ==
    ASSUME BookInv, NEW r \in Calls, saveLoan(r)
    PROVE  BookInv'
<1>1. Moves(r) /\ CallSound(r)'
    BY ProceedKeeps DEF saveLoan
<1>2. Sound(row[r])
    BY DEF saveLoan, BookInv, CallsSound, CallSound
<1> QED
    BY <1>1, <1>2, WriteKeeps DEF saveLoan

\* The copy of the scoring service balances.
LEMMA AwardLoanKeeps ==
    ASSUME BookInv, NEW r \in Calls, awardLoan(r)
    PROVE  BookInv'
<1>1. CallSound(r) /\ Goto(r, "awardUser") /\ pc[r] = "awardLoan" /\ UNCHANGED tx
    BY DEF awardLoan, BookInv, CallsSound
<1>2. /\ Moves(r) /\ pc'[r] = "awardUser" /\ next'[r] = next[r]
      /\ arg'[r] = arg[r] /\ row'[r] = row[r]
    BY <1>1, AtMoves DEF Goto
<1>3. CallSound(r)' /\ Sound(credited[r])
    BY <1>1, <1>2 DEF CallSound, InUpdate, AwardPCs
<1> QED
    BY <1>2, <1>3, WriteKeeps DEF awardLoan

\* What update writes balances by PatchedBalances.
LEMMA UpdateApplyKeeps ==
    ASSUME BookInv, NEW r \in Calls, updateApply(r)
    PROVE  BookInv'
<1>1. Sound(Patched(row[r], arg[r].b))
    BY PatchedBalances DEF updateApply, BookInv, CallsSound, CallSound, InUpdate
<1>2. Moves(r) /\ CallSound(r)'
    BY FinishKeeps DEF updateApply
<1> QED
    BY <1>1, <1>2, WriteKeeps DEF updateApply

\* A transaction inserted or patched with an integer amount.
LEMMA WriteTxKeeps ==
    ASSUME BookInv, NEW r \in Calls, NEW t \in Txs, NEW v,
           v.amount \in Int,
           tx' = [tx EXCEPT ![t] = v], UNCHANGED loan,
           Moves(r), CallSound(r)'
    PROVE  BookInv'
<1>1. AmountsInt' /\ DOMAIN tx' = Txs /\ \A k \in Txs : tx[k].amount \in Int => tx'[k].amount \in Int
    BY DEF BookInv, Domains, AmountsInt
<1>2. RowsSound' /\ DOMAIN loan' = Loans
    BY DEF BookInv, Domains, RowsSound, Sound, Balanced
<1> QED
    BY <1>1, <1>2, StepKeeps

\* The operator's transaction carries the amount of the request.
LEMMA RepaymentInsertKeeps ==
    ASSUME BookInv, NEW r \in Calls, repaymentInsert(r)
    PROVE  BookInv'
<1>1. PICK t \in Txs :
          /\ tx' = [tx EXCEPT ![t] = Repayment(0, arg[r].l, arg[r].u, arg[r].a,
                                               "COMPLETED", arg[r].b)]
          /\ At(r, "saveLoan", "award",
                Arg(arg[r].u, arg[r].l, t, 0, arg[r].a, NoBody), row[r], NoRow)
    BY DEF repaymentInsert
<1>2. CallSound(r) /\ pc[r] = "mnoInsert" /\ UNCHANGED <<loan, credited>>
    BY DEF repaymentInsert, BookInv, CallsSound
<1>3. /\ Moves(r) /\ pc'[r] = "saveLoan" /\ next'[r] = "award"
      /\ arg'[r].t = t /\ row'[r] = row[r]
    BY <1>1, <1>2, AtMoves DEF Arg
<1>4. arg[r].a \in Int /\ tx'[t].amount = arg[r].a
    BY <1>1, <1>2 DEF BookInv, Domains, CallSound, Repayment
<1>5. CallSound(r)'
    BY <1>2, <1>3, <1>4 DEF CallSound, InUpdate, AwardPCs, Sound, Balanced
<1> QED
    BY <1>1, <1>2, <1>3, <1>4, <1>5, WriteTxKeeps DEF Repayment

\* So does the pending transaction of createRepayment.
LEMMA RepaymentPendingKeeps ==
    ASSUME BookInv, NEW r \in Calls, repaymentPending(r)
    PROVE  BookInv'
<1>1. CASE UNCHANGED tx /\ Finish(r)
    BY <1>1, FinishKeeps, LocalStepKeeps DEF repaymentPending
<1>2. CASE ~(UNCHANGED tx /\ Finish(r))
    <2>1. PICK t \in Txs :
              /\ tx' = [tx EXCEPT ![t] = Repayment(arg[r].n, arg[r].l, arg[r].u,
                                                   arg[r].a, "PENDING", NoRef)]
              /\ At(r, "load", "idle",
                    Arg(arg[r].u, arg[r].l, t, 0, arg[r].a, "COMPLETED"), NoRow, NoRow)
        BY <1>2 DEF repaymentPending
    <2>2. CallSound(r) /\ pc[r] = "txInsert" /\ UNCHANGED <<loan, credited>>
        BY <1>2 DEF repaymentPending, BookInv, CallsSound
    <2>3. /\ Moves(r) /\ pc'[r] = "load" /\ next'[r] = "idle"
          /\ arg'[r].t = t /\ arg'[r].a = arg[r].a
        BY <2>1, <2>2, AtMoves DEF Arg
    <2>4. arg[r].a \in Int /\ tx'[t].amount = arg[r].a
        BY <2>1, <2>2 DEF BookInv, Domains, CallSound, Repayment
    <2>5. CallSound(r)'
        BY <2>2, <2>3, <2>4 DEF CallSound, InUpdate, AwardPCs
    <2> QED
        BY <2>1, <2>2, <2>3, <2>4, <2>5, WriteTxKeeps DEF Repayment
<1> QED
    BY <1>1, <1>2

\* A reconciliation patches in the amount it holds.
LEMMA ReconcilePatchKeeps ==
    ASSUME BookInv, NEW r \in Calls, reconcilePatch(r)
    PROVE  BookInv'
<1> DEFINE t == arg[r].t
<1>1. CallSound(r) /\ pc[r] = "patch" /\ UNCHANGED loan
    BY DEF reconcilePatch, BookInv, CallsSound
<1>2. t \in Txs /\ arg[r].a \in Int /\ next[r] = "idle"
    BY <1>1 DEF CallSound, AwardPCs
<1>r. PICK v : v = Repayment(tx[t].number, tx[t].loan, tx[t].user, arg[r].a, arg[r].b, tx[t].reference)
    OBVIOUS
<1>3. tx' = [tx EXCEPT ![t] = v] /\ v.amount = arg[r].a /\ tx'[t].amount = arg[r].a
  <2>1. tx' = [tx EXCEPT ![t] = v]
      BY <1>r DEF reconcilePatch
  <2>2. v.amount = arg[r].a
      BY <1>r DEF Repayment
  <2> QED
      BY <1>2, <2>1, <2>2 DEF BookInv, Domains
<1>4. Moves(r) /\ CallSound(r)'
    <2>1. CASE Finish(r)
        BY <2>1, FinishKeeps
    <2>2. CASE Goto(r, "reread")
        <3>1. /\ Moves(r) /\ pc'[r] = "reread" /\ next'[r] = "idle"
              /\ arg'[r] = arg[r]
            BY <1>2, <2>2, AtMoves DEF Goto
        <3> QED
            BY <1>2, <1>3, <3>1 DEF CallSound, InUpdate, AwardPCs
    <2> QED
        BY <2>1, <2>2 DEF reconcilePatch
<1> QED
    BY <1>1, <1>2, <1>3, <1>4, WriteTxKeeps

\* The transaction update creates carries the increase of the amount paid.
LEMMA UpdateInsertKeeps ==
    ASSUME BookInv, NEW r \in Calls, updateInsert(r)
    PROVE  BookInv'
<1>1. CallSound(r) /\ pc[r] = "updInsert" /\ UNCHANGED loan
    BY DEF updateInsert, BookInv, CallsSound
<1>2. next[r] = "idle" /\ InUpdate(r) /\ Increase(row[r], arg[r].b) \in Int
    BY <1>1 DEF CallSound, AwardPCs, InUpdate, Increase, Patch
<1>3. CASE UNCHANGED tx /\ Goto(r, "apply")
    <2>1. /\ Moves(r) /\ pc'[r] = "apply" /\ next'[r] = "idle"
          /\ arg'[r] = arg[r] /\ row'[r] = row[r]
        BY <1>2, <1>3, AtMoves DEF Goto
    <2>2. CallSound(r)'
        BY <1>1, <1>2, <2>1 DEF CallSound, InUpdate, AwardPCs, Sound, Balanced
    <2> QED
        BY <1>1, <1>3, <2>1, <2>2, LocalStepKeeps
<1>4. CASE ~(UNCHANGED tx /\ Goto(r, "apply"))
    <2>1. PICK t \in Txs :
              /\ tx' = [tx EXCEPT ![t] =
                    Repayment(arg[r].n, arg[r].l, arg[r].u,
                              Increase(row[r], arg[r].b), "COMPLETED", NoRef)]
              /\ At(r, "award", "reload",
                    Arg(arg[r].u, arg[r].l, t, 0, 0, arg[r].b), row[r], NoRow)
        BY <1>4 DEF updateInsert
    <2>2. UNCHANGED credited
        BY <1>4 DEF updateInsert
    <2>3. /\ Moves(r) /\ pc'[r] = "award" /\ next'[r] = "reload"
          /\ arg'[r].t = t /\ arg'[r].b = arg[r].b /\ row'[r] = row[r]
        BY <2>1, <2>2, AtMoves DEF Arg
    <2>4. tx'[t].amount = Increase(row[r], arg[r].b)
        BY <2>1 DEF BookInv, Domains, Repayment
    <2>5. CallSound(r)'
        BY <1>1, <1>2, <2>3, <2>4 DEF CallSound, InUpdate, AwardPCs
    <2> QED
        BY <1>1, <1>2, <2>1, <2>3, <2>4, <2>5, WriteTxKeeps DEF Repayment
<1> QED
    BY <1>3, <1>4

\* Every call that arrives keeps the invariant.
LEMMA ArriveKeeps ==
    ASSUME BookInv, NEW r \in Calls, Arrive(r)
    PROVE  BookInv'
<1>1. CASE \E u \in Users, amount \in Amounts : create(r, u, amount)
    BY <1>1, CreateKeeps
<1>2. CASE \E l \in Loans : remove(r, l)
    BY <1>2, RemoveKeeps
<1>3. CASE \E l \in Loans : \/ approve(r, l) \/ reject(r, l)
                            \/ disburse(r, l) \/ processFulfillment(r, l)
    BY <1>3, StartSaveKeeps DEF approve, reject, disburse, processFulfillment
<1>4. CASE \E l \in Loans, p \in Patches : update(r, l, p)
    BY <1>4, UpdateKeeps
<1>5. CASE \E l \in Loans, amount \in Amounts : createRepayment(r, l, amount)
    BY <1>5, CreateRepaymentKeeps
<1>6. CASE \E l \in Loans, amount \in Amounts, ref \in Refs \union {NoRef} :
              processRepayment(r, l, amount, ref)
    BY <1>6, ProcessRepaymentKeeps
<1>7. CASE \E t \in Txs, status \in ReconcileTo, amount \in ReconcileAmounts :
              reconcile(r, t, status, amount)
    BY <1>7, BookAssumption, ReconcilingKeeps DEF reconcile
<1> QED
    BY <1>1, <1>2, <1>3, <1>4, <1>5, <1>6, <1>7 DEF Arrive

\* So does every step of one.
LEMMA AnyStepKeeps ==
    ASSUME BookInv, NEW r \in Calls, Step(r)
    PROVE  BookInv'
<1>1. CASE repaymentReconcile(r)
    <2>1. CallSound(r) /\ pc[r] = "load"
        BY <1>1 DEF repaymentReconcile, BookInv, CallsSound
    <2>2. /\ Moves(r) /\ pc'[r] = "patch" /\ next'[r] = "idle"
          /\ arg'[r].t = arg[r].t /\ arg'[r].a \in Int
        BY <1>1, <2>1, AtMoves DEF repaymentReconcile, Reconciling, Arg, CallSound
    <2>3. CallSound(r)'
        BY <1>1, <2>1, <2>2 DEF CallSound, InUpdate, AwardPCs, repaymentReconcile
    <2> QED
        BY <1>1, <2>2, <2>3, LocalStepKeeps DEF repaymentReconcile
<1>2. CASE ~repaymentReconcile(r)
    BY <1>2, CreateNumberKeeps, CreateInsertKeeps, CountLoansKeeps, SaveUserKeeps,
       RemoveDeleteKeeps, SaveLoanKeeps, DisburseUserKeeps, AwardKeeps,
       AwardLoanKeeps, AwardUserKeeps, AwardHistoryKeeps, AwardThrowsKeeps,
       RepaymentInsertKeeps, RepaymentPendingKeeps, ReconcilePatchKeeps,
       RereadKeeps, RecalculateKeeps, UpdateNumberKeeps, UpdateInsertKeeps,
       UpdateReloadKeeps, UpdateFallbackKeeps, UpdateApplyKeeps DEF Step
<1> QED
    BY <1>1, <1>2

\* The invariant holds in every reachable state.
THEOREM BookInvariant == Spec => []BookInv
<1>1. ASSUME BookInv, [Next]_vars PROVE BookInv'
    <2>1. CASE Next
        BY <1>1, <2>1, ArriveKeeps, AnyStepKeeps, CrashKeeps DEF Next
    <2>2. CASE UNCHANGED vars
        BY <1>1, <2>2 DEF vars, BookInv, Domains, RowsSound, AmountsInt,
                          CallsSound, CallSound, InUpdate, Sound, Balanced
    <2> QED
        BY <1>1, <2>1, <2>2
<1> QED
    BY <1>1, InitBook, PTL DEF Spec

\* Whatever the interleaving of the handlers and wherever they die, the outstanding
\* amount of every loan is what is due less what has been paid.
THEOREM OutstandingIsDueLessPaid == Spec => []BooksBalance
<1>1. BookInv => BooksBalance
    BY DEF BookInv, RowsSound, Sound, BooksBalance, Rows
<1> QED
    BY <1>1, BookInvariant, PTL

-----------------------------------------------------------------------------
Numbered == {t \in TxRows : tx[t].number # 0}

Used == {tx[t].number : t \in Numbered}

\* What a call holds when it is about to write a transaction, or a loan with
\* its owner: references that exist, and a number that was the next one when it
\* was drawn, and is at most the next one now.
Held(r) ==
    /\ pc[r] \in {"number", "insert", "mnoInsert", "txInsert", "updNumber", "updInsert"}
          => arg[r].u \in Users
    /\ pc[r] \in {"mnoInsert", "txInsert", "updNumber", "updInsert"} => arg[r].l \in Loans
    /\ pc[r] \in {"txInsert", "updInsert"} => arg[r].n \in 1 .. Cardinality(Numbered) + 1
    /\ pc[r] = "mnoInsert" => arg[r].b \in Refs \union {NoRef}
    /\ pc[r] \in {"load", "patch"} => arg[r].t \in TxRows /\ arg[r].b \in TransactionStatus
    /\ pc[r] \in {"mnoInsert", "saveLoan"} \/ InUpdate(r) => row[r].user \in Users
    /\ pc[r] = "awardLoan" => credited[r].user \in Users

RowsOwned == \A l \in Rows : loan[l].user \in Users

NumberInv ==
    /\ tx \in [Txs -> TxRow \union {NoRow}]
    /\ RowsOwned
    /\ IsFiniteSet(Numbered) /\ Used = 1 .. Cardinality(Numbered)
    /\ \A r \in Calls : Held(r)

\* No two calls are in flight.
Alone == \A r, s \in Calls : pc[r] # "idle" /\ pc[s] # "idle" => r = s

\* A repayment the operator reports is looked up before it is booked.
NewReference(r) ==
    pc[r] = "mnoInsert" /\ arg[r].b # NoRef => \A t \in TxRows : tx[t].reference # arg[r].b

ReferenceInv ==
    Alone /\ OneTransactionPerReference /\ \A r \in Calls : NewReference(r)

\* The status lr has may follow the one of loan l.
Follows(lr, l) ==
    l \in Rows => lr.status = loan[l].status \/ MayBecome(loan[l].status, lr.status)

\* A copy about to be saved is the row with, at most, the status moved on.
CopyFollows(r) ==
    /\ pc[r] \in {"mnoInsert", "saveLoan"} => Follows(row[r], arg[r].l)
    /\ pc[r] = "awardLoan" => Follows(credited[r], tx[arg[r].t].loan)
    /\ InUpdate(r) =>
          /\ arg[r].b.status = NoStatus
          /\ pc[r] \notin {"reload", "awardLoan", "awardUser", "awardHistory"} /\ arg[r].l \in Rows
                => row[r].status = loan[arg[r].l].status

StatusInv == Alone /\ \A r \in Calls : CopyFollows(r)

\* What a call holds where it will still write it, or follow it to a row.
CopyTyped(r) ==
    /\ pc[r] # "idle" => arg[r].u \in Users
    /\ pc[r] \in {"saveLoan", "mnoInsert"} \/ InUpdate(r) => row[r] \in LoanRow
    /\ pc[r] = "awardLoan" => credited[r] \in LoanRow
    /\ pc[r] \in {"saveUser", "awardLoan", "awardUser"} => usr[r] \in UserRow
    /\ pc[r] \in AwardPCs \union {"reread"} \/ next[r] = "award" => arg[r].t \in TxRows

TypeInv ==
    /\ TypeOK
    /\ IsFiniteSet(Rows) /\ IsFiniteSet(TxRows)
    /\ \A r \in Calls : CopyTyped(r)

Mine(u) == {t \in TxRows : tx[t].user = u}

\* What the tables say about each user: the loans there are, whether all the
\* repayments stand, what these add up to, and the points recorded for them.
Owned == [u \in Users |-> Cardinality(LoansOf(u))]
Standing == {u \in Users : Completed(Mine(u)) = Mine(u)}
Booked == [u \in Users |-> AmountOf(Mine(u))]
Earned == [u \in Users |-> MapThenSumSet(LAMBDA t : history[t].points, Mine(u))]

Capped(n) == IF n > MaxScore THEN MaxScore ELSE n

\* A copy of user u agrees with the tables, but for a repayment of amount that
\* totalRepaid still lacks, and for points that have no history row yet.
Counts(u, ur) == ur.totalLoans = Owned[u]
Adds(u, ur, amount) == u \in Standing => ur.totalRepaid + amount = Booked[u]
Scores(u, ur, points) == ur.creditScore = Capped(Earned[u] + points)
Agrees(u, ur) == Counts(u, ur) /\ Adds(u, ur, 0) /\ Scores(u, ur, 0)

\* A repayment belongs to the owner of its loan, which is never removed under
\* it, and a history row to a repayment, whose points it holds.
TablesTally ==
    /\ \A t \in TxRows : tx[t].loan \in Rows /\ tx[t].user = loan[tx[t].loan].user
    /\ \A t \in Txs :
          /\ history[t].rows <= 1
          /\ history[t].rows = 0 => history[t].points = 0
          /\ t \notin TxRows => history[t].rows = 0

\* The rows a call works on are its user's.
OnItsRows(r) ==
    LET u == arg[r].u
        l == arg[r].l
        t == arg[r].t
    IN  /\ pc[r] \in {"delete", "saveLoan", "mnoInsert", "txInsert"} \/ InUpdate(r)
              => l \in Rows /\ loan[l].user = u
        /\ pc[r] \in {"saveLoan", "mnoInsert"} \/ InUpdate(r) => row[r].user = u
        /\ pc[r] \in AwardPCs \union {"load", "patch", "reread"} \/ next[r] = "award"
              => t \in TxRows /\ tx[t].user = u
        /\ pc[r] = "awardLoan" => credited[r].user = u
        /\ pc[r] \in {"load", "patch"} => arg[r].a = tx[t].amount
        /\ pc[r] = "patch" /\ arg[r].n # 1 => tx[t].status = "COMPLETED"
        /\ pc[r] = "reread" => tx[t].status = arg[r].b
        /\ pc[r] = "award" \/ next[r] = "award" => tx[t].status = "COMPLETED"
        /\ pc[r] \in AwardPCs \ {"award"} \/ next[r] = "award"
              => history[t].rows = 0
        /\ pc[r] = "award" /\ next[r] # "recalc" => history[t].rows = 0
        /\ pc[r] # "fallback" /\ (pc[r] = "saveUser" => next[r] = "idle")

\* How the user of a call stands to the tables while the call is under way.
ItsUserTallies(r) ==
    LET u == arg[r].u
        ur == IF pc[r] \in {"saveUser", "awardLoan", "awardUser"} THEN usr[r] ELSE user[u]
        lacking == IF pc[r] = "award" \/ next[r] = "award" THEN tx[arg[r].t].amount ELSE 0
        points == IF pc[r] = "awardHistory" THEN arg[r].n ELSE 0
    IN  /\ pc[r] # "count" => Counts(u, ur)
        /\ pc[r] \in {"reread", "recalc"} \/ next[r] = "recalc" \/ Adds(u, ur, lacking)
        /\ Scores(u, ur, points)

CallTallies(r) ==
    pc[r] # "idle" =>
        /\ OnItsRows(r) /\ ItsUserTallies(r)
        /\ \A u \in Users \ {arg[r].u} : Agrees(u, user[u])

TallyInv ==
    /\ Alone /\ TablesTally
    /\ Quiet => \A u \in Users : Agrees(u, user[u])
    /\ \A r \in Calls : CallTallies(r)


-----------------------------------------------------------------------------
\* TransactionNumbersDense.  A number is drawn by counting and inserted later; it
\* may be taken by then, but it is never beyond the next one, as rows are only
\* added.

LEMMA InitNumbers == Init => NumberInv
<1> SUFFICES ASSUME Init PROVE NumberInv
    OBVIOUS
<1>1. tx \in [Txs -> TxRow \union {NoRow}]
    BY DEF Init
<1>2. RowsOwned
    BY DEF Init, RowsOwned, Rows
<1>3. Numbered = {} /\ Used = {}
    BY DEF Init, Numbered, Used, TxRows
<1>4. IsFiniteSet(Numbered) /\ Used = 1 .. Cardinality(Numbered)
    BY <1>3, FS_EmptySet
<1>5. \A r \in Calls : Held(r)
    BY DEF Init, Held, InUpdate, AwardPCs
<1> QED
    BY <1>1, <1>2, <1>4, <1>5 DEF NumberInv

\* A step that writes no transaction and moves one call.
LEMMA QuietNumbers ==
    ASSUME NumberInv, NEW r \in Calls, Moves(r), UNCHANGED tx, RowsOwned', Held(r)'
    PROVE  NumberInv'
<1>1. TxRows' = TxRows /\ Numbered' = Numbered /\ Used' = Used
    BY DEF TxRows, Numbered, Used
<1>2. ASSUME NEW s \in Calls, s # r
      PROVE  Held(s)'
    <2>1. /\ pc'[s] = pc[s] /\ next'[s] = next[s] /\ arg'[s] = arg[s]
          /\ row'[s] = row[s] /\ credited'[s] = credited[s]
        BY <1>2 DEF Moves
    <2>2. Held(s)
        BY DEF NumberInv
    <2> QED
        BY <1>1, <2>1, <2>2 DEF Held, InUpdate
<1>3. tx' \in [Txs -> TxRow \union {NoRow}]
    BY DEF NumberInv
<1> QED
    BY <1>1, <1>2, <1>3 DEF NumberInv

\* Nor a loan.
LEMMA LocalNumbers ==
    ASSUME NumberInv, NEW r \in Calls, Moves(r), UNCHANGED <<loan, tx>>, Held(r)'
    PROVE  NumberInv'
<1>1. RowsOwned'
    BY DEF NumberInv, RowsOwned, Rows
<1> QED
    BY <1>1, QuietNumbers

\* A loan written with the owner of a copy.
LEMMA WriteOwned ==
    ASSUME NumberInv, NEW r \in Calls, NEW l, NEW lr, lr.user \in Users, DOMAIN loan = Loans,
           loan' = [loan EXCEPT ![l] = lr], UNCHANGED tx, Moves(r), Held(r)'
    PROVE  NumberInv'
<1>1. RowsOwned'
    BY DEF NumberInv, RowsOwned, Rows
<1> QED
    BY <1>1, QuietNumbers

\* A row added under the next number, or under none.
LEMMA AddNumber ==
    ASSUME NumberInv, NEW t \in Txs \ TxRows, NEW v \in TxRow,
           tx' = [tx EXCEPT ![t] = v],
           v.number # 0 => v.number \in (1 .. Cardinality(Numbered) + 1) \ Used
    PROVE  /\ tx' \in [Txs -> TxRow \union {NoRow}]
           /\ TxRows \subseteq TxRows' /\ t \in TxRows'
           /\ IsFiniteSet(Numbered)' /\ (Used = 1 .. Cardinality(Numbered))'
           /\ Cardinality(Numbered) \in Nat /\ Cardinality(Numbered') \in Nat
           /\ Cardinality(Numbered) <= Cardinality(Numbered')
<1>1. /\ tx \in [Txs -> TxRow \union {NoRow}] /\ IsFiniteSet(Numbered)
      /\ Used = 1 .. Cardinality(Numbered) /\ v # NoRow /\ t \notin Numbered
    BY BookAssumption DEF NumberInv, Numbered, TxRows
<1>2. Cardinality(Numbered) \in Nat
    BY <1>1, FS_CardinalityType
<1>3. tx' \in [Txs -> TxRow \union {NoRow}] /\ TxRows' = TxRows \union {t}
    BY <1>1 DEF TxRows
<1>4. CASE v.number = 0
    <2>1. Numbered' = Numbered /\ Used' = Used
        BY <1>1, <1>3, <1>4 DEF Numbered, Used, TxRows
    <2> QED
        BY <1>1, <1>2, <1>3, <2>1
<1>5. CASE v.number # 0
    <2>1. v.number = Cardinality(Numbered) + 1
        BY <1>1, <1>2, <1>5
    <2>2. Numbered' = Numbered \union {t}
        BY <1>1, <1>3, <1>5 DEF Numbered, TxRows
    <2>3. Used' = Used \union {v.number}
        BY <1>1, <1>3, <2>2 DEF Used, Numbered, TxRows
    <2>4. IsFiniteSet(Numbered)' /\ Cardinality(Numbered') = Cardinality(Numbered) + 1
        BY <1>1, <2>2, FS_AddElement
    <2>5. Used' = 1 .. Cardinality(Numbered) + 1
        BY <1>1, <1>2, <2>1, <2>3
    <2> QED
        BY <1>1, <1>2, <1>3, <2>4, <2>5
<1> QED
    BY <1>4, <1>5

\* A step that adds a row.
LEMMA AddKeepsNumbers ==
    ASSUME NumberInv, NEW r \in Calls, Moves(r), UNCHANGED loan,
           NEW t \in Txs \ TxRows, NEW v \in TxRow,
           tx' = [tx EXCEPT ![t] = v],
           v.number # 0 => v.number \in (1 .. Cardinality(Numbered) + 1) \ Used,
           Held(r)'
    PROVE  NumberInv'
<1>1. /\ tx' \in [Txs -> TxRow \union {NoRow}]
      /\ TxRows \subseteq TxRows'
      /\ IsFiniteSet(Numbered)' /\ (Used = 1 .. Cardinality(Numbered))'
      /\ Cardinality(Numbered) \in Nat /\ Cardinality(Numbered') \in Nat
      /\ Cardinality(Numbered) <= Cardinality(Numbered')
    BY AddNumber
<1>2. ASSUME NEW s \in Calls, s # r
      PROVE  Held(s)'
    <2>1. /\ pc'[s] = pc[s] /\ next'[s] = next[s] /\ arg'[s] = arg[s]
          /\ row'[s] = row[s] /\ credited'[s] = credited[s]
        BY <1>2 DEF Moves
    <2>2. Held(s)
        BY DEF NumberInv
    <2>3. Cardinality(Numbered)' = Cardinality(Numbered')
        OBVIOUS
    <2>4. pc[s] \in {"txInsert", "updInsert"} => arg'[s].n \in 1 .. Cardinality(Numbered)' + 1
        BY <1>1, <2>1, <2>2, <2>3 DEF Held
    <2> QED
        BY <1>1, <2>1, <2>2, <2>4 DEF Held, InUpdate
<1>3. RowsOwned'
    BY DEF NumberInv, RowsOwned, Rows
<1> QED
    BY <1>1, <1>2, <1>3 DEF NumberInv

\* A row that is patched keeps its number.
LEMMA PatchKeepsNumbers ==
    ASSUME NumberInv, NEW r \in Calls, Moves(r), UNCHANGED loan,
           NEW t \in TxRows, NEW v \in TxRow, v.number = tx[t].number,
           tx' = [tx EXCEPT ![t] = v], Held(r)'
    PROVE  NumberInv'
<1>1. tx \in [Txs -> TxRow \union {NoRow}] /\ v # NoRow /\ t \in Txs
    BY BookAssumption DEF NumberInv, TxRows
<1>2. TxRows' = TxRows /\ tx' \in [Txs -> TxRow \union {NoRow}]
    BY <1>1 DEF TxRows
<1>3. \A k \in TxRows : tx'[k].number = tx[k].number
    BY <1>1 DEF TxRows
<1>4. Numbered' = Numbered
    BY <1>2, <1>3 DEF Numbered
<1>5. Used' = Used
    BY <1>2, <1>3, <1>4 DEF Used, Numbered
<1>6. ASSUME NEW s \in Calls, s # r
      PROVE  Held(s)'
    <2>1. /\ pc'[s] = pc[s] /\ next'[s] = next[s] /\ arg'[s] = arg[s]
          /\ row'[s] = row[s] /\ credited'[s] = credited[s]
        BY <1>6 DEF Moves
    <2>2. Held(s)
        BY DEF NumberInv
    <2> QED
        BY <1>2, <1>4, <2>1, <2>2 DEF Held, InUpdate
<1>7. RowsOwned'
    BY DEF NumberInv, RowsOwned, Rows
<1> QED
    BY <1>2, <1>4, <1>5, <1>6, <1>7 DEF NumberInv

\* A call that ends holds nothing.
LEMMA FinishHolds ==
    ASSUME BookInv, NEW r \in Calls, Finish(r)
    PROVE  Moves(r) /\ Held(r)'
<1>1. Moves(r) /\ pc'[r] = "idle" /\ next'[r] = "idle"
    BY DEF BookInv, Domains, Moves, At, Finish
<1> QED
    BY <1>1 DEF Held, InUpdate, AwardPCs

\* A call that leaves a sub-task writes nothing but a loan next.
LEMMA ProceedHolds ==
    ASSUME BookInv, NumberInv, NEW r \in Calls, Proceed(r),
           pc[r] \in AwardPCs \union {"saveLoan", "saveUser"}
    PROVE  Moves(r) /\ Held(r)'
<1>1. CASE next[r] = "idle"
    BY <1>1, FinishHolds DEF Proceed
<1>2. CASE next[r] # "idle"
    <2>1. At(r, next[r], "idle", arg[r], row[r], NoRow) /\ credited' = [credited EXCEPT ![r] = NoRow]
        BY <1>2 DEF Proceed
    <2>2. /\ Moves(r)
          /\ pc'[r] = next[r] /\ next'[r] = "idle" /\ arg'[r] = arg[r] /\ row'[r] = row[r]
        BY <2>1 DEF BookInv, Domains, Moves, At
    <2>3. CallSound(r) /\ Held(r)
        BY DEF BookInv, CallsSound, NumberInv
    <2> QED
        BY <1>2, <2>2, <2>3 DEF CallSound, Held, InUpdate, AwardPCs
<1> QED
    BY <1>1, <1>2

\* The owner of a loan that exists is a user.
LEMMA OwnerKnown ==
    ASSUME NumberInv, NEW l \in Rows
    PROVE  l \in Loans /\ loan[l].user \in Users
BY DEF NumberInv, RowsOwned, Rows

\* The number a call draws is the next one.
LEMMA DrawnIsNext ==
    ASSUME NumberInv
    PROVE  generateTransactionId \in 1 .. Cardinality(Numbered) + 1
<1>1. IsFiniteSet(Numbered) /\ generateTransactionId = Cardinality(Numbered) + 1
    BY DEF NumberInv, generateTransactionId, Numbered
<1> QED
    BY <1>1, FS_CardinalityType

\* Calls that arrive hold what they loaded.
LEMMA ArriveNumbers ==
    ASSUME BookInv, NumberInv, NEW r \in Calls, Arrive(r)
    PROVE  NumberInv'
<1>1. ASSUME NEW u \in Users, NEW amount \in Amounts, create(r, u, amount)
      PROVE  NumberInv'
    <2>1. Moves(r) /\ pc'[r] = "number" /\ arg'[r].u = u
        BY <1>1, AtMoves DEF create, Start, Arg
    <2>2. Held(r)'
        BY <2>1 DEF Held, InUpdate, AwardPCs
    <2> QED
        BY <1>1, <2>1, <2>2, LocalNumbers DEF create, Start
<1>2. ASSUME NEW l \in Loans, remove(r, l)
      PROVE  NumberInv'
    <2>1. Moves(r) /\ pc'[r] = "delete"
        BY <1>2, AtMoves DEF remove, Start
    <2>2. Held(r)'
        BY <2>1 DEF Held, InUpdate, AwardPCs
    <2> QED
        BY <1>2, <2>1, <2>2, LocalNumbers DEF remove, Start
<1>3. ASSUME NEW l \in Rows, NEW status, NEW nx, StartSave(r, l, status, nx)
      PROVE  NumberInv'
    <2>1. Moves(r) /\ pc'[r] = "saveLoan" /\ row'[r].user = loan[l].user
        BY <1>3, AtMoves DEF StartSave, Start
    <2>2. Held(r)'
        BY <2>1, OwnerKnown DEF Held, InUpdate, AwardPCs
    <2> QED
        BY <1>3, <2>1, <2>2, LocalNumbers DEF StartSave, Start
<1>4. ASSUME NEW l \in Loans, NEW p \in Patches, update(r, l, p)
      PROVE  NumberInv'
    <2>1. l \in Rows
        BY <1>4 DEF update
    <2>2. /\ Moves(r) /\ pc'[r] \in {"updNumber", "apply"}
          /\ arg'[r].u = loan[l].user /\ arg'[r].l = l
          /\ row'[r].user = loan[l].user
        BY <1>4, AtMoves DEF update, Start, Arg, Restated
    <2>3. Held(r)'
        BY <2>1, <2>2, OwnerKnown DEF Held, InUpdate, AwardPCs
    <2> QED
        BY <1>4, <2>2, <2>3, LocalNumbers DEF update, Start
<1>5. ASSUME NEW l \in Loans, NEW amount \in Amounts, createRepayment(r, l, amount)
      PROVE  NumberInv'
    <2>1. l \in Rows
        BY <1>5 DEF createRepayment
    <2>2. /\ Moves(r) /\ pc'[r] = "txInsert"
          /\ arg'[r].u = loan[l].user /\ arg'[r].l = l /\ arg'[r].n = generateTransactionId
        BY <1>5, AtMoves DEF createRepayment, Start, Arg
    <2>3. Numbered' = Numbered
        BY <1>5 DEF createRepayment, Start, Numbered, TxRows
    <2>4. Held(r)'
        BY <2>1, <2>2, <2>3, OwnerKnown, DrawnIsNext DEF Held, InUpdate, AwardPCs
    <2> QED
        BY <1>5, <2>2, <2>4, LocalNumbers DEF createRepayment, Start
<1>6. ASSUME NEW l \in Loans, NEW amount \in Amounts, NEW ref \in Refs \union {NoRef},
             processRepayment(r, l, amount, ref)
      PROVE  NumberInv'
    <2>1. l \in Rows
        BY <1>6 DEF processRepayment
    <2>2. /\ Moves(r) /\ pc'[r] = "mnoInsert"
          /\ arg'[r].u = loan[l].user /\ arg'[r].l = l /\ arg'[r].b = ref
          /\ row'[r].user = loan[l].user
        BY <1>6, AtMoves DEF processRepayment, Start, Arg
    <2>3. Held(r)'
        BY <2>1, <2>2, OwnerKnown DEF Held, InUpdate, AwardPCs
    <2> QED
        BY <1>6, <2>2, <2>3, LocalNumbers DEF processRepayment, Start
<1>7. ASSUME NEW t \in Txs, NEW status \in ReconcileTo, NEW amount \in ReconcileAmounts,
             reconcile(r, t, status, amount)
      PROVE  NumberInv'
    <2>1. t \in TxRows /\ status \in TransactionStatus /\ TxRows' = TxRows
        BY <1>7, BookAssumption DEF reconcile, TxRows
    <2>2. Moves(r) /\ pc'[r] = "patch" /\ arg'[r].t = t /\ arg'[r].b = status
        BY <1>7, AtMoves DEF reconcile, Reconciling, Arg
    <2>3. Held(r)'
        BY <2>1, <2>2 DEF Held, InUpdate, AwardPCs
    <2> QED
        BY <1>7, <2>2, <2>3, LocalNumbers DEF reconcile
<1>8. ASSUME NEW l \in Loans,
             approve(r, l) \/ reject(r, l) \/ disburse(r, l) \/ processFulfillment(r, l)
      PROVE  NumberInv'
    BY <1>3, <1>8 DEF approve, reject, disburse, processFulfillment
<1> QED
    BY <1>1, <1>2, <1>4, <1>5, <1>6, <1>7, <1>8 DEF Arrive

\* Steps that write no transaction.
LEMMA QuietStepNumbers ==
    ASSUME BookInv, NumberInv, NEW r \in Calls,
           \/ createNumber(r) \/ createInsert(r) \/ countLoans(r) \/ saveUser(r)
           \/ removeDelete(r) \/ saveLoan(r) \/ disburseUser(r)
           \/ repaymentReconcile(r) \/ reconcileReread(r) \/ recalculateTotalRepaid(r)
    PROVE  NumberInv'
<1> USE DEF InUpdate, AwardPCs
<1>h. CallSound(r) /\ Held(r) /\ DOMAIN loan = Loans
    BY DEF BookInv, Domains, CallsSound, NumberInv
<1>1. CASE createNumber(r)
    <2>1. Moves(r) /\ pc'[r] = "insert" /\ arg'[r].u = arg[r].u
        BY <1>1, AtMoves DEF createNumber, Arg
    <2>2. Held(r)'
        BY <1>1, <1>h, <2>1 DEF Held, createNumber
    <2> QED
        BY <1>1, <2>1, <2>2, LocalNumbers DEF createNumber
<1>2. CASE createInsert(r)
    <2>1. CASE UNCHANGED loan /\ Finish(r)
        BY <1>2, <2>1, FinishHolds, LocalNumbers DEF createInsert
    <2>2. CASE ~(UNCHANGED loan /\ Finish(r))
        <3>1. PICK l \in Loans :
                  loan' = [loan EXCEPT ![l] =
                      [loanId |-> arg[r].n, user |-> arg[r].u, status |-> "PENDING",
                       amount |-> arg[r].a, amountDue |-> arg[r].a, amountPaid |-> 0,
                       outstandingAmount |-> arg[r].a]]
            BY <1>2, <2>2 DEF createInsert
        <3>2. Goto(r, "count") /\ pc[r] = "insert" /\ UNCHANGED tx
            BY <1>2, <2>2 DEF createInsert
        <3>3. arg[r].u \in Users /\ next[r] = "idle"
            BY <1>h, <3>2 DEF Held, CallSound
        <3>4. Moves(r) /\ pc'[r] = "count" /\ next'[r] = "idle"
            BY <3>2, <3>3, AtMoves DEF Goto
        <3>5. Held(r)'
            BY <3>4 DEF Held
        <3> QED
            BY <1>h, <3>1, <3>2, <3>3, <3>4, <3>5, WriteOwned
    <2> QED
        BY <2>1, <2>2
<1>3. CASE countLoans(r)
    <2>1. Moves(r) /\ pc'[r] = "saveUser" /\ next'[r] = "idle"
        BY <1>3, AtMoves DEF countLoans
    <2>2. Held(r)'
        BY <2>1 DEF Held
    <2> QED
        BY <1>3, <2>1, <2>2, LocalNumbers DEF countLoans
<1>4. CASE saveUser(r)
    BY <1>4, ProceedHolds, LocalNumbers DEF saveUser
<1>5. CASE removeDelete(r)
    <2>1. CASE UNCHANGED loan /\ Finish(r)
        BY <1>5, <2>1, FinishHolds, LocalNumbers DEF removeDelete
    <2>2. CASE ~(UNCHANGED loan /\ Finish(r))
        <3>1. /\ loan' = [loan EXCEPT ![arg[r].l] = Deleted]
              /\ Goto(r, "count") /\ pc[r] = "delete" /\ UNCHANGED tx
            BY <1>5, <2>2 DEF removeDelete
        <3>2. Moves(r) /\ pc'[r] = "count" /\ next'[r] = "idle"
            BY <1>h, <3>1, AtMoves DEF Goto, CallSound
        <3>3. Held(r)' /\ RowsOwned'
            BY <1>h, <3>1, <3>2 DEF Held, NumberInv, RowsOwned, Rows
        <3> QED
            BY <3>1, <3>2, <3>3, QuietNumbers
    <2> QED
        BY <2>1, <2>2
<1>6. CASE saveLoan(r)
    <2>1. Moves(r) /\ Held(r)' /\ row[r].user \in Users
        BY <1>6, <1>h, ProceedHolds DEF saveLoan, Held
    <2> QED
        BY <1>6, <1>h, <2>1, WriteOwned DEF saveLoan
<1>7. CASE disburseUser(r)
    <2>1. Moves(r) /\ pc'[r] = "saveUser" /\ next'[r] = "idle"
        BY <1>7, AtMoves DEF disburseUser
    <2>2. Held(r)'
        BY <2>1 DEF Held
    <2> QED
        BY <1>7, <2>1, <2>2, LocalNumbers DEF disburseUser
<1>8. CASE repaymentReconcile(r)
    <2>1. Moves(r) /\ pc'[r] = "patch" /\ arg'[r].t = arg[r].t /\ arg'[r].b = arg[r].b /\ TxRows' = TxRows
        BY <1>8, AtMoves DEF repaymentReconcile, Reconciling, Arg, TxRows
    <2>2. Held(r)'
        BY <1>8, <1>h, <2>1 DEF Held, repaymentReconcile
    <2> QED
        BY <1>8, <2>1, <2>2, LocalNumbers DEF repaymentReconcile
<1>9. CASE reconcileReread(r)
    <2>1. CASE Finish(r)
        BY <1>9, <2>1, FinishHolds, LocalNumbers DEF reconcileReread
    <2>2. CASE ~Finish(r)
        <3>1. \E p \in {"award", "recalc"}, nx \in {"recalc", "idle"} : \E lr :
                  At(r, p, nx, arg[r], lr, lr) \/ At(r, p, nx, arg[r], lr, usr[r])
            BY <1>9, <1>h, <2>2 DEF reconcileReread, Goto, CallSound
        <3>2. Moves(r) /\ pc'[r] \in {"award", "recalc"} /\ next'[r] \in {"recalc", "idle"}
            BY <1>9, <2>2, <3>1 DEF reconcileReread, Goto, At, Moves, BookInv, Domains
        <3>3. Held(r)'
            BY <3>2 DEF Held
        <3> QED
            BY <1>9, <3>2, <3>3, LocalNumbers DEF reconcileReread
    <2> QED
        BY <2>1, <2>2
<1>10. CASE recalculateTotalRepaid(r)
    <2>1. Moves(r) /\ pc'[r] = "saveUser" /\ next'[r] = "idle"
        BY <1>10, AtMoves DEF recalculateTotalRepaid
    <2>2. Held(r)'
        BY <2>1 DEF Held
    <2> QED
        BY <1>10, <2>1, <2>2, LocalNumbers DEF recalculateTotalRepaid
<1> QED
    BY <1>1, <1>2, <1>3, <1>4, <1>5, <1>6, <1>7, <1>8, <1>9, <1>10

\* The steps of the scoring service.
LEMMA AwardStepNumbers ==
    ASSUME BookInv, NumberInv, NEW r \in Calls,
           award(r) \/ awardLoan(r) \/ awardUser(r) \/ awardHistory(r) \/ awardThrows(r)
    PROVE  NumberInv'
<1> USE DEF InUpdate, AwardPCs
<1>h. CallSound(r) /\ Held(r) /\ DOMAIN loan = Loans
    BY DEF BookInv, Domains, CallsSound, NumberInv
<1>1. CASE award(r)
    <2>1. CASE Proceed(r)
        BY <1>1, <2>1, ProceedHolds, LocalNumbers DEF award
    <2>2. CASE ~Proceed(r)
        <3> DEFINE after == creditLoan(loan[tx[arg[r].t].loan], tx[arg[r].t].amount)
        <3>1. /\ \E ur : At(r, "awardLoan", next[r], arg[r], row[r], ur)
              /\ credited' = [credited EXCEPT ![r] = after]
              /\ pc[r] = "award" /\ tx[arg[r].t].loan \in Rows
            BY <1>1, <2>2 DEF award
        <3>2. /\ Moves(r)
              /\ pc'[r] = "awardLoan" /\ next'[r] = next[r] /\ row'[r] = row[r]
              /\ credited'[r] = after
            BY <3>1 DEF BookInv, Domains, Moves, At
        <3>3. after.user \in Users
            BY <3>1, OwnerKnown DEF creditLoan
        <3>4. Held(r)'
            BY <1>h, <3>1, <3>2, <3>3 DEF Held
        <3> QED
            BY <1>1, <3>2, <3>4, LocalNumbers DEF award
    <2> QED
        BY <2>1, <2>2
<1>2. CASE awardLoan(r)
    <2>1. /\ Moves(r) /\ pc[r] = "awardLoan" /\ pc'[r] = "awardUser"
          /\ next'[r] = next[r] /\ row'[r] = row[r]
        BY <1>2, AtMoves DEF awardLoan, Goto
    <2>2. Held(r)' /\ credited[r].user \in Users
        BY <1>h, <2>1 DEF Held
    <2> QED
        BY <1>2, <1>h, <2>1, <2>2, WriteOwned DEF awardLoan
<1>3. CASE awardUser(r)
    <2>1. CASE Proceed(r)
        BY <1>3, <2>1, ProceedHolds, LocalNumbers DEF awardUser
    <2>2. CASE ~Proceed(r)
        <3>1. PICK n : /\ At(r, "awardHistory", next[r],
                             Arg(arg[r].u, arg[r].l, arg[r].t, n, arg[r].a, arg[r].b),
                             row[r], usr[r])
                       /\ UNCHANGED credited
            BY <1>3, <2>2 DEF awardUser
        <3>2. Moves(r) /\ pc'[r] = "awardHistory" /\ next'[r] = next[r] /\ row'[r] = row[r]
            BY <3>1, AtMoves
        <3>3. Held(r)'
            BY <1>3, <1>h, <3>2 DEF Held, awardUser
        <3> QED
            BY <1>3, <3>2, <3>3, LocalNumbers DEF awardUser
    <2> QED
        BY <2>1, <2>2
<1>4. CASE awardHistory(r)
    BY <1>4, ProceedHolds, LocalNumbers DEF awardHistory
<1>5. CASE awardThrows(r)
    <2>1. CASE next[r] = "reload"
        <3>1. Moves(r) /\ pc'[r] = "fallback" /\ row'[r] = row[r]
            BY <1>5, <2>1 DEF awardThrows, BookInv, Domains, Moves, At
        <3>2. Held(r)'
            BY <1>5, <1>h, <2>1, <3>1 DEF Held, awardThrows
        <3> QED
            BY <1>5, <3>1, <3>2, LocalNumbers DEF awardThrows
    <2>2. CASE next[r] # "reload"
        BY <1>5, <2>2, ProceedHolds, LocalNumbers DEF awardThrows
    <2> QED
        BY <2>1, <2>2
<1> QED
    BY <1>1, <1>2, <1>3, <1>4, <1>5

\* The steps that write a transaction.
LEMMA TxStepNumbers ==
    ASSUME BookInv, NumberInv, NEW r \in Calls,
           repaymentInsert(r) \/ repaymentPending(r) \/ reconcilePatch(r)
    PROVE  NumberInv'
<1> USE DEF InUpdate, AwardPCs
<1>h. CallSound(r) /\ Held(r)
    BY DEF BookInv, CallsSound, NumberInv
<1>1. CASE repaymentInsert(r)
    <2> DEFINE v == Repayment(0, arg[r].l, arg[r].u, arg[r].a, "COMPLETED", arg[r].b)
    <2>1. PICK t \in Txs \ TxRows :
              /\ tx' = [tx EXCEPT ![t] = v]
              /\ At(r, "saveLoan", "award",
                    Arg(arg[r].u, arg[r].l, t, 0, arg[r].a, NoBody), row[r], NoRow)
        BY <1>1 DEF repaymentInsert
    <2>2. v \in TxRow /\ v.number = 0
        BY <1>1, <1>h DEF repaymentInsert, Repayment, TxRow, TransactionStatus, Held, CallSound
    <2>3. Moves(r) /\ pc'[r] = "saveLoan" /\ next'[r] = "award" /\ row'[r] = row[r]
        BY <1>1, <2>1, AtMoves DEF repaymentInsert
    <2>4. Held(r)'
        BY <1>1, <1>h, <2>3 DEF Held, repaymentInsert
    <2> QED
        BY <1>1, <2>1, <2>2, <2>3, <2>4, AddKeepsNumbers DEF repaymentInsert
<1>2. CASE repaymentPending(r)
    <2>1. CASE UNCHANGED tx /\ Finish(r)
        BY <1>2, <2>1, FinishHolds, LocalNumbers DEF repaymentPending
    <2>2. CASE ~(UNCHANGED tx /\ Finish(r))
        <3> DEFINE v == Repayment(arg[r].n, arg[r].l, arg[r].u, arg[r].a, "PENDING", NoRef)
        <3>1. PICK t \in Txs \ TxRows :
                  /\ tx' = [tx EXCEPT ![t] = v]
                  /\ At(r, "load", "idle",
                        Arg(arg[r].u, arg[r].l, t, 0, arg[r].a, "COMPLETED"), NoRow, NoRow)
            BY <1>2, <2>2 DEF repaymentPending
        <3>2. /\ pc[r] = "txInsert" /\ UNCHANGED <<loan, credited>>
              /\ \A k \in TxRows : tx[k].number # arg[r].n
            BY <1>2, <2>2 DEF repaymentPending
        <3>3. arg[r].n \in (1 .. Cardinality(Numbered) + 1) \ Used
            BY <1>h, <3>2 DEF Held, Used, Numbered
        <3>4. v \in TxRow /\ v.number = arg[r].n
            BY <1>h, <3>2, <3>3 DEF Repayment, TxRow, TransactionStatus, Held, CallSound
        <3>5. /\ Moves(r) /\ pc'[r] = "load" /\ next'[r] = "idle"
              /\ arg'[r].t = t /\ arg'[r].b = "COMPLETED"
            BY <3>1, <3>2, AtMoves DEF Arg
        <3>6. t \in TxRows'
            BY <3>1, <3>3, <3>4, AddNumber
        <3>7. Held(r)'
            BY <3>5, <3>6 DEF Held, TransactionStatus
        <3> QED
            BY <3>1, <3>2, <3>3, <3>4, <3>5, <3>7, AddKeepsNumbers
    <2> QED
        BY <2>1, <2>2
<1>3. CASE reconcilePatch(r)
    <2> DEFINE t == arg[r].t
               v == Repayment(tx[t].number, tx[t].loan, tx[t].user, arg[r].a, arg[r].b,
                              tx[t].reference)
    <2>1. /\ pc[r] = "patch" /\ UNCHANGED loan /\ next[r] = "idle"
          /\ tx' = [tx EXCEPT ![t] = v] /\ t \in TxRows
        BY <1>3, <1>h DEF reconcilePatch, Held, CallSound
    <2>2. tx[t] \in TxRow
        BY <2>1 DEF NumberInv, TxRows
    <2>3. v \in TxRow /\ v.number = tx[t].number
        BY <1>h, <2>1, <2>2 DEF Repayment, TxRow, Held, CallSound
    <2>4. Moves(r) /\ Held(r)'
        <3>1. CASE Finish(r)
            BY <3>1, FinishHolds
        <3>2. CASE Goto(r, "reread")
            <4>1. Moves(r) /\ pc'[r] = "reread" /\ next'[r] = "idle"
                BY <2>1, <3>2, AtMoves DEF Goto
            <4> QED
                BY <4>1 DEF Held
        <3> QED
            BY <1>3, <3>1, <3>2 DEF reconcilePatch
    <2> QED
        BY <2>1, <2>3, <2>4, PatchKeepsNumbers
<1> QED
    BY <1>1, <1>2, <1>3

\* The steps of update.
LEMMA UpdateStepNumbers ==
    ASSUME BookInv, NumberInv, NEW r \in Calls,
           \/ updateNumber(r) \/ updateInsert(r) \/ updateReload(r) \/ updateFallback(r)
           \/ updateApply(r)
    PROVE  NumberInv'
<1> USE DEF InUpdate, AwardPCs
<1>h. CallSound(r) /\ Held(r) /\ DOMAIN loan = Loans
    BY DEF BookInv, Domains, CallsSound, NumberInv
<1>1. CASE updateNumber(r)
    <2>1. /\ Moves(r) /\ pc'[r] = "updInsert" /\ next'[r] = "idle" /\ row'[r] = row[r]
          /\ arg'[r].u = arg[r].u /\ arg'[r].l = arg[r].l /\ arg'[r].n = generateTransactionId
        BY <1>1, AtMoves DEF updateNumber, Arg
    <2>2. Numbered' = Numbered
        BY <1>1 DEF updateNumber, Numbered, TxRows
    <2>3. Held(r)'
        BY <1>1, <1>h, <2>1, <2>2, DrawnIsNext DEF Held, updateNumber
    <2> QED
        BY <1>1, <2>1, <2>3, LocalNumbers DEF updateNumber
<1>2. CASE updateInsert(r)
    <2>1. CASE UNCHANGED tx /\ Goto(r, "apply")
        <3>1. Moves(r) /\ pc'[r] = "apply" /\ row'[r] = row[r]
            BY <1>2, <2>1, AtMoves DEF updateInsert, Goto
        <3>2. Held(r)'
            BY <1>2, <1>h, <3>1 DEF Held, updateInsert
        <3> QED
            BY <1>2, <2>1, <3>1, <3>2, LocalNumbers DEF updateInsert
    <2>2. CASE ~(UNCHANGED tx /\ Goto(r, "apply"))
        <3> DEFINE v == Repayment(arg[r].n, arg[r].l, arg[r].u,
                                  Increase(row[r], arg[r].b), "COMPLETED", NoRef)
        <3>1. PICK t \in Txs \ TxRows :
                  /\ tx' = [tx EXCEPT ![t] = v]
                  /\ At(r, "award", "reload",
                        Arg(arg[r].u, arg[r].l, t, 0, 0, arg[r].b), row[r], NoRow)
            BY <1>2, <2>2 DEF updateInsert
        <3>2. /\ pc[r] = "updInsert" /\ UNCHANGED <<loan, credited>>
              /\ \A k \in TxRows : tx[k].number # arg[r].n
            BY <1>2, <2>2 DEF updateInsert
        <3>3. arg[r].n \in (1 .. Cardinality(Numbered) + 1) \ Used
            BY <1>h, <3>2 DEF Held, Used, Numbered
        <3>4. Increase(row[r], arg[r].b) \in Int
            BY <1>h, <3>2 DEF CallSound, Increase, Patch
        <3>5. v \in TxRow /\ v.number = arg[r].n
            BY <1>h, <3>2, <3>3, <3>4 DEF Repayment, TxRow, TransactionStatus, Held
        <3>6. Moves(r) /\ pc'[r] = "award" /\ next'[r] = "reload" /\ row'[r] = row[r]
            BY <3>1, <3>2, AtMoves
        <3>7. Held(r)'
            BY <1>h, <3>2, <3>6 DEF Held
        <3> QED
            BY <3>1, <3>2, <3>3, <3>5, <3>6, <3>7, AddKeepsNumbers
    <2> QED
        BY <2>1, <2>2
<1>3. CASE updateReload(r)
    <2>1. Moves(r) /\ pc'[r] = "apply" /\ row'[r].user = row[r].user
        BY <1>3, AtMoves DEF updateReload
    <2>2. Held(r)'
        BY <1>3, <1>h, <2>1 DEF Held, updateReload
    <2> QED
        BY <1>3, <2>1, <2>2, LocalNumbers DEF updateReload
<1>4. CASE updateFallback(r)
    <2>1. Moves(r) /\ pc'[r] = "saveUser" /\ row'[r] = row[r]
        BY <1>4, AtMoves DEF updateFallback
    <2>2. Held(r)'
        BY <1>4, <1>h, <2>1 DEF Held, updateFallback
    <2> QED
        BY <1>4, <2>1, <2>2, LocalNumbers DEF updateFallback
<1>5. CASE updateApply(r)
    <2>1. Patched(row[r], arg[r].b).user \in Users
        BY <1>5, <1>h DEF Held, updateApply, Patched
    <2>2. Moves(r) /\ Held(r)'
        BY <1>5, FinishHolds DEF updateApply
    <2> QED
        BY <1>5, <1>h, <2>1, <2>2, WriteOwned DEF updateApply
<1> QED
    BY <1>1, <1>2, <1>3, <1>4, <1>5

\* The rows are numbered without a gap in every reachable state.
THEOREM NumberInvariant == Spec => []NumberInv
<1>1. ASSUME BookInv, NumberInv, [Next]_vars PROVE NumberInv'
    <2>1. CASE Next
        <3>1. PICK r \in Calls : Arrive(r) \/ Step(r) \/ Crash(r)
            BY <2>1 DEF Next
        <3>2. CASE Crash(r)
            BY <1>1, <3>2, FinishHolds, LocalNumbers DEF Crash
        <3> QED
            BY <1>1, <3>1, <3>2, ArriveNumbers, QuietStepNumbers, AwardStepNumbers,
               TxStepNumbers, UpdateStepNumbers DEF Step
    <2>2. CASE UNCHANGED vars
        <3>1. TxRows' = TxRows /\ Numbered' = Numbered /\ Used' = Used
            BY <2>2 DEF vars, TxRows, Numbered, Used
        <3>2. \A r \in Calls : Held(r)'
            BY <1>1, <2>2, <3>1 DEF vars, NumberInv, Held, InUpdate
        <3> QED
            BY <1>1, <2>2, <3>1, <3>2 DEF vars, NumberInv, RowsOwned, Rows
    <2> QED
        BY <1>1, <2>1, <2>2
<1> QED
    BY <1>1, InitNumbers, BookInvariant, PTL DEF Spec

\* Handlers that number transactions by counting them leave no gap: under any
\* interleaving the numbers in use are 1 to their count, so that the number the
\* next call draws is free.
THEOREM NumbersStayDense == Spec => []TransactionNumbersDense
<1>1. NumberInv => TransactionNumbersDense
    BY DEF NumberInv, TransactionNumbersDense, Used, Numbered
<1> QED
    BY <1>1, NumberInvariant, PTL

-----------------------------------------------------------------------------
\* Calls that do not overlap: MaxActive is 1.  What a call read is then still so
\* when it writes.

\* Every step of a handler moves that handler only, from where the code has it.
LEMMA StepMoves ==
    ASSUME BookInv, NEW r \in Calls, Step(r) \/ Crash(r)
    PROVE  Moves(r) /\ pc[r] # "idle"
<1> USE DEF BookInv, Domains, Moves, At
<1>1. CASE createNumber(r) \/ createInsert(r) \/ countLoans(r) \/ removeDelete(r) \/ disburseUser(r)
    BY <1>1 DEF createNumber, createInsert, countLoans, removeDelete, disburseUser, Goto, Finish
<1>2. CASE saveUser(r) \/ saveLoan(r) \/ awardHistory(r)
    BY <1>2 DEF saveUser, saveLoan, awardHistory, Proceed, Finish
<1>3. CASE award(r) \/ awardLoan(r) \/ awardThrows(r)
    BY <1>3 DEF award, awardLoan, awardThrows, Goto, Proceed, Finish
<1>4. CASE awardUser(r)
    BY <1>4 DEF awardUser, Proceed, Finish
<1>5. CASE repaymentInsert(r) \/ repaymentPending(r) \/ repaymentReconcile(r)
    BY <1>5 DEF repaymentInsert, repaymentPending, repaymentReconcile, Reconciling, Finish
<1>6. CASE reconcilePatch(r) \/ reconcileReread(r) \/ recalculateTotalRepaid(r)
    BY <1>6 DEF reconcilePatch, reconcileReread, recalculateTotalRepaid, Goto, Finish
<1>7. CASE \/ updateNumber(r) \/ updateInsert(r) \/ updateReload(r) \/ updateFallback(r)
           \/ updateApply(r)
    BY <1>7 DEF updateNumber, updateInsert, updateReload, updateFallback, updateApply, Goto, Finish
<1>8. CASE Crash(r)
    BY <1>8 DEF Crash, Finish
<1> QED
    BY <1>1, <1>2, <1>3, <1>4, <1>5, <1>6, <1>7, <1>8 DEF Step

\* A request moves its handler and writes no table.
LEMMA ArriveMoves ==
    ASSUME BookInv, NEW r \in Calls, Arrive(r)
    PROVE  Moves(r) /\ UNCHANGED <<loan, tx>> /\ \E op : Request(r, op)
<1> USE DEF BookInv, Domains, Moves, At, Start
<1>1. ASSUME NEW u \in Users, NEW amount \in Amounts, create(r, u, amount)
      PROVE  Moves(r) /\ UNCHANGED <<loan, tx>> /\ \E op : Request(r, op)
    BY <1>1 DEF create
<1>2. ASSUME NEW l \in Loans,
             remove(r, l) \/ approve(r, l) \/ reject(r, l) \/ disburse(r, l) \/ processFulfillment(r, l)
      PROVE  Moves(r) /\ UNCHANGED <<loan, tx>> /\ \E op : Request(r, op)
    BY <1>2 DEF remove, approve, reject, disburse, processFulfillment, StartSave
<1>3. ASSUME NEW l \in Loans, NEW p \in Patches, update(r, l, p)
      PROVE  Moves(r) /\ UNCHANGED <<loan, tx>> /\ \E op : Request(r, op)
    BY <1>3 DEF update
<1>4. ASSUME NEW l \in Loans, NEW amount \in Amounts, createRepayment(r, l, amount)
      PROVE  Moves(r) /\ UNCHANGED <<loan, tx>> /\ \E op : Request(r, op)
    BY <1>4 DEF createRepayment
<1>5. ASSUME NEW l \in Loans, NEW amount \in Amounts, NEW ref \in Refs \union {NoRef},
             processRepayment(r, l, amount, ref)
      PROVE  Moves(r) /\ UNCHANGED <<loan, tx>> /\ \E op : Request(r, op)
    BY <1>5 DEF processRepayment
<1>6. ASSUME NEW t \in Txs, NEW status \in ReconcileTo, NEW amount \in ReconcileAmounts,
             reconcile(r, t, status, amount)
      PROVE  Moves(r) /\ UNCHANGED <<loan, tx>> /\ \E op : Request(r, op)
    BY <1>6 DEF reconcile, Reconciling
<1> QED
    BY <1>1, <1>2, <1>3, <1>4, <1>5, <1>6 DEF Arrive

\* Only an operator's repayment begins at the insert that checks the reference.
LEMMA OnlyMnoInserts ==
    ASSUME BookInv, NEW r \in Calls, Arrive(r),
           ~\E l \in Loans, amount \in Amounts, ref \in Refs \union {NoRef} :
                processRepayment(r, l, amount, ref)
    PROVE  pc'[r] # "mnoInsert"
<1> USE DEF BookInv, Domains, At, Start
<1>1. ASSUME NEW u \in Users, NEW amount \in Amounts, create(r, u, amount)
      PROVE  pc'[r] # "mnoInsert"
    BY <1>1 DEF create
<1>2. ASSUME NEW l \in Loans,
             remove(r, l) \/ approve(r, l) \/ reject(r, l) \/ disburse(r, l) \/ processFulfillment(r, l)
      PROVE  pc'[r] # "mnoInsert"
    BY <1>2 DEF remove, approve, reject, disburse, processFulfillment, StartSave
<1>3. ASSUME NEW l \in Loans, NEW p \in Patches, update(r, l, p)
      PROVE  pc'[r] # "mnoInsert"
    BY <1>3 DEF update
<1>4. ASSUME NEW l \in Loans, NEW amount \in Amounts, createRepayment(r, l, amount)
      PROVE  pc'[r] # "mnoInsert"
    BY <1>4 DEF createRepayment
<1>5. ASSUME NEW t \in Txs, NEW status \in ReconcileTo, NEW amount \in ReconcileAmounts,
             reconcile(r, t, status, amount)
      PROVE  pc'[r] # "mnoInsert"
    BY <1>5 DEF reconcile, Reconciling
<1> QED
    BY <1>1, <1>2, <1>3, <1>4, <1>5 DEF Arrive

\* A request is only taken when no call is in flight.
LEMMA NoneInFlight ==
    ASSUME MaxActive = 1, Alone, NEW r \in Calls, NEW op, Request(r, op)
    PROVE  \A s \in Calls : pc[s] = "idle"
<1> DEFINE InFlight == {c \in Calls : pc[c] # "idle"}
<1> SUFFICES ASSUME NEW s \in Calls, pc[s] # "idle" PROVE FALSE
    OBVIOUS
<1>1. InFlight = {s}
    BY DEF Alone
<1>2. Cardinality(InFlight) = 1
    BY <1>1, FS_Singleton
<1>3. Cardinality(InFlight) < 1
    BY DEF Request
<1> QED
    BY <1>2, <1>3

\* So one call moves while the others are idle.
LEMMA OneMoves ==
    ASSUME MaxActive = 1, BookInv, Alone, NEW r \in Calls, Arrive(r) \/ Step(r) \/ Crash(r)
    PROVE  /\ Moves(r) /\ Alone'
           /\ \A s \in Calls \ {r} : pc[s] = "idle" /\ pc'[s] = "idle"
<1>1. Moves(r) /\ \A s \in Calls \ {r} : pc[s] = "idle"
    BY StepMoves, ArriveMoves, NoneInFlight DEF Alone
<1> QED
    BY <1>1 DEF Moves, Alone

\* The steps that write transactions, and what they write in the reference.
LEMMA ReferenceWritten ==
    ASSUME NumberInv, BookInv, NEW r \in Calls, Step(r) \/ Crash(r)
    PROVE  /\ pc'[r] # "mnoInsert"
           /\ \/ TxRows' = TxRows /\ \A t \in TxRows : tx'[t].reference = tx[t].reference
              \/ \E t \in Txs \ TxRows, ref \in Refs \union {NoRef} :
                    /\ TxRows' = TxRows \union {t} /\ tx'[t].reference = ref
                    /\ \A k \in TxRows : tx'[k] = tx[k]
                    /\ ref = NoRef \/ (pc[r] = "mnoInsert" /\ ref = arg[r].b)
<1> USE DEF BookInv, Domains, At
<1>h. CallSound(r) /\ Held(r) /\ tx \in [Txs -> TxRow \union {NoRow}] /\ NoRow \notin TxRow
    BY BookAssumption DEF BookInv, CallsSound, NumberInv
<1>1. ASSUME UNCHANGED tx
      PROVE  TxRows' = TxRows /\ \A t \in TxRows : tx'[t].reference = tx[t].reference
    BY <1>1 DEF TxRows
<1>2. ASSUME NEW t \in Txs \ TxRows, NEW v \in TxRow, tx' = [tx EXCEPT ![t] = v]
      PROVE  /\ TxRows' = TxRows \union {t} /\ tx'[t].reference = v.reference
             /\ v.reference \in Refs \union {NoRef}
             /\ \A k \in TxRows : tx'[k] = tx[k]
    BY <1>2, <1>h DEF TxRows, TxRow
<1>3. CASE \/ createNumber(r) \/ createInsert(r) \/ countLoans(r) \/ removeDelete(r)
           \/ disburseUser(r) \/ Crash(r)
    BY <1>1, <1>3 DEF createNumber, createInsert, countLoans, removeDelete, disburseUser,
                      Goto, Finish, Crash
<1>4. CASE saveUser(r) \/ saveLoan(r) \/ awardHistory(r)
    BY <1>h, <1>1, <1>4 DEF saveUser, saveLoan, awardHistory, Proceed, Finish, CallSound, AwardPCs
<1>5. CASE award(r) \/ awardLoan(r) \/ awardThrows(r)
    BY <1>h, <1>1, <1>5 DEF award, awardLoan, awardThrows, Goto, Proceed, Finish, CallSound, AwardPCs
<1>6. CASE awardUser(r)
    BY <1>h, <1>1, <1>6 DEF awardUser, Proceed, Finish, CallSound, AwardPCs
<1>7. CASE repaymentReconcile(r) \/ reconcileReread(r) \/ recalculateTotalRepaid(r)
    BY <1>1, <1>7 DEF repaymentReconcile, Reconciling, reconcileReread, recalculateTotalRepaid,
                      Goto, Finish
<1>8. CASE updateNumber(r) \/ updateReload(r) \/ updateFallback(r) \/ updateApply(r)
    BY <1>1, <1>8 DEF updateNumber, updateReload, updateFallback, updateApply, Finish
<1>9. CASE repaymentInsert(r)
    <2> DEFINE v == Repayment(0, arg[r].l, arg[r].u, arg[r].a, "COMPLETED", arg[r].b)
    <2>1. PICK t \in Txs \ TxRows :
              /\ tx' = [tx EXCEPT ![t] = v]
              /\ \E a : At(r, "saveLoan", "award", a, row[r], NoRow)
        BY <1>9 DEF repaymentInsert
    <2>2. v \in TxRow /\ v.reference = arg[r].b /\ pc[r] = "mnoInsert"
        BY <1>9, <1>h DEF repaymentInsert, Repayment, TxRow, TransactionStatus, Held, CallSound
    <2> HIDE DEF v
    <2>3. pc'[r] # "mnoInsert"
        BY <2>1
    <2> QED
        BY <1>2, <2>1, <2>2, <2>3
<1>10. CASE repaymentPending(r)
    <2> DEFINE v == Repayment(arg[r].n, arg[r].l, arg[r].u, arg[r].a, "PENDING", NoRef)
    <2>1. CASE UNCHANGED tx /\ Finish(r)
        BY <1>1, <2>1 DEF Finish
    <2>2. CASE ~(UNCHANGED tx /\ Finish(r))
        <3>1. PICK t \in Txs \ TxRows :
                  /\ tx' = [tx EXCEPT ![t] = v]
                  /\ \E a : At(r, "load", "idle", a, NoRow, NoRow)
            BY <1>10, <2>2 DEF repaymentPending
        <3>2. v \in TxRow /\ v.reference = NoRef
            <4>1. arg[r].n \in Nat
                BY <1>10, <1>h, FS_CardinalityType DEF repaymentPending, Held, NumberInv
            <4> QED
                BY <1>10, <1>h, <4>1 DEF repaymentPending, Repayment, TxRow, TransactionStatus, Held, CallSound
        <3> HIDE DEF v
        <3>3. pc'[r] # "mnoInsert"
            BY <3>1
        <3> QED
            BY <1>2, <3>1, <3>2, <3>3
    <2> QED
        BY <2>1, <2>2
<1>11. CASE reconcilePatch(r)
    <2>1. \A t \in TxRows : tx'[t].reference = tx[t].reference
        BY <1>11, <1>h DEF reconcilePatch, Repayment, TxRows
    <2>2. TxRows' = TxRows
        <3> DEFINE t == arg[r].t
                   v == Repayment(tx[t].number, tx[t].loan, tx[t].user, arg[r].a, arg[r].b,
                                  tx[t].reference)
        <3>1. tx' = [tx EXCEPT ![t] = v] /\ t \in TxRows /\ pc[r] = "patch"
            BY <1>11, <1>h DEF reconcilePatch, Held
        <3>2. tx[t] \in TxRow
            BY <1>h, <3>1 DEF TxRows
        <3>3. v \in TxRow
            BY <1>h, <3>1, <3>2 DEF Repayment, TxRow, Held, CallSound
        <3> QED
            BY <1>h, <3>1, <3>3 DEF TxRows
    <2>3. pc'[r] # "mnoInsert"
        BY <1>11 DEF reconcilePatch, Goto, Finish
    <2> QED
        BY <2>1, <2>2, <2>3
<1>12. CASE updateInsert(r)
    <2> DEFINE v == Repayment(arg[r].n, arg[r].l, arg[r].u, Increase(row[r], arg[r].b),
                              "COMPLETED", NoRef)
    <2>1. CASE UNCHANGED tx /\ Goto(r, "apply")
        BY <1>1, <2>1 DEF Goto
    <2>2. CASE ~(UNCHANGED tx /\ Goto(r, "apply"))
        <3>1. PICK t \in Txs \ TxRows :
                  /\ tx' = [tx EXCEPT ![t] = v]
                  /\ \E a : At(r, "award", "reload", a, row[r], NoRow)
            BY <1>12, <2>2 DEF updateInsert
        <3>2. v \in TxRow /\ v.reference = NoRef
            <4>1. arg[r].n \in Nat /\ pc[r] = "updInsert"
                BY <1>12, <1>h, FS_CardinalityType DEF updateInsert, Held, NumberInv
            <4>2. Increase(row[r], arg[r].b) \in Int
                BY <1>h, <4>1 DEF CallSound, InUpdate, Increase, Patch
            <4> QED
                BY <1>h, <4>1, <4>2 DEF Repayment, TxRow, TransactionStatus, Held
        <3> HIDE DEF v
        <3>3. pc'[r] # "mnoInsert"
            BY <3>1
        <3> QED
            BY <1>2, <3>1, <3>2, <3>3
    <2> QED
        BY <2>1, <2>2
<1> QED
    BY <1>3, <1>4, <1>5, <1>6, <1>7, <1>8, <1>9, <1>10, <1>11, <1>12 DEF Step

\* A repayment is booked under a reference that was new when it was looked up,
\* and nothing else is booked in between.
THEOREM ReferencesBookedOnce ==
    ASSUME MaxActive = 1
    PROVE  Spec => []OneTransactionPerReference
<1>1. Init => ReferenceInv
    BY DEF Init, ReferenceInv, Alone, OneTransactionPerReference, NewReference, TxRows
<1>2. ASSUME BookInv, NumberInv, ReferenceInv, [Next]_vars
      PROVE  ReferenceInv'
    <2>1. CASE UNCHANGED vars
        <3>1. TxRows' = TxRows
            BY <2>1 DEF vars, TxRows
        <3> QED
            BY <1>2, <2>1, <3>1 DEF vars, ReferenceInv, Alone, OneTransactionPerReference, NewReference
    <2>2. CASE Next
        <3>1. PICK r \in Calls : Arrive(r) \/ Step(r) \/ Crash(r)
            BY <2>2 DEF Next
        <3>2. /\ Moves(r) /\ Alone'
              /\ \A s \in Calls \ {r} : pc[s] = "idle" /\ pc'[s] = "idle"
            BY <1>2, <3>1, OneMoves DEF ReferenceInv
        <3>3. \A s \in Calls \ {r} : NewReference(s)'
            BY <3>2 DEF NewReference
        <3>4. CASE Arrive(r)
            <4>1. UNCHANGED tx /\ TxRows' = TxRows
                BY <1>2, <3>4, ArriveMoves DEF TxRows
            <4>2. NewReference(r)'
                <5>1. CASE \E l \in Loans, amount \in Amounts, ref \in Refs \union {NoRef} :
                              processRepayment(r, l, amount, ref)
                    <6>1. PICK l \in Loans, amount \in Amounts, ref \in Refs \union {NoRef} :
                              processRepayment(r, l, amount, ref)
                        BY <5>1
                    <6>2. arg'[r].b = ref
                        BY <1>2, <6>1, AtMoves DEF processRepayment, Start, Arg
                    <6>3. ref # NoRef => \A t \in TxRows : tx[t].reference # ref
                        BY <6>1 DEF processRepayment
                    <6> QED
                        BY <4>1, <6>2, <6>3 DEF NewReference
                <5>2. CASE ~\E l \in Loans, amount \in Amounts, ref \in Refs \union {NoRef} :
                              processRepayment(r, l, amount, ref)
                    <6>1. pc'[r] # "mnoInsert"
                        BY <1>2, <3>4, <5>2, OnlyMnoInserts
                    <6> QED
                        BY <6>1 DEF NewReference
                <5> QED
                    BY <5>1, <5>2
            <4>3. OneTransactionPerReference'
                BY <1>2, <4>1 DEF ReferenceInv, OneTransactionPerReference
            <4> QED
                BY <3>2, <3>3, <4>2, <4>3 DEF ReferenceInv
        <3>5. CASE Step(r) \/ Crash(r)
            <4>1. /\ pc'[r] # "mnoInsert"
                  /\ \/ TxRows' = TxRows /\ \A t \in TxRows : tx'[t].reference = tx[t].reference
                     \/ \E t \in Txs \ TxRows, ref \in Refs \union {NoRef} :
                           /\ TxRows' = TxRows \union {t} /\ tx'[t].reference = ref
                           /\ \A k \in TxRows : tx'[k] = tx[k]
                           /\ ref = NoRef \/ (pc[r] = "mnoInsert" /\ ref = arg[r].b)
                BY <1>2, <3>5, ReferenceWritten
            <4>2. NewReference(r)'
                BY <4>1 DEF NewReference
            <4>3. NewReference(r) /\ OneTransactionPerReference
                BY <1>2 DEF ReferenceInv
            <4>4. OneTransactionPerReference'
                BY <4>1, <4>3 DEF OneTransactionPerReference, NewReference
            <4> QED
                BY <3>2, <3>3, <4>2, <4>4 DEF ReferenceInv
        <3> QED
            BY <3>1, <3>4, <3>5
    <2> QED
        BY <1>2, <2>1, <2>2
<1>3. ReferenceInv => OneTransactionPerReference
    BY DEF ReferenceInv
<1> QED
    BY <1>1, <1>2, <1>3, BookInvariant, NumberInvariant, PTL DEF Spec

\* No body a caller sends forces a status.
StatusUnforced == \A p \in Patches : p.status = NoStatus

\* What the scoring service writes moves a loan on.
LEMMA CreditedFollows ==
    ASSUME NEW l \in Rows, NEW amount
    PROVE  Follows(creditLoan(loan[l], amount), l)
BY DEF Follows, creditLoan, MayBecome

\* So does what update writes, if its copy has the status of the row.
LEMMA PatchedFollows ==
    ASSUME NEW lr, NEW p, NEW l, p.status = NoStatus,
           l \in Rows => lr.status = loan[l].status
    PROVE  Follows(Patched(lr, p), l)
BY DEF Follows, Patched, MayBecome

\* A call that arrives holds a copy of the row as it is, with the next status.
LEMMA ArriveFollows ==
    ASSUME StatusUnforced, BookInv, NEW r \in Calls, Arrive(r)
    PROVE  CopyFollows(r)'
<1> USE DEF InUpdate, AwardPCs
<1>1. UNCHANGED <<loan, tx>> /\ Rows' = Rows
    BY ArriveMoves DEF Rows
<1>2. CASE \E u \in Users, amount \in Amounts : create(r, u, amount)
    <2>1. pc'[r] = "number"
        BY <1>2 DEF create, Start, At, BookInv, Domains
    <2> QED
        BY <2>1 DEF CopyFollows
<1>3. CASE \E l \in Loans : remove(r, l)
    <2>1. pc'[r] = "delete"
        BY <1>3 DEF remove, Start, At, BookInv, Domains
    <2> QED
        BY <2>1 DEF CopyFollows
<1>4. ASSUME NEW l \in Rows, NEW status, NEW nx, StartSave(r, l, status, nx),
             MayBecome(loan[l].status, status)
      PROVE  CopyFollows(r)'
    <2>1. pc'[r] = "saveLoan" /\ arg'[r].l = l /\ row'[r].status = status
        BY <1>4, AtMoves DEF StartSave, Start, Arg
    <2> QED
        BY <1>1, <1>4, <2>1 DEF CopyFollows, Follows
<1>5. CASE \E l \in Loans : \/ approve(r, l) \/ reject(r, l)
                            \/ disburse(r, l) \/ processFulfillment(r, l)
    BY <1>4, <1>5 DEF approve, reject, disburse, processFulfillment, MayBecome
<1>6. ASSUME NEW l \in Loans, NEW p \in Patches, update(r, l, p)
      PROVE  CopyFollows(r)'
    <2>1. /\ pc'[r] \in {"updNumber", "apply"} /\ arg'[r].l = l /\ arg'[r].b = p
          /\ row'[r].status = loan[l].status
        BY <1>6, AtMoves DEF update, Start, Arg, Restated
    <2> QED
        BY <1>1, <2>1 DEF CopyFollows, StatusUnforced
<1>7. CASE \E l \in Loans, amount \in Amounts : createRepayment(r, l, amount)
    <2>1. pc'[r] = "txInsert"
        BY <1>7 DEF createRepayment, Start, At, BookInv, Domains
    <2> QED
        BY <2>1 DEF CopyFollows
<1>8. ASSUME NEW l \in Loans, NEW amount \in Amounts, NEW ref \in Refs \union {NoRef},
             processRepayment(r, l, amount, ref)
      PROVE  CopyFollows(r)'
    <2>1. /\ pc'[r] = "mnoInsert" /\ arg'[r].l = l
          /\ row'[r].status \in {"COMPLETED", "REPAYING"}
          /\ loan[l].status \in {"DISBURSED", "REPAYING"}
        BY <1>8, AtMoves DEF processRepayment, Start, Arg
    <2> QED
        BY <1>1, <2>1 DEF CopyFollows, Follows, MayBecome
<1>9. CASE \E t \in Txs, status \in ReconcileTo, amount \in ReconcileAmounts :
              reconcile(r, t, status, amount)
    <2>1. pc'[r] = "patch"
        BY <1>9 DEF reconcile, Reconciling, At, BookInv, Domains
    <2> QED
        BY <2>1 DEF CopyFollows
<1> QED
    BY <1>2, <1>3, <1>5, <1>6, <1>7, <1>8, <1>9 DEF Arrive

\* A call that leaves a sub-task holds nothing, or what it held, and saves no
\* loan next except in update.
LEMMA ProceedFollows ==
    ASSUME BookInv, NEW r \in Calls, Proceed(r), CopyFollows(r),
           pc[r] \in AwardPCs \union {"saveLoan", "saveUser"},
           pc[r] = "saveUser" => UNCHANGED loan
    PROVE  CopyFollows(r)'
<1> USE DEF InUpdate, AwardPCs
<1>1. CASE next[r] = "idle"
    <2>1. pc'[r] = "idle"
        BY <1>1 DEF Proceed, Finish, At, BookInv, Domains
    <2> QED
        BY <2>1 DEF CopyFollows
<1>2. CASE next[r] # "idle"
    <2>1. At(r, next[r], "idle", arg[r], row[r], NoRow) /\ credited' = [credited EXCEPT ![r] = NoRow]
        BY <1>2 DEF Proceed
    <2>2. pc'[r] = next[r] /\ next'[r] = "idle" /\ arg'[r] = arg[r] /\ row'[r] = row[r]
        BY <2>1 DEF BookInv, Domains, At
    <2>3. CallSound(r)
        BY DEF BookInv, CallsSound
    <2>4. CASE pc[r] = "saveUser"
        <3>1. next[r] = "apply" /\ Rows' = Rows
            BY <1>2, <2>3, <2>4 DEF CallSound, Rows
        <3> QED
            BY <2>2, <2>4, <3>1 DEF CopyFollows
    <2>5. CASE pc[r] # "saveUser"
        BY <1>2, <2>2, <2>3, <2>5 DEF CopyFollows, CallSound
    <2> QED
        BY <2>4, <2>5
<1> QED
    BY <1>1, <1>2

\* Every step of the only call keeps its copy in line with the row it will save.
LEMMA StepFollows ==
    ASSUME ~Faults, BookInv, NumberInv, NEW r \in Calls, CopyFollows(r), Step(r) \/ Crash(r)
    PROVE  CopyFollows(r)'
<1> USE DEF InUpdate, AwardPCs
<1>h. CallSound(r) /\ Held(r)
    BY DEF BookInv, CallsSound, NumberInv
<1>1. ASSUME pc'[r] \in PCs \ {"mnoInsert", "saveLoan", "awardLoan"},
             pc'[r] \notin {"updNumber", "updInsert", "reload", "fallback", "apply"},
             next'[r] \notin {"reload", "apply"}
      PROVE  CopyFollows(r)'
    BY <1>1 DEF CopyFollows
<1>2. CASE createNumber(r) \/ countLoans(r) \/ disburseUser(r) \/ recalculateTotalRepaid(r)
    <2>1. pc'[r] \in {"insert", "saveUser"} /\ next'[r] = "idle"
        BY <1>2 DEF createNumber, countLoans, disburseUser, recalculateTotalRepaid, At, BookInv, Domains
    <2> QED
        BY <1>1, <2>1 DEF PCs
<1>3. CASE createInsert(r) \/ removeDelete(r)
    <2>1. pc'[r] \in {"idle", "count"} /\ next'[r] = "idle"
        BY <1>3, <1>h DEF createInsert, removeDelete, Finish, Goto, At, BookInv, Domains, CallSound
    <2> QED
        BY <1>1, <2>1 DEF PCs
<1>4. CASE saveUser(r)
    BY <1>4, ProceedFollows DEF saveUser
<1>5. CASE saveLoan(r)
    BY <1>5, ProceedFollows DEF saveLoan
<1>6. CASE award(r)
    <2>1. CASE Proceed(r)
        BY <1>6, <2>1, ProceedFollows DEF award
    <2>2. CASE ~Proceed(r)
        <3> DEFINE l == tx[arg[r].t].loan
                   after == creditLoan(loan[l], tx[arg[r].t].amount)
        <3>1. /\ \E ur : At(r, "awardLoan", next[r], arg[r], row[r], ur)
              /\ credited' = [credited EXCEPT ![r] = after]
              /\ l \in Rows /\ UNCHANGED <<loan, tx>>
            BY <1>6, <2>2 DEF award
        <3>2. /\ pc'[r] = "awardLoan" /\ next'[r] = next[r] /\ arg'[r] = arg[r]
              /\ credited'[r] = after
            BY <3>1 DEF BookInv, Domains, At
        <3>3. Follows(after, l)
            BY <3>1, CreditedFollows
        <3>4. Follows(after, l)'
            BY <3>1, <3>3 DEF Follows, Rows, creditLoan, MayBecome
        <3>5. tx'[arg'[r].t].loan = l
            BY <3>1, <3>2
        <3>6. Follows(credited[r], tx[arg[r].t].loan)'
            BY <3>1, <3>2, <3>3, <3>5 DEF Follows, Rows
        <3>7. next[r] = "reload" => arg[r].b.status = NoStatus
            BY <1>6 DEF award, CopyFollows
        <3> QED
            BY <3>2, <3>6, <3>7 DEF CopyFollows
    <2> QED
        BY <2>1, <2>2
<1>7. CASE awardLoan(r)
    <2>1. pc'[r] = "awardUser" /\ next'[r] = next[r] /\ arg'[r] = arg[r] /\ pc[r] = "awardLoan"
        BY <1>7 DEF awardLoan, Goto, At, BookInv, Domains
    <2> QED
        BY <1>h, <2>1 DEF CopyFollows, CallSound
<1>8. CASE awardUser(r)
    <2>1. CASE Proceed(r)
        BY <1>8, <2>1, ProceedFollows DEF awardUser
    <2>2. CASE ~Proceed(r)
        <3>1. PICK n : At(r, "awardHistory", next[r],
                          Arg(arg[r].u, arg[r].l, arg[r].t, n, arg[r].a, arg[r].b),
                          row[r], usr[r])
            BY <1>8, <2>2 DEF awardUser
        <3>2. /\ pc'[r] = "awardHistory" /\ next'[r] = next[r] /\ arg'[r].b = arg[r].b
              /\ pc[r] = "awardUser"
            BY <1>8, <3>1 DEF At, Arg, BookInv, Domains, awardUser
        <3> QED
            BY <1>h, <3>2 DEF CopyFollows, CallSound
    <2> QED
        BY <2>1, <2>2
<1>9. CASE awardHistory(r)
    BY <1>9, ProceedFollows DEF awardHistory
<1>10. CASE awardThrows(r)
    <2>1. CASE next[r] = "reload"
        <3>1. /\ pc'[r] = "fallback" /\ next'[r] = "idle" /\ arg'[r] = arg[r] /\ row'[r] = row[r]
              /\ UNCHANGED loan /\ pc[r] = "award"
            BY <1>10, <2>1 DEF awardThrows, At, BookInv, Domains
        <3>2. Rows' = Rows
            BY <3>1 DEF Rows
        <3> QED
            BY <2>1, <3>1, <3>2 DEF CopyFollows
    <2>2. CASE next[r] # "reload"
        BY <1>10, <2>2, ProceedFollows DEF awardThrows
    <2> QED
        BY <2>1, <2>2
<1>11. CASE repaymentInsert(r)
    <2>1. PICK t \in Txs : At(r, "saveLoan", "award",
                               Arg(arg[r].u, arg[r].l, t, 0, arg[r].a, NoBody), row[r], NoRow)
        BY <1>11 DEF repaymentInsert
    <2>2. /\ pc'[r] = "saveLoan" /\ next'[r] = "award" /\ arg'[r].l = arg[r].l /\ row'[r] = row[r]
          /\ pc[r] = "mnoInsert" /\ UNCHANGED loan
        BY <1>11, <2>1 DEF repaymentInsert, At, Arg, BookInv, Domains
    <2> QED
        BY <2>2 DEF CopyFollows, Follows, Rows
<1>12. CASE repaymentPending(r)
    <2>1. pc'[r] \in {"idle", "load"} /\ next'[r] = "idle"
        BY <1>12 DEF repaymentPending, Finish, At, BookInv, Domains
    <2> QED
        BY <1>1, <2>1 DEF PCs
<1>13. CASE repaymentReconcile(r) \/ reconcilePatch(r)
    <2>1. pc'[r] \in {"idle", "patch", "reread"} /\ next'[r] = "idle"
        BY <1>13, <1>h DEF repaymentReconcile, Reconciling, reconcilePatch, Finish, Goto, At, BookInv,
                          Domains, CallSound
    <2> QED
        BY <1>1, <2>1 DEF PCs
<1>14. CASE reconcileReread(r)
    <2>1. pc'[r] \in {"idle", "award", "recalc"} /\ next'[r] \in {"idle", "recalc"}
        BY <1>14, <1>h DEF reconcileReread, Finish, Goto, At, BookInv, Domains, CallSound
    <2> QED
        BY <1>1, <2>1 DEF PCs
<1>15. CASE updateNumber(r)
    <2>1. /\ pc'[r] = "updInsert" /\ arg'[r].l = arg[r].l /\ arg'[r].b = arg[r].b /\ row'[r] = row[r]
          /\ pc[r] = "updNumber" /\ UNCHANGED loan
        BY <1>15 DEF updateNumber, At, Arg, BookInv, Domains
    <2> QED
        BY <2>1 DEF CopyFollows, Rows
<1>16. CASE updateInsert(r)
    <2>1. /\ pc'[r] = "apply" \/ (pc'[r] = "award" /\ next'[r] = "reload")
          /\ arg'[r].l = arg[r].l /\ arg'[r].b = arg[r].b /\ row'[r] = row[r]
          /\ pc[r] = "updInsert" /\ UNCHANGED loan
        BY <1>16 DEF updateInsert, Goto, At, Arg, BookInv, Domains
    <2> QED
        BY <2>1 DEF CopyFollows, Rows
<1>17. CASE updateReload(r)
    <2>1. /\ pc'[r] = "apply" /\ arg'[r] = arg[r] /\ UNCHANGED loan /\ pc[r] = "reload"
          /\ arg[r].l \in Rows => row'[r].status = loan[arg[r].l].status
        BY <1>17 DEF updateReload, At, BookInv, Domains
    <2> QED
        BY <2>1 DEF CopyFollows, Rows
<1>18. CASE updateFallback(r)
    <2>1. /\ pc'[r] = "saveUser" /\ next'[r] = "apply" /\ arg'[r] = arg[r] /\ row'[r] = row[r]
          /\ pc[r] = "fallback" /\ UNCHANGED loan
        BY <1>18 DEF updateFallback, At, BookInv, Domains
    <2> QED
        BY <2>1 DEF CopyFollows, Rows
<1>19. CASE updateApply(r) \/ Crash(r)
    <2>1. pc'[r] = "idle" /\ next'[r] = "idle"
        BY <1>19 DEF updateApply, Crash, Finish, At, BookInv, Domains
    <2> QED
        BY <1>1, <2>1 DEF PCs
<1> QED
    BY <1>2, <1>3, <1>4, <1>5, <1>6, <1>7, <1>8, <1>9, <1>10, <1>11, <1>12, <1>13, <1>14,
       <1>15, <1>16, <1>17, <1>18, <1>19 DEF Step

\* A step that writes a loan writes what may follow.
LEMMA WrittenFollows ==
    ASSUME BookInv, NEW r \in Calls, CopyFollows(r), Step(r) \/ Crash(r),
           NEW l \in Rows, l \in Rows'
    PROVE  \/ loan'[l].status = loan[l].status
           \/ MayBecome(loan[l].status, loan'[l].status)
<1>1. CASE UNCHANGED loan
    BY <1>1
<1>2. ASSUME NEW k, NEW lr, loan' = [loan EXCEPT ![k] = lr], Follows(lr, k)
      PROVE  \/ loan'[l].status = loan[l].status
             \/ MayBecome(loan[l].status, loan'[l].status)
    BY <1>2 DEF Follows, Rows, BookInv, Domains
<1>3. CASE createInsert(r)
    <2>1. CASE UNCHANGED loan
        BY <1>1, <2>1
    <2>2. CASE ~UNCHANGED loan
        <3>1. PICK k \in Loans :
                  loan[k] = NoRow /\ \E lr : loan' = [loan EXCEPT ![k] = lr]
            BY <1>3, <2>2 DEF createInsert
        <3>2. k # l
            BY <3>1 DEF Rows
        <3> QED
            BY <3>1, <3>2 DEF BookInv, Domains
    <2> QED
        BY <2>1, <2>2
<1>4. CASE removeDelete(r)
    BY <1>4 DEF removeDelete, Rows, BookInv, Domains
<1>5. CASE saveLoan(r)
    BY <1>2, <1>5 DEF saveLoan, CopyFollows
<1>6. CASE awardLoan(r)
    BY <1>2, <1>6 DEF awardLoan, CopyFollows
<1>7. CASE updateApply(r)
    <2>1. Follows(Patched(row[r], arg[r].b), arg[r].l)
        BY <1>7, PatchedFollows DEF updateApply, CopyFollows, InUpdate
    <2> QED
        BY <1>2, <1>7, <2>1 DEF updateApply
<1>8. CASE ~\/ createInsert(r) \/ removeDelete(r) \/ saveLoan(r) \/ awardLoan(r) \/ updateApply(r)
    BY <1>1, <1>8 DEF Step, Crash, createNumber, countLoans, saveUser, disburseUser, award,
       awardUser, awardHistory, awardThrows, repaymentInsert, repaymentPending,
       repaymentReconcile, reconcilePatch, reconcileReread, recalculateTotalRepaid,
       updateNumber, updateInsert, updateReload, updateFallback
<1> QED
    BY <1>3, <1>4, <1>5, <1>6, <1>7, <1>8

\* No call is in flight at first.
LEMMA StatusInit == Init => StatusInv
BY DEF Init, StatusInv, Alone, CopyFollows, InUpdate, AwardPCs

\* One call at a time keeps its copy in line.
LEMMA StatusKept ==
    ASSUME MaxActive = 1, ~Faults, StatusUnforced, BookInv, NumberInv, StatusInv, [Next]_vars
    PROVE  StatusInv'
<1>1. CASE UNCHANGED vars
    BY <1>1 DEF vars, StatusInv, Alone, CopyFollows, InUpdate, Follows, Rows
<1>2. CASE Next
    <2>1. PICK r \in Calls : Arrive(r) \/ Step(r) \/ Crash(r)
        BY <1>2 DEF Next
    <2>2. /\ Moves(r) /\ Alone'
          /\ \A s \in Calls \ {r} : pc[s] = "idle" /\ pc'[s] = "idle"
        BY <2>1, OneMoves DEF StatusInv
    <2>3. \A s \in Calls \ {r} : CopyFollows(s)'
        BY <2>2 DEF CopyFollows, InUpdate, AwardPCs
    <2>4. CopyFollows(r)'
        BY <2>1, ArriveFollows, StepFollows DEF StatusInv
    <2> QED
        BY <2>2, <2>3, <2>4 DEF StatusInv
<1> QED
    BY <1>1, <1>2

\* As long as calls do not overlap, none fails half-way and no administrator
\* forces a status, a loan only moves on: requested, approved or rejected,
\* disbursed, repaying, completed.
THEOREM StatusesOnlyMoveOn ==
    ASSUME MaxActive = 1, ~Faults, StatusUnforced
    PROVE  Spec => StatusForward
<1>1. ASSUME BookInv, StatusInv, [Next]_vars
      PROVE  [\A l \in Rows : l \in Rows' =>
                 loan'[l].status = loan[l].status \/ MayBecome(loan[l].status, loan'[l].status)]_vars
    <2>1. CASE UNCHANGED vars
        BY <2>1
    <2>2. CASE Next
        <3>1. PICK r \in Calls : Arrive(r) \/ Step(r) \/ Crash(r)
            BY <2>2 DEF Next
        <3>2. CASE Arrive(r)
            BY <1>1, <3>2, ArriveMoves
        <3>3. CASE Step(r) \/ Crash(r)
            BY <1>1, <3>3, WrittenFollows DEF StatusInv
        <3> QED
            BY <3>1, <3>2, <3>3
    <2> QED
        BY <1>1, <2>1, <2>2
<1>2. BookInv /\ NumberInv /\ StatusInv /\ [Next]_vars => StatusInv'
    BY StatusKept
<1> QED
    BY <1>1, <1>2, StatusInit, BookInvariant, NumberInvariant, PTL DEF Spec, StatusForward

-----------------------------------------------------------------------------
\* Sums.  MapThenSumSet takes the elements out of the set one by one, in an order
\* CHOOSE fixes: it depends on neither the order nor the set it is part of.

\* g sums w over every subset of S, as MapThenSumSet does.
Sums(g, w, S) ==
    g = [s \in SUBSET S |->
            IF s = {} THEN 0
            ELSE w[CHOOSE x \in s : TRUE] + g[s \ {CHOOSE x \in s : TRUE}]]

\* One more step of the definition of Sums.
LEMMA SumsStep ==
    ASSUME NEW S, NEW w, NEW g, Sums(g, w, S)
    PROVE  /\ g[{}] = 0
           /\ \A s \in SUBSET S : s # {} =>
                 \E x \in s : g[s] = w[x] + g[s \ {x}]
<1> DEFINE F == [s \in SUBSET S |->
                    IF s = {} THEN 0
                    ELSE w[CHOOSE x \in s : TRUE] + g[s \ {CHOOSE x \in s : TRUE}]]
<1>1. g = F
    BY DEF Sums
<1>2. F[{}] = 0
    OBVIOUS
<1>3. ASSUME NEW s \in SUBSET S, s # {}
      PROVE  \E x \in s : F[s] = w[x] + g[s \ {x}]
    <2>1. (CHOOSE x \in s : TRUE) \in s
        BY <1>3
    <2>2. F[s] = w[CHOOSE x \in s : TRUE] + g[s \ {CHOOSE x \in s : TRUE}]
        BY <1>3
    <2> QED
        BY <2>1, <2>2
<1> HIDE DEF F
<1> QED
    BY <1>1, <1>2, <1>3

\* A set of naturals that is not empty has a least element.
LEMMA LeastNatural ==
    ASSUME NEW N \in SUBSET Nat, N # {}
    PROVE  \E n \in N : \A m \in N : n <= m
<1>1. PICK n \in N : \A m \in N : <<m, n>> \notin OpToRel(<, Nat)
    BY WFMin, NatLessThanWellFounded, Zenon
<1>2. \A m \in N : ~(m < n)
    BY <1>1, Zenon DEF OpToRel
<1> QED
    BY <1>2

\* Among finite sets, one of the smallest.
LEMMA SmallestSet ==
    ASSUME NEW C, C # {}, \A s \in C : IsFiniteSet(s)
    PROVE  \E s \in C : \A z \in C : Cardinality(s) <= Cardinality(z)
<1> DEFINE N == {Cardinality(s) : s \in C}
<1>1. N \in SUBSET Nat /\ N # {}
    BY FS_CardinalityType
<1>2. PICK n \in N : \A m \in N : n <= m
    BY <1>1, LeastNatural
<1> QED
    BY <1>2

\* There is such a function for every finite set.
LEMMA SumsExist ==
    ASSUME NEW S, IsFiniteSet(S), NEW w
    PROVE  \E g : Sums(g, w, S)
<1> DEFINE Small(n) == {s \in SUBSET S : Cardinality(s) <= n}
           F(g, n) == [s \in Small(n) |->
                         IF s = {} THEN 0
                         ELSE w[CHOOSE x \in s : TRUE] + g[s \ {CHOOSE x \in s : TRUE}]]
           Reached == {n \in Nat : \E g : g = F(g, n)}
<1>s. \A s \in SUBSET S : IsFiniteSet(s) /\ Cardinality(s) \in Nat
    BY FS_Subset, FS_CardinalityType
<1>1. ASSUME NEW n \in Nat, NEW s \in Small(n), s # {}
      PROVE  LET x == CHOOSE x \in s : TRUE
             IN  /\ s \ {x} \in Small(n) /\ Cardinality(s \ {x}) = Cardinality(s) - 1
                 /\ s \ {x} \in SUBSET S
    <2> DEFINE x == CHOOSE x \in s : TRUE
    <2>1. x \in s
        BY <1>1
    <2>2. IsFiniteSet(s) /\ Cardinality(s) \in Nat /\ s \in SUBSET S /\ Cardinality(s) <= n
        BY <1>s
    <2>3. Cardinality(s \ {x}) = Cardinality(s) - 1
        BY <2>1, <2>2, FS_RemoveElement
    <2>4. s \ {x} \in SUBSET S
        BY <2>2
    <2> HIDE DEF x
    <2>5. s \ {x} \in Small(n)
        BY <2>2, <2>3, <2>4
    <2> QED
        BY <2>3, <2>4, <2>5 DEF x
<1>2. 0 \in Reached
    <2> DEFINE g == [s \in Small(0) |-> 0]
    <2>1. \A s \in Small(0) : s = {}
        BY <1>s, FS_EmptySet
    <2>2. g = F(g, 0)
        BY <2>1
    <2> QED
        BY <2>2
<1>3. ASSUME NEW n \in Nat, n \in Reached
      PROVE  n + 1 \in Reached
    <2>1. PICK g : g = F(g, n)
        BY <1>3
    <2>2. PICK h : h = [s \in Small(n + 1) |->
                            IF s = {} THEN 0
                            ELSE w[CHOOSE x \in s : TRUE] + g[s \ {CHOOSE x \in s : TRUE}]]
        OBVIOUS
    <2>3. ASSUME NEW s \in Small(n)
          PROVE  h[s] = g[s]
        <3>1. s \in Small(n + 1)
            BY <1>s
        <3>2. g[s] = F(g, n)[s]
            BY <2>1
        <3> QED
            BY <2>2, <3>1, <3>2
    <2>4. ASSUME NEW s \in Small(n + 1), s # {}
          PROVE  s \ {CHOOSE x \in s : TRUE} \in Small(n)
        <3> DEFINE x == CHOOSE x \in s : TRUE
        <3>0. n + 1 \in Nat /\ Cardinality(s) <= n + 1 /\ Cardinality(s) \in Nat
            BY <1>s
        <3>1. Cardinality(s \ {x}) = Cardinality(s) - 1 /\ s \ {x} \in SUBSET S
            BY <1>1, <2>4, <3>0
        <3> HIDE DEF x
        <3>2. Cardinality(s \ {x}) <= n
            BY <3>0, <3>1
        <3> QED
            BY <3>1, <3>2 DEF x
    <2>5. \A s \in Small(n + 1) : s # {} =>
              h[s \ {CHOOSE x \in s : TRUE}] = g[s \ {CHOOSE x \in s : TRUE}]
        BY <2>3, <2>4
    <2> HIDE DEF Small
    <2>6. h = F(h, n + 1)
        <3> DEFINE A(s) == IF s = {} THEN 0
                           ELSE w[CHOOSE x \in s : TRUE] + g[s \ {CHOOSE x \in s : TRUE}]
                   B(s) == IF s = {} THEN 0
                           ELSE w[CHOOSE x \in s : TRUE] + h[s \ {CHOOSE x \in s : TRUE}]
        <3>1. \A s \in Small(n + 1) : A(s) = B(s)
            BY <2>5
        <3> HIDE DEF A, B
        <3>2. [s \in Small(n + 1) |-> A(s)] = [s \in Small(n + 1) |-> B(s)]
            BY <3>1
        <3> QED
            BY <2>2, <3>2 DEF A, B
    <2> QED
        BY <2>6
<1>4. \A n \in Nat : n \in Reached
    <2> SUFFICES ASSUME Nat \ Reached # {} PROVE FALSE
        OBVIOUS
    <2>1. PICK n \in Nat \ Reached : \A m \in Nat \ Reached : n <= m
        BY LeastNatural
    <2> HIDE DEF Reached
    <2>2. n # 0 /\ n - 1 \in Nat
        BY <1>2, <2>1
    <2>3. n - 1 \in Reached
        BY <2>1, <2>2
    <2>4. (n - 1) + 1 \in Reached
        BY <1>3, <2>2, <2>3
    <2> QED
        BY <2>1, <2>4
<1>5. PICK g : g = F(g, Cardinality(S))
    BY <1>4, <1>s
<1>6. Small(Cardinality(S)) = SUBSET S
    BY FS_Subset
<1> QED
    BY <1>5, <1>6 DEF Sums

\* Two of them agree wherever the values do, whatever the sets they are defined on.
LEMMA SumsAgree ==
    ASSUME NEW S, NEW T, NEW v, NEW w, NEW g, NEW h, Sums(g, v, S), Sums(h, w, T),
           NEW R \in SUBSET (S \intersect T), IsFiniteSet(R), \A x \in R : v[x] = w[x]
    PROVE  g[R] = h[R]
<1> DEFINE C == {s \in SUBSET R : g[s] # h[s]}
<1>s. \A s \in SUBSET R : IsFiniteSet(s) /\ Cardinality(s) \in Nat
    BY FS_Subset, FS_CardinalityType
<1> SUFFICES ASSUME C # {} PROVE FALSE
    OBVIOUS
<1>1. PICK s \in C : \A z \in C : Cardinality(s) <= Cardinality(z)
    BY <1>s, SmallestSet
<1> HIDE DEF C
<1>2. s \in SUBSET R /\ g[s] # h[s]
    BY DEF C
<1>3. s # {}
    BY <1>2, SumsStep
<1> DEFINE x == CHOOSE x \in s : TRUE
<1>4. x \in s
    BY <1>3
<1>5. g[s] = v[x] + g[s \ {x}]
    BY <1>2, <1>3 DEF Sums
<1>6. h[s] = w[x] + h[s \ {x}]
    BY <1>2, <1>3 DEF Sums
<1> HIDE DEF x
<1>7. g[s \ {x}] # h[s \ {x}]
    BY <1>2, <1>4, <1>5, <1>6
<1>8. s \ {x} \in C
    BY <1>2, <1>7 DEF C
<1>9. Cardinality(s \ {x}) = Cardinality(s) - 1 /\ Cardinality(s) \in Nat
    BY <1>s, <1>2, <1>4, FS_RemoveElement
<1> QED
    BY <1>1, <1>8, <1>9

\* They are integers when the values are, and any element may be taken out first.
AnyOrder(g, w, S) ==
    \A s \in SUBSET S : g[s] \in Int /\ \A x \in s : g[s] = w[x] + g[s \ {x}]

LEMMA SumsAny ==
    ASSUME NEW S, IsFiniteSet(S), NEW w, \A x \in S : w[x] \in Int, NEW g, Sums(g, w, S)
    PROVE  AnyOrder(g, w, S)
<1> DEFINE OK(s) == g[s] \in Int /\ \A x \in s : g[s] = w[x] + g[s \ {x}]
           C == {s \in SUBSET S : ~OK(s)}
<1>s. \A s \in SUBSET S : IsFiniteSet(s) /\ Cardinality(s) \in Nat
    BY FS_Subset, FS_CardinalityType
<1> SUFFICES ASSUME C # {} PROVE FALSE
    BY DEF AnyOrder
<1>1. PICK s \in C : \A z \in C : Cardinality(s) <= Cardinality(z)
    BY <1>s, SmallestSet
<1>2. s \in SUBSET S /\ ~OK(s)
    OBVIOUS
<1>3. ASSUME NEW x \in s
      PROVE  /\ s \ {x} \in SUBSET S /\ OK(s \ {x})
             /\ \A y \in s \ {x} : (s \ {x}) \ {y} \in SUBSET S /\ OK((s \ {x}) \ {y})
    <2>1. Cardinality(s \ {x}) = Cardinality(s) - 1 /\ Cardinality(s) \in Nat
        BY <1>s, <1>2, FS_RemoveElement
    <2>2. s \ {x} \in SUBSET S /\ IsFiniteSet(s \ {x})
        BY <1>s, <1>2
    <2> HIDE DEF OK
    <2>3. OK(s \ {x})
        BY <1>1, <2>1, <2>2
    <2>4. ASSUME NEW y \in s \ {x}
          PROVE  (s \ {x}) \ {y} \in SUBSET S /\ OK((s \ {x}) \ {y})
        <3>1. Cardinality((s \ {x}) \ {y}) = Cardinality(s \ {x}) - 1
            BY <2>2, FS_RemoveElement
        <3>2. (s \ {x}) \ {y} \in SUBSET S
            BY <2>2
        <3> QED
            BY <1>1, <2>1, <3>1, <3>2
    <2> QED
        BY <2>2, <2>3, <2>4
<1>4. s # {}
    <2>1. ASSUME s = {} PROVE OK(s)
        BY <2>1, SumsStep
    <2> HIDE DEF OK
    <2> QED
        BY <1>2, <2>1
<1>5. PICK c \in s : g[s] = w[c] + g[s \ {c}]
    BY <1>2, <1>4, SumsStep
<1>6. g[s \ {c}] \in Int /\ w[c] \in Int
    BY <1>2, <1>3
<1>7. ASSUME NEW x \in s
      PROVE  g[s] = w[x] + g[s \ {x}]
    <2>1. CASE x = c
        BY <1>5, <2>1
    <2>2. CASE x # c
        <3>1. g[s \ {c}] = w[x] + g[(s \ {c}) \ {x}]
            BY <1>3, <2>2
        <3>2. g[s \ {x}] = w[c] + g[(s \ {x}) \ {c}]
            BY <1>3, <2>2
        <3> DEFINE rest == g[(s \ {x}) \ {c}]
        <3>3. (s \ {c}) \ {x} = (s \ {x}) \ {c}
            OBVIOUS
        <3>4. rest \in Int /\ w[x] \in Int /\ w[c] \in Int
            BY <1>2, <1>3, <2>2
        <3>5. g[s \ {c}] = w[x] + rest
            BY <3>1, <3>3
        <3> HIDE DEF rest
        <3>6. g[s] = w[c] + (w[x] + rest) /\ w[c] + (w[x] + rest) = w[x] + (w[c] + rest)
            BY <1>5, <3>4, <3>5
        <3> QED
            BY <3>2, <3>6 DEF rest
    <2> QED
        BY <2>1, <2>2
<1>8. OK(s)
    BY <1>5, <1>6, <1>7
<1> HIDE DEF OK
<1> QED
    BY <1>2, <1>8

\* The sum of w over S.
SumOf(w, S) == (CHOOSE g : Sums(g, w, S))[S]

\* What SumOf is: nothing over the empty set, and one element more adds its value.
LEMMA SumFacts ==
    ASSUME NEW S, IsFiniteSet(S), NEW w, \A x \in S : w[x] \in Int
    PROVE  /\ SumOf(w, S) \in Int
           /\ S = {} => SumOf(w, S) = 0
           /\ \A x \in S : SumOf(w, S) = w[x] + SumOf(w, S \ {x})
<1> DEFINE g == CHOOSE h : Sums(h, w, S)
<1>1. Sums(g, w, S)
    <2>1. \E h : Sums(h, w, S)
        BY SumsExist
    <2> QED
        BY <2>1, Zenon
<1>2. SumOf(w, S) = g[S]
    BY DEF SumOf
<1> HIDE DEF g
<1>3. ASSUME NEW x \in S
      PROVE  SumOf(w, S \ {x}) = g[S \ {x}]
    <2> DEFINE k == CHOOSE h : Sums(h, w, S \ {x})
    <2>1. Sums(k, w, S \ {x})
        <3>1. IsFiniteSet(S \ {x})
            BY FS_RemoveElement
        <3>2. \E h : Sums(h, w, S \ {x})
            BY <3>1, SumsExist
        <3> QED
            BY <3>2, Zenon
    <2>2. SumOf(w, S \ {x}) = k[S \ {x}]
        BY DEF SumOf
    <2> HIDE DEF k
    <2>3. S \ {x} \in SUBSET (S \intersect (S \ {x})) /\ IsFiniteSet(S \ {x})
        BY FS_RemoveElement
    <2> QED
        BY <1>1, <2>1, <2>2, <2>3, SumsAgree
<1>4. g[S] \in Int /\ \A x \in S : g[S] = w[x] + g[S \ {x}]
    <2>1. AnyOrder(g, w, S)
        BY <1>1, SumsAny
    <2>2. S \in SUBSET S
        OBVIOUS
    <2> QED
        BY <2>1, <2>2 DEF AnyOrder
<1>5. g[{}] = 0
    BY <1>1, SumsStep
<1> QED
    BY <1>2, <1>3, <1>4, <1>5

\* Only the values in the set count.
LEMMA SumSame ==
    ASSUME NEW S, IsFiniteSet(S), NEW v, NEW w, \A x \in S : v[x] = w[x]
    PROVE  SumOf(v, S) = SumOf(w, S)
<1> DEFINE g == CHOOSE h : Sums(h, v, S)
           k == CHOOSE h : Sums(h, w, S)
<1>1. Sums(g, v, S) /\ Sums(k, w, S)
    <2>1. (\E h : Sums(h, v, S)) /\ (\E h : Sums(h, w, S))
        BY SumsExist
    <2> QED
        BY <2>1, Zenon
<1>2. SumOf(v, S) = g[S] /\ SumOf(w, S) = k[S]
    BY DEF SumOf
<1> HIDE DEF g, k
<1>3. S \in SUBSET (S \intersect S)
    OBVIOUS
<1> QED
    BY <1>1, <1>2, <1>3, SumsAgree

\* A value that changes moves the sum by as much.
LEMMA SumChanged ==
    ASSUME NEW S, IsFiniteSet(S), NEW v, NEW w, \A x \in S : v[x] \in Int /\ w[x] \in Int,
           NEW c \in S, \A x \in S \ {c} : v[x] = w[x]
    PROVE  SumOf(w, S) = SumOf(v, S) + (w[c] - v[c])
<1>1. IsFiniteSet(S \ {c})
    BY FS_RemoveElement
<1>2. SumOf(v, S \ {c}) = SumOf(w, S \ {c})
    BY <1>1, SumSame
<1>3. SumOf(v, S \ {c}) \in Int
    BY <1>1, SumFacts
<1>4. SumOf(v, S) = v[c] + SumOf(v, S \ {c}) /\ SumOf(w, S) = w[c] + SumOf(w, S \ {c})
    BY SumFacts
<1> QED
    BY <1>2, <1>3, <1>4

\* A row more adds its value.
LEMMA SumAdded ==
    ASSUME NEW S, IsFiniteSet(S), NEW c, c \notin S, NEW v, NEW w,
           \A x \in S : v[x] \in Int /\ w[x] = v[x], w[c] \in Int
    PROVE  SumOf(w, S \union {c}) = SumOf(v, S) + w[c]
<1>1. IsFiniteSet(S \union {c}) /\ (S \union {c}) \ {c} = S
    BY FS_AddElement
<1>2. SumOf(w, S \union {c}) = w[c] + SumOf(w, S)
    BY <1>1, SumFacts
<1>3. SumOf(w, S) = SumOf(v, S) /\ SumOf(v, S) \in Int
    BY SumSame, SumFacts
<1> QED
    BY <1>2, <1>3

\* The columns that are summed.
Amount == [t \in Txs |-> tx[t].amount]
Point == [t \in Txs |-> history[t].points]

\* MapThenSumSet sums the amounts.
LEMMA AmountOfIsSum ==
    ASSUME NEW S \in SUBSET Txs, IsFiniteSet(S)
    PROVE  AmountOf(S) = SumOf(Amount, S)
<1> DEFINE Body(g) == [s \in SUBSET S |->
                          IF s = {} THEN 0
                          ELSE LET x == CHOOSE x \in s : TRUE IN tx[x].amount + g[s \ {x}]]
<1>1. AmountOf(S) = (CHOOSE g : g = Body(g))[S]
    BY Zenon DEF AmountOf, MapThenSumSet, MapThenFoldSet
<1>2. ASSUME NEW g
      PROVE  g = Body(g) <=> Sums(g, Amount, S)
    <2>1. \A s \in SUBSET S : s # {} => (CHOOSE x \in s : TRUE) \in Txs
        OBVIOUS
    <2>2. Body(g) = [s \in SUBSET S |->
                        IF s = {} THEN 0
                        ELSE Amount[CHOOSE x \in s : TRUE] + g[s \ {CHOOSE x \in s : TRUE}]]
        BY <2>1 DEF Amount
    <2> QED
        BY <2>2 DEF Sums
<1>3. PICK h : Sums(h, Amount, S)
    BY SumsExist
<1> HIDE DEF Body
<1>4. h = Body(h)
    BY <1>2, <1>3
<1>5. (CHOOSE g : g = Body(g)) = Body(CHOOSE g : g = Body(g))
    BY <1>4, Zenon
<1>6. Sums(CHOOSE g : g = Body(g), Amount, S)
    BY <1>2, <1>5
<1>7. Sums(CHOOSE g : Sums(g, Amount, S), Amount, S)
    BY <1>3, Zenon
<1>8. S \in SUBSET (S \intersect S)
    OBVIOUS
<1> QED
    BY <1>1, <1>6, <1>7, <1>8, SumsAgree DEF SumOf

\* And the points.
LEMMA PointsAreSum ==
    ASSUME NEW S \in SUBSET Txs, IsFiniteSet(S)
    PROVE  MapThenSumSet(LAMBDA t : history[t].points, S) = SumOf(Point, S)
<1> DEFINE Body(g) == [s \in SUBSET S |->
                          IF s = {} THEN 0
                          ELSE LET x == CHOOSE x \in s : TRUE IN history[x].points + g[s \ {x}]]
<1>1. MapThenSumSet(LAMBDA t : history[t].points, S) = (CHOOSE g : g = Body(g))[S]
    BY Zenon DEF MapThenSumSet, MapThenFoldSet
<1>2. ASSUME NEW g
      PROVE  g = Body(g) <=> Sums(g, Point, S)
    <2>1. \A s \in SUBSET S : s # {} => (CHOOSE x \in s : TRUE) \in Txs
        OBVIOUS
    <2>2. Body(g) = [s \in SUBSET S |->
                        IF s = {} THEN 0
                        ELSE Point[CHOOSE x \in s : TRUE] + g[s \ {CHOOSE x \in s : TRUE}]]
        BY <2>1 DEF Point
    <2> QED
        BY <2>2 DEF Sums
<1>3. PICK h : Sums(h, Point, S)
    BY SumsExist
<1> HIDE DEF Body
<1>4. h = Body(h)
    BY <1>2, <1>3
<1>5. (CHOOSE g : g = Body(g)) = Body(CHOOSE g : g = Body(g))
    BY <1>4, Zenon
<1>6. Sums(CHOOSE g : g = Body(g), Point, S)
    BY <1>2, <1>5
<1>7. Sums(CHOOSE g : Sums(g, Point, S), Point, S)
    BY <1>3, Zenon
<1>8. S \in SUBSET (S \intersect S)
    OBVIOUS
<1> QED
    BY <1>1, <1>6, <1>7, <1>8, SumsAgree DEF SumOf

-----------------------------------------------------------------------------
\* TypeOK.  A column is written from a copy, so that a copy that will still be
\* written is a row; and numbers and totals are counts and sums of finite sets.

TablesTyped ==
    /\ loan \in [Loans -> LoanRow \union {NoRow, Deleted}]
    /\ tx \in [Txs -> TxRow \union {NoRow}]
    /\ user \in [Users -> UserRow]
    /\ history \in [Txs -> [rows : Nat, points : Nat]]
    /\ calls \in 0..MaxCalls
    /\ IsFiniteSet(Rows) /\ IsFiniteSet(TxRows)

ArgTyped(a) ==
    /\ a.u \in Users \union {NoUser} /\ a.l \in Loans \union {NoLoan}
    /\ a.t \in Txs \union {NoTx} /\ a.n \in Nat /\ a.a \in Int

LEMMA InitTyped == Init => TypeInv
<1> SUFFICES ASSUME Init PROVE TypeInv
    OBVIOUS
<1>1. PICK number \in [Live -> 1..Cardinality(Live)], owner \in [Live -> Users] :
          /\ loan = [l \in Loans |-> IF l \notin Live THEN NoRow ELSE
                [loanId |-> number[l], user |-> owner[l], status |-> "DISBURSED",
                 amount |-> StartAmount, amountDue |-> StartAmount,
                 amountPaid |-> 0, outstandingAmount |-> StartAmount]]
          /\ user = [u \in Users |->
                [creditScore |-> 0, creditLimit |-> StartLimit,
                 totalLoans |-> Cardinality({l \in Live : owner[l] = u}),
                 totalRepaid |-> 0,
                 repaymentStatus |-> "PENDING"]]
    BY DEF Init
<1>2. Cardinality(Live) \in Nat /\ \A l \in Live : number[l] \in Nat
    BY BookAssumption, FS_CardinalityType
<1>3. \A u \in Users : Cardinality({l \in Live : owner[l] = u}) \in Nat
    BY BookAssumption, FS_Subset, FS_CardinalityType
<1>4. loan \in [Loans -> LoanRow \union {NoRow, Deleted}]
    BY <1>1, <1>2, BookAssumption DEF LoanRow, LoanStatus
<1>5. user \in [Users -> UserRow]
    BY <1>1, <1>3, BookAssumption DEF UserRow, RepaymentStatus
<1>6. IsFiniteSet(Rows)
    <2>1. Rows \subseteq Live
        BY <1>1 DEF Rows
    <2> QED
        BY <2>1, BookAssumption, FS_Subset
<1>7. IsFiniteSet(TxRows)
    <2>1. TxRows = {}
        BY DEF Init, TxRows
    <2> QED
        BY <2>1, FS_EmptySet
<1>8. TypeOK
    BY <1>4, <1>5, BookAssumption DEF Init, TypeOK, Arg, PCs
<1>9. \A r \in Calls : CopyTyped(r)
    BY DEF Init, CopyTyped, InUpdate, AwardPCs
<1> QED
    BY <1>6, <1>7, <1>8, <1>9 DEF TypeInv

\* What the invariant says, taken apart.
LEMMA TypedParts ==
    ASSUME TypeInv
    PROVE  /\ TablesTyped
           /\ \A r \in Calls : CopyTyped(r) /\ ArgTyped(arg[r])
           /\ \A r \in Calls : /\ pc[r] \in PCs /\ next[r] \in PCs
                               /\ row[r] \in LoanRow \union {NoRow}
                               /\ usr[r] \in UserRow \union {NoRow}
                               /\ credited[r] \in LoanRow \union {NoRow}
           /\ credited \in [Calls -> LoanRow \union {NoRow}]
BY DEF TypeInv, TypeOK, TablesTyped, ArgTyped

\* A step of one call, and what it leaves the call with.
LEMMA TypedMove ==
    ASSUME BookInv, TypeInv, NEW r \in Calls, TablesTyped', TxRows \subseteq TxRows',
           NEW p \in PCs, NEW nx \in PCs, NEW a, ArgTyped(a),
           NEW lr \in LoanRow \union {NoRow}, NEW ur \in UserRow \union {NoRow},
           NEW cr \in LoanRow \union {NoRow},
           At(r, p, nx, a, lr, ur), credited' = [credited EXCEPT ![r] = cr],
           CopyTyped(r)'
    PROVE  TypeInv'
<1>1. TypeOK'
    <2>1. /\ pc' \in [Calls -> PCs] /\ next' \in [Calls -> PCs]
          /\ row' \in [Calls -> LoanRow \union {NoRow}]
          /\ usr' \in [Calls -> UserRow \union {NoRow}]
          /\ credited' \in [Calls -> LoanRow \union {NoRow}]
        BY DEF TypeInv, TypeOK, At
    <2>2. \A s \in Calls : ArgTyped(arg'[s])
        <3>1. arg' = [arg EXCEPT ![r] = a]
            BY DEF At
        <3>2. \A s \in Calls : ArgTyped(arg[s])
            BY TypedParts
        <3>3. \A s \in Calls : arg'[s] = arg[s] \/ arg'[s] = a
            BY <3>1 DEF BookInv, Domains
        <3> QED
            BY <3>2, <3>3
    <2> QED
        BY <2>1, <2>2 DEF TypeOK, TablesTyped, ArgTyped
<1>2. ASSUME NEW s \in Calls, s # r
      PROVE  CopyTyped(s)'
    <2>1. /\ pc'[s] = pc[s] /\ next'[s] = next[s] /\ arg'[s] = arg[s]
          /\ row'[s] = row[s] /\ usr'[s] = usr[s] /\ credited'[s] = credited[s]
        BY <1>2 DEF At, TypeInv, TypeOK, BookInv, Domains
    <2>2. CopyTyped(s)
        BY DEF TypeInv
    <2> QED
        BY <2>1, <2>2 DEF CopyTyped, InUpdate
<1> QED
    BY <1>1, <1>2 DEF TypeInv, TablesTyped

\* Where At leaves its call.
LEMMA AtHolds ==
    ASSUME BookInv, TypeInv, NEW r \in Calls, NEW p, NEW nx, NEW a, NEW lr, NEW ur,
           At(r, p, nx, a, lr, ur)
    PROVE  pc'[r] = p /\ next'[r] = nx /\ arg'[r] = a /\ row'[r] = lr /\ usr'[r] = ur
BY DEF BookInv, Domains, TypeInv, TypeOK, At

\* A step that writes no table.
LEMMA TypedLocal ==
    ASSUME BookInv, TypeInv, NEW r \in Calls,
           UNCHANGED <<loan, tx, user, history, credited>>, calls' \in 0..MaxCalls,
           NEW p \in PCs, NEW nx \in PCs, NEW a, ArgTyped(a),
           NEW lr \in LoanRow \union {NoRow}, NEW ur \in UserRow \union {NoRow},
           At(r, p, nx, a, lr, ur), CopyTyped(r)'
    PROVE  TypeInv'
<1>1. TablesTyped'
    BY TypedParts DEF TablesTyped, Rows, TxRows
<1>2. TxRows' = TxRows
    BY DEF TxRows
<1>3. credited' = [credited EXCEPT ![r] = credited[r]] /\ credited[r] \in LoanRow \union {NoRow}
    BY TypedParts
<1> QED
    BY <1>1, <1>2, <1>3, TypedMove

\* Restating a loan keeps it a row.
LEMMA RowsWritten ==
    ASSUME NEW lr \in LoanRow
    PROVE  /\ lr.loanId \in Nat /\ lr.user \in Users /\ lr.status \in LoanStatus
           /\ lr.amount \in Int /\ lr.amountDue \in Int /\ lr.amountPaid \in Int
           /\ lr.outstandingAmount \in Int
           /\ \A status \in LoanStatus :
                 [loanId |-> lr.loanId, user |-> lr.user, status |-> status,
                  amount |-> lr.amount, amountDue |-> lr.amountDue,
                  amountPaid |-> lr.amountPaid,
                  outstandingAmount |-> lr.outstandingAmount] \in LoanRow
           /\ \A amount \in Int : creditLoan(lr, amount) \in LoanRow
           /\ \A p \in Patch : Restated(lr, p) \in LoanRow /\ Patched(lr, p) \in LoanRow
<1>1. /\ lr.loanId \in Nat /\ lr.user \in Users /\ lr.status \in LoanStatus
      /\ lr.amount \in Int /\ lr.amountDue \in Int /\ lr.amountPaid \in Int
      /\ lr.outstandingAmount \in Int
    BY DEF LoanRow
<1>2. \A amount \in Int : creditLoan(lr, amount) \in LoanRow
    BY <1>1 DEF creditLoan, LoanRow, LoanStatus
<1>3. ASSUME NEW p \in Patch
      PROVE  Restated(lr, p) \in LoanRow /\ Patched(lr, p) \in LoanRow
    <2>1. p.amount \in Int \union {NoAmount} /\ p.paid \in Int \union {NoAmount}
          /\ p.status \in LoanStatus \union {NoStatus}
        BY DEF Patch
    <2>2. Restated(lr, p) \in LoanRow
        BY <1>1, <2>1 DEF Restated, LoanRow
    <2>3. Patched(lr, p) \in LoanRow
        BY <1>1, <2>1 DEF Patched, LoanRow, LoanStatus
    <2> QED
        BY <2>2, <2>3
<1> QED
    BY <1>1, <1>2, <1>3 DEF LoanRow

\* A loan that exists is a row, of an owner.
LEMMA LoadedRow ==
    ASSUME TypeInv, NEW l \in Rows
    PROVE  l \in Loans /\ loan[l] \in LoanRow
BY DEF TypeInv, TypeOK, Rows

\* A fresh copy of a user.
LEMMA UserCopied ==
    ASSUME TypeInv, NEW u \in Users, NEW n \in Nat, NEW repaid \in Int,
           NEW status \in RepaymentStatus
    PROVE  UserWith(u, n, repaid, status) \in UserRow
BY DEF TypeInv, TypeOK, UserWith, UserRow

LEMMA ArriveTyped ==
    ASSUME BookInv, NumberInv, TypeInv, NEW r \in Calls, Arrive(r)
    PROVE  TypeInv'
<1> USE DEF InUpdate, AwardPCs
<1>h. /\ calls \in 0..MaxCalls /\ MaxCalls \in Nat /\ \A l \in Rows : l \in Loans /\ loan[l] \in LoanRow
      /\ IsFiniteSet(TxRows)
    BY TypedParts, LoadedRow, BookAssumption DEF TablesTyped
<1>c. ASSUME NEW op, Request(r, op)
      PROVE  calls' \in 0..MaxCalls
    BY <1>c, <1>h DEF Request
<1>1. ASSUME NEW u \in Users, NEW amount \in Amounts, create(r, u, amount)
      PROVE  TypeInv'
    <2> DEFINE a == Arg(u, NoLoan, NoTx, 0, amount, NoBody)
    <2>1. At(r, "number", "idle", a, NoRow, NoRow)
          /\ UNCHANGED <<loan, tx, user, history, credited>> /\ calls' \in 0..MaxCalls
        BY <1>1, <1>c DEF create, Start
    <2>2. ArgTyped(a) /\ a.u \in Users
        BY BookAssumption DEF ArgTyped, Arg
    <2> HIDE DEF a
    <2>3. CopyTyped(r)'
        BY <2>1, <2>2, AtHolds DEF CopyTyped
    <2> QED
        BY <2>1, <2>2, <2>3, TypedLocal DEF PCs
<1>2. ASSUME NEW l \in Loans, remove(r, l)
      PROVE  TypeInv'
    <2> DEFINE a == Arg(loan[l].user, l, NoTx, 0, 0, NoBody)
    <2>1. At(r, "delete", "idle", a, NoRow, NoRow) /\ l \in Rows
          /\ UNCHANGED <<loan, tx, user, history, credited>> /\ calls' \in 0..MaxCalls
        BY <1>2, <1>c DEF remove, Start
    <2>2. ArgTyped(a) /\ a.u \in Users
        BY <1>h, <2>1, RowsWritten DEF ArgTyped, Arg
    <2> HIDE DEF a
    <2>3. CopyTyped(r)'
        BY <2>1, <2>2, AtHolds DEF CopyTyped
    <2> QED
        BY <2>1, <2>2, <2>3, TypedLocal DEF PCs
<1>3. ASSUME NEW l \in Rows, NEW status \in LoanStatus, NEW nx \in {"idle", "pending"},
             StartSave(r, l, status, nx), calls' \in 0..MaxCalls
      PROVE  TypeInv'
    <2> DEFINE a == Arg(loan[l].user, l, NoTx, 0, 0, NoBody)
               lr == [loanId |-> loan[l].loanId, user |-> loan[l].user, status |-> status,
                      amount |-> loan[l].amount, amountDue |-> loan[l].amountDue,
                      amountPaid |-> loan[l].amountPaid,
                      outstandingAmount |-> loan[l].outstandingAmount]
    <2>1. At(r, "saveLoan", nx, a, lr, NoRow)
          /\ UNCHANGED <<loan, tx, user, history, credited>>
        BY <1>3 DEF StartSave, Start
    <2>2. ArgTyped(a) /\ a.u \in Users
        BY <1>h, RowsWritten DEF ArgTyped, Arg
    <2>3. lr \in LoanRow
        BY <1>h, RowsWritten
    <2> HIDE DEF a, lr
    <2>4. CopyTyped(r)'
        BY <2>1, <2>2, <2>3, AtHolds DEF CopyTyped
    <2> QED
        BY <1>3, <2>1, <2>2, <2>3, <2>4, TypedLocal DEF PCs
<1>4. ASSUME NEW l \in Loans, NEW p \in Patches, update(r, l, p)
      PROVE  TypeInv'
    <2> DEFINE a == Arg(loan[l].user, l, NoTx, 0, 0, p)
               lr == Restated(loan[l], p)
    <2>1. l \in Rows /\ p \in Patch /\ calls' \in 0..MaxCalls
        BY <1>4, <1>c, BookAssumption DEF update
    <2>2. PICK q \in {"updNumber", "apply"} :
              At(r, q, "idle", a, lr, NoRow) /\ UNCHANGED <<loan, tx, user, history, credited>>
        BY <1>4 DEF update, Start
    <2>3. ArgTyped(a) /\ a.u \in Users
        BY <1>h, <2>1, RowsWritten DEF ArgTyped, Arg
    <2>4. lr \in LoanRow
        BY <1>h, <2>1, RowsWritten
    <2> HIDE DEF a, lr
    <2>5. CopyTyped(r)'
        BY <2>2, <2>3, <2>4, AtHolds DEF CopyTyped
    <2> QED
        BY <2>1, <2>2, <2>3, <2>4, <2>5, TypedLocal DEF PCs
<1>5. ASSUME NEW l \in Loans, NEW amount \in Amounts, createRepayment(r, l, amount)
      PROVE  TypeInv'
    <2> DEFINE a == Arg(loan[l].user, l, NoTx, generateTransactionId, amount, NoBody)
    <2>1. At(r, "txInsert", "idle", a, NoRow, NoRow) /\ l \in Rows
          /\ UNCHANGED <<loan, tx, user, history, credited>> /\ calls' \in 0..MaxCalls
        BY <1>5, <1>c DEF createRepayment, Start
    <2>2. generateTransactionId \in Nat /\ amount \in Int
        <3>1. IsFiniteSet({t \in TxRows : tx[t].number # 0})
            BY <1>h, FS_Subset
        <3> QED
            BY <3>1, FS_CardinalityType, BookAssumption DEF generateTransactionId
    <2>3. ArgTyped(a) /\ a.u \in Users
        BY <1>h, <2>1, <2>2, RowsWritten DEF ArgTyped, Arg
    <2> HIDE DEF a
    <2>4. CopyTyped(r)'
        BY <2>1, <2>3, AtHolds DEF CopyTyped
    <2> QED
        BY <2>1, <2>3, <2>4, TypedLocal DEF PCs
<1>6. ASSUME NEW l \in Loans, NEW amount \in Amounts, NEW ref \in Refs \union {NoRef},
             processRepayment(r, l, amount, ref)
      PROVE  TypeInv'
    <2> DEFINE a == Arg(loan[l].user, l, NoTx, 0, amount, ref)
    <2>1. l \in Rows /\ amount \in Int /\ calls' \in 0..MaxCalls
        BY <1>6, <1>c, BookAssumption DEF processRepayment
    <2>2. PICK lr \in LoanRow :
              At(r, "mnoInsert", "idle", a, lr, NoRow)
              /\ UNCHANGED <<loan, tx, user, history, credited>>
        <3> DEFINE out == loan[l].outstandingAmount - amount
                   lr == [loanId |-> loan[l].loanId, user |-> loan[l].user,
                          status |-> IF out <= 0 THEN "COMPLETED" ELSE "REPAYING",
                          amount |-> loan[l].amount, amountDue |-> loan[l].amountDue,
                          amountPaid |-> loan[l].amountPaid + amount,
                          outstandingAmount |-> out]
        <3>1. lr \in LoanRow
            BY <1>h, <2>1 DEF LoanRow, LoanStatus
        <3>2. At(r, "mnoInsert", "idle", a, lr, NoRow)
              /\ UNCHANGED <<loan, tx, user, history, credited>>
            BY <1>6 DEF processRepayment, Start
        <3> HIDE DEF lr, a
        <3> QED
            BY <3>1, <3>2
    <2>3. ArgTyped(a) /\ a.u \in Users
        BY <1>h, <2>1, RowsWritten DEF ArgTyped, Arg
    <2> HIDE DEF a
    <2>4. CopyTyped(r)'
        BY <2>2, <2>3, AtHolds DEF CopyTyped
    <2> QED
        BY <2>1, <2>2, <2>3, <2>4, TypedLocal DEF PCs
<1>7. ASSUME NEW t \in Txs, NEW status \in ReconcileTo, NEW amount \in ReconcileAmounts,
             reconcile(r, t, status, amount)
      PROVE  TypeInv'
    <2> DEFINE a == Arg(tx[t].user, tx[t].loan, t,
                        IF tx[t].status # "COMPLETED" THEN 1 ELSE 0,
                        IF amount = NoAmount THEN tx[t].amount ELSE amount, status)
    <2>1. At(r, "patch", "idle", a, NoRow, NoRow) /\ t \in TxRows
          /\ UNCHANGED <<loan, tx, user, history, credited>> /\ calls' \in 0..MaxCalls
        BY <1>7, <1>c DEF reconcile, Reconciling
    <2>2. tx[t] \in TxRow /\ amount \in Int \union {NoAmount}
        BY <2>1, TypedParts, BookAssumption DEF TablesTyped, TxRows
    <2>3. ArgTyped(a) /\ a.u \in Users
        BY <2>2 DEF ArgTyped, Arg, TxRow
    <2> HIDE DEF a
    <2>4. CopyTyped(r)'
        BY <2>1, <2>3, AtHolds DEF CopyTyped
    <2> QED
        BY <2>1, <2>3, <2>4, TypedLocal DEF PCs
<1>8. ASSUME NEW l \in Loans,
             approve(r, l) \/ reject(r, l) \/ disburse(r, l) \/ processFulfillment(r, l)
      PROVE  TypeInv'
    <2>1. calls' \in 0..MaxCalls /\ l \in Rows
        BY <1>8, <1>c DEF approve, reject, disburse, processFulfillment
    <2>2. \E status \in LoanStatus, nx \in {"idle", "pending"} : StartSave(r, l, status, nx)
        BY <1>8 DEF approve, reject, disburse, processFulfillment, LoanStatus
    <2> QED
        BY <1>3, <2>1, <2>2
<1> QED
    BY <1>1, <1>2, <1>4, <1>5, <1>6, <1>7, <1>8 DEF Arrive

\* The tables after a write.
LEMMA NothingWritten ==
    ASSUME TypeInv, UNCHANGED <<loan, tx, user, history, calls>>
    PROVE  TablesTyped' /\ TxRows \subseteq TxRows'
BY TypedParts DEF TablesTyped, Rows, TxRows

LEMMA LoanWritten ==
    ASSUME TypeInv, NEW l, NEW lr \in LoanRow \union {Deleted},
           loan' = [loan EXCEPT ![l] = lr], UNCHANGED <<tx, user, history, calls>>
    PROVE  TablesTyped' /\ TxRows \subseteq TxRows'
<1>1. TablesTyped
    BY TypedParts
<1>2. loan' \in [Loans -> LoanRow \union {NoRow, Deleted}]
    BY <1>1 DEF TablesTyped
<1>3. IsFiniteSet(Rows')
    <2>1. Rows' \subseteq Rows \union {l}
        BY <1>1 DEF TablesTyped, Rows
    <2>2. IsFiniteSet(Rows \union {l})
        BY <1>1, FS_AddElement DEF TablesTyped
    <2> QED
        BY <2>1, <2>2, FS_Subset
<1>4. TxRows' = TxRows
    BY DEF TxRows
<1>5. IsFiniteSet(Rows)'
    BY <1>3
<1> QED
    BY <1>1, <1>2, <1>4, <1>5 DEF TablesTyped

LEMMA TxWritten ==
    ASSUME TypeInv, NEW t \in Txs, NEW v \in TxRow,
           tx' = [tx EXCEPT ![t] = v], UNCHANGED <<loan, user, history, calls>>
    PROVE  TablesTyped' /\ TxRows' = TxRows \union {t} /\ TxRows \subseteq TxRows'
<1>1. TablesTyped
    BY TypedParts
<1>2. tx' \in [Txs -> TxRow \union {NoRow}]
    BY <1>1 DEF TablesTyped
<1>3. TxRows' = TxRows \union {t}
    BY <1>1, BookAssumption DEF TablesTyped, TxRows
<1>4. IsFiniteSet(TxRows)'
    <2>1. IsFiniteSet(TxRows \union {t})
        BY <1>1, FS_AddElement DEF TablesTyped
    <2> QED
        BY <1>3, <2>1
<1>5. Rows' = Rows
    BY DEF Rows
<1> QED
    BY <1>1, <1>2, <1>3, <1>4, <1>5 DEF TablesTyped

LEMMA UserWritten ==
    ASSUME TypeInv, NEW u, NEW ur \in UserRow,
           user' = [user EXCEPT ![u] = ur], UNCHANGED <<loan, tx, history, calls>>
    PROVE  TablesTyped' /\ TxRows \subseteq TxRows'
BY TypedParts DEF TablesTyped, Rows, TxRows

\* A step that ends the call.
LEMMA TypedFinish ==
    ASSUME BookInv, TypeInv, NEW r \in Calls, TablesTyped', TxRows \subseteq TxRows', Finish(r)
    PROVE  TypeInv'
<1> DEFINE a == Arg(NoUser, NoLoan, NoTx, 0, 0, NoBody)
<1>1. At(r, "idle", "idle", a, NoRow, NoRow) /\ credited' = [credited EXCEPT ![r] = NoRow]
    BY DEF Finish
<1>2. ArgTyped(a)
    BY DEF ArgTyped, Arg
<1> HIDE DEF a
<1>3. CopyTyped(r)'
    BY <1>1, AtHolds DEF CopyTyped, InUpdate, AwardPCs
<1> QED
    BY <1>1, <1>2, <1>3, TypedMove DEF PCs

\* A step that leaves a sub-task.
LEMMA TypedProceed ==
    ASSUME BookInv, TypeInv, NEW r \in Calls, TablesTyped', TxRows \subseteq TxRows', Proceed(r),
           pc[r] \in AwardPCs \union {"saveLoan", "saveUser"}
    PROVE  TypeInv'
<1>1. CASE next[r] = "idle"
    BY <1>1, TypedFinish DEF Proceed
<1>2. CASE next[r] # "idle"
    <2>1. At(r, next[r], "idle", arg[r], row[r], NoRow) /\ credited' = [credited EXCEPT ![r] = NoRow]
        BY <1>2 DEF Proceed
    <2>2. CallSound(r) /\ CopyTyped(r) /\ ArgTyped(arg[r])
          /\ next[r] \in PCs /\ row[r] \in LoanRow \union {NoRow}
        BY TypedParts DEF BookInv, CallsSound
    <2>3. pc'[r] = next[r] /\ next'[r] = "idle" /\ arg'[r] = arg[r] /\ row'[r] = row[r]
        BY <2>1, AtHolds
    <2>4. CopyTyped(r)'
        BY <1>2, <2>2, <2>3 DEF CopyTyped, CallSound, InUpdate, AwardPCs
    <2> QED
        BY <2>1, <2>2, <2>4, TypedMove DEF PCs
<1> QED
    BY <1>1, <1>2

\* A step that goes on in the same call.
LEMMA TypedGoto ==
    ASSUME BookInv, TypeInv, NEW r \in Calls, TablesTyped', TxRows \subseteq TxRows',
           NEW p \in PCs, Goto(r, p), CopyTyped(r)'
    PROVE  TypeInv'
<1>1. At(r, p, next[r], arg[r], row[r], usr[r]) /\ credited' = credited
    BY DEF Goto
<1>2. /\ next[r] \in PCs /\ ArgTyped(arg[r]) /\ row[r] \in LoanRow \union {NoRow}
      /\ usr[r] \in UserRow \union {NoRow} /\ credited[r] \in LoanRow \union {NoRow}
      /\ credited' = [credited EXCEPT ![r] = credited[r]]
    BY <1>1, TypedParts
<1> QED
    BY <1>1, <1>2, TypedMove

\* Counts are naturals.
LEMMA CountsNatural ==
    ASSUME TypeInv
    PROVE  /\ generateLoanId \in Nat /\ generateTransactionId \in Nat
           /\ \A u : Cardinality(LoansOf(u)) \in Nat
<1>1. IsFiniteSet(Rows) /\ IsFiniteSet(TxRows)
    BY DEF TypeInv
<1>2. \A u : IsFiniteSet(LoansOf(u))
    BY <1>1, FS_Subset DEF LoansOf
<1>3. IsFiniteSet({t \in TxRows : tx[t].number # 0})
    BY <1>1, FS_Subset
<1> QED
    BY <1>1, <1>2, <1>3, FS_CardinalityType DEF generateLoanId, generateTransactionId

\* Sums are integers.
LEMMA AmountsIntegral ==
    ASSUME TypeInv, NEW S \in SUBSET TxRows
    PROVE  AmountOf(S) \in Int
<1>1. IsFiniteSet(S) /\ S \in SUBSET Txs
    BY FS_Subset DEF TypeInv, TxRows
<1>2. \A t \in S : Amount[t] \in Int
    BY <1>1, TypedParts DEF TablesTyped, TxRows, TxRow, Amount
<1>3. SumOf(Amount, S) \in Int
    BY <1>1, <1>2, SumFacts
<1> QED
    BY <1>1, <1>3, AmountOfIsSum

\* A call that makes a copy of its user and goes on to save it.
LEMMA TypedUserCopy ==
    ASSUME BookInv, TypeInv, NEW r \in Calls, pc[r] # "idle",
           NEW nx \in {"idle", "apply"}, nx = "apply" => row[r] \in LoanRow,
           NEW n \in Nat, NEW repaid \in Int, NEW status \in RepaymentStatus,
           At(r, "saveUser", nx, arg[r], row[r], UserWith(arg[r].u, n, repaid, status)),
           UNCHANGED <<loan, tx, user, history, credited, calls>>
    PROVE  TypeInv'
<1> DEFINE ur == UserWith(arg[r].u, n, repaid, status)
<1>1. arg[r].u \in Users /\ ArgTyped(arg[r]) /\ row[r] \in LoanRow \union {NoRow}
      /\ calls \in 0..MaxCalls
    BY TypedParts DEF CopyTyped, TablesTyped
<1>2. ur \in UserRow
    BY <1>1, UserCopied
<1> HIDE DEF ur
<1>3. /\ pc'[r] = "saveUser" /\ next'[r] = nx /\ arg'[r] = arg[r] /\ row'[r] = row[r]
      /\ usr'[r] = ur
    BY AtHolds DEF ur
<1>4. CopyTyped(r)'
    BY <1>1, <1>2, <1>3 DEF CopyTyped, InUpdate, AwardPCs
<1> QED
    BY <1>1, <1>2, <1>4, TypedLocal DEF PCs, ur

\* Steps of create, remove, approve, reject, disburse and of the fulfilment.
LEMMA LoanStepTyped ==
    ASSUME BookInv, NumberInv, TypeInv, NEW r \in Calls,
           \/ createNumber(r) \/ createInsert(r) \/ countLoans(r) \/ saveUser(r)
           \/ removeDelete(r) \/ saveLoan(r) \/ disburseUser(r) \/ recalculateTotalRepaid(r)
           \/ updateFallback(r)
    PROVE  TypeInv'
<1> USE DEF InUpdate, AwardPCs
<1>h. /\ CallSound(r) /\ Held(r) /\ CopyTyped(r) /\ ArgTyped(arg[r]) /\ TablesTyped
      /\ row[r] \in LoanRow \union {NoRow}
    BY TypedParts DEF BookInv, CallsSound, NumberInv
<1>1. CASE createNumber(r)
    <2> DEFINE a == Arg(arg[r].u, NoLoan, NoTx, generateLoanId, arg[r].a, NoBody)
    <2>1. At(r, "insert", "idle", a, NoRow, NoRow) /\ pc[r] = "number"
          /\ UNCHANGED <<loan, tx, user, history, credited>> /\ calls' = calls
        BY <1>1 DEF createNumber
    <2>2. ArgTyped(a) /\ a.u \in Users
        BY <1>h, <2>1, CountsNatural DEF ArgTyped, Arg, CopyTyped
    <2> HIDE DEF a
    <2>3. CopyTyped(r)'
        BY <2>1, <2>2, AtHolds DEF CopyTyped
    <2>4. calls' \in 0..MaxCalls
        BY <1>h, <2>1 DEF TablesTyped
    <2> QED
        BY <2>1, <2>2, <2>3, <2>4, TypedLocal DEF PCs
<1>2. CASE createInsert(r)
    <2>1. CASE UNCHANGED loan /\ Finish(r)
        BY <1>2, <2>1, NothingWritten, TypedFinish DEF createInsert
    <2>2. CASE ~(UNCHANGED loan /\ Finish(r))
        <3> DEFINE lr == [loanId |-> arg[r].n, user |-> arg[r].u, status |-> "PENDING",
                          amount |-> arg[r].a, amountDue |-> arg[r].a, amountPaid |-> 0,
                          outstandingAmount |-> arg[r].a]
        <3>1. PICK l \in Loans : loan' = [loan EXCEPT ![l] = lr]
            BY <1>2, <2>2 DEF createInsert
        <3>2. Goto(r, "count") /\ pc[r] = "insert" /\ UNCHANGED <<tx, user, history, calls>>
            BY <1>2, <2>2 DEF createInsert
        <3>3. lr \in LoanRow /\ arg[r].u \in Users /\ next[r] = "idle"
            BY <1>h, <3>2 DEF Held, CallSound, ArgTyped, LoanRow, LoanStatus
        <3> HIDE DEF lr
        <3>4. TablesTyped' /\ TxRows \subseteq TxRows'
            BY <3>1, <3>2, <3>3, LoanWritten
        <3>5. CopyTyped(r)'
            BY <3>2, <3>3, AtHolds DEF CopyTyped, Goto
        <3> QED
            BY <3>2, <3>4, <3>5, TypedGoto DEF PCs
    <2> QED
        BY <2>1, <2>2
<1>3. CASE countLoans(r)
    <2>1. user[arg[r].u] \in UserRow
        BY <1>3, <1>h DEF countLoans, CopyTyped, TablesTyped
    <2> QED
        BY <1>3, <2>1, CountsNatural, TypedUserCopy DEF countLoans, UserRow
<1>4. CASE saveUser(r)
    <2>1. usr[r] \in UserRow
        BY <1>4, <1>h DEF saveUser, CopyTyped
    <2>2. TablesTyped' /\ TxRows \subseteq TxRows'
        BY <1>4, <2>1, UserWritten DEF saveUser
    <2> QED
        BY <1>4, <2>2, TypedProceed DEF saveUser
<1>5. CASE removeDelete(r)
    <2>1. CASE UNCHANGED loan /\ Finish(r)
        BY <1>5, <2>1, NothingWritten, TypedFinish DEF removeDelete
    <2>2. CASE ~(UNCHANGED loan /\ Finish(r))
        <3>1. /\ loan' = [loan EXCEPT ![arg[r].l] = Deleted]
              /\ Goto(r, "count") /\ pc[r] = "delete" /\ UNCHANGED <<tx, user, history, calls>>
            BY <1>5, <2>2 DEF removeDelete
        <3>2. TablesTyped' /\ TxRows \subseteq TxRows'
            BY <3>1, LoanWritten
        <3>3. next[r] = "idle" /\ arg[r].u \in Users
            BY <1>h, <3>1 DEF CallSound, CopyTyped
        <3>4. CopyTyped(r)'
            BY <3>1, <3>3, AtHolds DEF CopyTyped, Goto
        <3> QED
            BY <3>1, <3>2, <3>4, TypedGoto DEF PCs
    <2> QED
        BY <2>1, <2>2
<1>6. CASE saveLoan(r)
    <2>1. row[r] \in LoanRow
        BY <1>6, <1>h DEF saveLoan, CopyTyped
    <2>2. TablesTyped' /\ TxRows \subseteq TxRows'
        BY <1>6, <2>1, LoanWritten DEF saveLoan
    <2> QED
        BY <1>6, <2>2, TypedProceed DEF saveLoan
<1>7. CASE disburseUser(r)
    <2>1. user[arg[r].u] \in UserRow
        BY <1>7, <1>h DEF disburseUser, CopyTyped, TablesTyped
    <2> QED
        BY <1>7, <2>1, TypedUserCopy DEF disburseUser, UserRow, RepaymentStatus
<1>8. CASE recalculateTotalRepaid(r)
    <2>1. user[arg[r].u] \in UserRow
        BY <1>8, <1>h DEF recalculateTotalRepaid, CopyTyped, TablesTyped
    <2>2. AmountOf(Completed({t \in TxRows : tx[t].user = arg[r].u})) \in Int
        BY AmountsIntegral DEF Completed
    <2> QED
        BY <1>8, <2>1, <2>2, TypedUserCopy DEF recalculateTotalRepaid, UserRow
<1>9. CASE updateFallback(r)
    <2>1. user[arg[r].u] \in UserRow /\ row[r] \in LoanRow
        BY <1>9, <1>h DEF updateFallback, CopyTyped, TablesTyped
    <2>2. Increase(row[r], arg[r].b) \in Int
        BY <1>9, <1>h DEF updateFallback, CallSound, Increase, Patch
    <2> QED
        BY <1>9, <2>1, <2>2, TypedUserCopy DEF updateFallback, UserRow
<1> QED
    BY <1>1, <1>2, <1>3, <1>4, <1>5, <1>6, <1>7, <1>8, <1>9

\* What a call in the scoring service works on.
LEMMA AwardedTyped ==
    ASSUME TypeInv, NEW r \in Calls, arg[r].t \in TxRows
    PROVE  /\ arg[r].t \in Txs /\ tx[arg[r].t] \in TxRow
           /\ tx[arg[r].t].loan \in Loans /\ tx[arg[r].t].user \in Users
           /\ tx[arg[r].t].amount \in Int /\ tx[arg[r].t].number \in Nat
           /\ tx[arg[r].t].reference \in Refs \union {NoRef}
           /\ user[tx[arg[r].t].user] \in UserRow
<1>1. arg[r].t \in Txs /\ tx[arg[r].t] \in TxRow
    BY TypedParts DEF TablesTyped, TxRows
<1>2. /\ tx[arg[r].t].loan \in Loans /\ tx[arg[r].t].user \in Users
      /\ tx[arg[r].t].amount \in Int /\ tx[arg[r].t].number \in Nat
      /\ tx[arg[r].t].reference \in Refs \union {NoRef}
    BY <1>1 DEF TxRow
<1> QED
    BY <1>1, <1>2, TypedParts DEF TablesTyped

\* award holds the loan with the amount credited, and the user with the status the
\* repayment reaches.
AwardSaves(r, status) ==
    LET t == arg[r].t
        u == tx[t].user
    IN  /\ history[t].rows = 0
        /\ At(r, "awardLoan", next[r], arg[r], row[r],
              UserWith(u, user[u].totalLoans, user[u].totalRepaid + tx[t].amount, status))
        /\ credited' = [credited EXCEPT ![r] = creditLoan(loan[tx[t].loan], tx[t].amount)]

\* It goes on when the transaction was awarded before.
LEMMA AwardBranches ==
    ASSUME NEW r \in Calls, award(r)
    PROVE  /\ pc[r] = "award" /\ tx[arg[r].t].loan \in Rows
           /\ UNCHANGED <<loan, tx, user, history, calls>>
           /\ \/ history[arg[r].t].rows > 0 /\ Proceed(r)
              \/ \E status \in {"COMPLETED", "PARTIAL", user[tx[arg[r].t].user].repaymentStatus} :
                    AwardSaves(r, status)
<1> DEFINE t == arg[r].t
           u == tx[t].user
           after == creditLoan(loan[tx[t].loan], tx[t].amount)
           reached == IF after.outstandingAmount <= 0 THEN "COMPLETED"
                      ELSE IF after.amountPaid > 0 THEN "PARTIAL"
                      ELSE user[u].repaymentStatus
<1>1. /\ pc[r] = "award" /\ tx[t].loan \in Rows
      /\ UNCHANGED <<loan, tx, user, history, calls>>
    BY DEF award
<1>2. (history[t].rows > 0 /\ Proceed(r)) \/ AwardSaves(r, reached)
    BY Zenon DEF award, AwardSaves
<1>3. reached \in {"COMPLETED", "PARTIAL", user[u].repaymentStatus}
    OBVIOUS
<1> HIDE DEF after, reached
<1> QED
    BY <1>1, <1>2, <1>3

LEMMA AwardStepTyped ==
    ASSUME BookInv, TypeInv, NEW r \in Calls,
           award(r) \/ awardLoan(r) \/ awardUser(r) \/ awardHistory(r) \/ awardThrows(r)
    PROVE  TypeInv'
<1> USE DEF InUpdate, AwardPCs
<1> DEFINE t == arg[r].t
           u == tx[t].user
<1>p. pc[r] \in AwardPCs
    BY DEF award, awardLoan, awardUser, awardHistory, awardThrows
<1>h. /\ CallSound(r) /\ CopyTyped(r) /\ ArgTyped(arg[r]) /\ TablesTyped
      /\ row[r] \in LoanRow \union {NoRow} /\ usr[r] \in UserRow \union {NoRow}
      /\ credited[r] \in LoanRow \union {NoRow} /\ next[r] \in PCs
    BY TypedParts DEF BookInv, CallsSound
<1>t. /\ t \in TxRows /\ t \in Txs /\ tx[t].loan \in Loans /\ u \in Users /\ tx[t].amount \in Int
      /\ user[u] \in UserRow /\ arg[r].u \in Users /\ next[r] # "award" /\ next[r] # "apply"
    BY <1>p, <1>h, AwardedTyped DEF CopyTyped, CallSound
<1>1. CASE award(r)
    <2>1. CASE Proceed(r)
        BY <1>1, <1>p, <2>1, NothingWritten, TypedProceed DEF award
    <2>2. CASE ~Proceed(r)
        <3> DEFINE after == creditLoan(loan[tx[t].loan], tx[t].amount)
        <3>0. PICK reached \in {"COMPLETED", "PARTIAL", user[u].repaymentStatus} :
                  AwardSaves(r, reached)
            BY <1>1, <2>2, AwardBranches
        <3>1. PICK status \in RepaymentStatus :
                  At(r, "awardLoan", next[r], arg[r], row[r],
                     UserWith(u, user[u].totalLoans, user[u].totalRepaid + tx[t].amount, status))
            <4>1. user[u].repaymentStatus \in RepaymentStatus
                BY <1>t DEF UserRow
            <4> QED
                BY <3>0, <4>1 DEF AwardSaves, RepaymentStatus
        <3>2. /\ credited' = [credited EXCEPT ![r] = after] /\ tx[t].loan \in Rows
              /\ UNCHANGED <<loan, tx, user, history, calls>> /\ pc[r] = "award"
            BY <1>1, <3>0, AwardBranches DEF AwardSaves
        <3>3. after \in LoanRow
            BY <1>t, <3>2, LoadedRow, RowsWritten
        <3> DEFINE ur == UserWith(u, user[u].totalLoans, user[u].totalRepaid + tx[t].amount, status)
        <3>4. ur \in UserRow
            <4>1. user[u].totalLoans \in Nat /\ user[u].totalRepaid + tx[t].amount \in Int
                BY <1>t DEF UserRow
            <4> QED
                BY <1>t, <4>1, UserCopied
        <3> HIDE DEF ur, after
        <3>5. At(r, "awardLoan", next[r], arg[r], row[r], ur)
            BY <3>1 DEF ur
        <3>6. TablesTyped' /\ TxRows' = TxRows
            BY <3>2, NothingWritten DEF TxRows
        <3>7. credited'[r] = after
            BY <3>2, TypedParts
        <3>8. CopyTyped(r)'
            BY <1>h, <1>t, <3>2, <3>3, <3>4, <3>5, <3>6, <3>7, AtHolds DEF CopyTyped
        <3>9. "awardLoan" \in PCs /\ TxRows \subseteq TxRows'
            BY <3>6 DEF PCs
        <3> QED
            BY <1>h, <3>2, <3>3, <3>4, <3>5, <3>6, <3>8, <3>9, TypedMove
    <2> QED
        BY <2>1, <2>2
<1>2. CASE awardLoan(r)
    <2>1. credited[r] \in LoanRow /\ usr[r] \in UserRow /\ pc[r] = "awardLoan"
          /\ Goto(r, "awardUser")
        BY <1>2, <1>h DEF awardLoan, CopyTyped
    <2>2. TablesTyped' /\ TxRows \subseteq TxRows'
        BY <1>2, <2>1, LoanWritten DEF awardLoan
    <2>3. /\ pc'[r] = "awardUser" /\ next'[r] = next[r] /\ arg'[r] = arg[r]
          /\ row'[r] = row[r] /\ usr'[r] = usr[r]
        BY <2>1, AtHolds DEF Goto
    <2>4. CopyTyped(r)'
        BY <1>h, <1>t, <2>1, <2>2, <2>3 DEF CopyTyped
    <2> QED
        BY <2>1, <2>2, <2>4, TypedGoto DEF PCs
<1>3. CASE awardUser(r)
    <2>1. usr[r] \in UserRow /\ pc[r] = "awardUser" /\ UNCHANGED <<loan, tx, history, calls>>
        BY <1>3, <1>h DEF awardUser, CopyTyped
    <2>2. PICK points \in Points(credited[r].outstandingAmount <= 0) :
              LET copy == usr[r]
                  sum == copy.creditScore + points
                  total == IF sum > MaxScore THEN MaxScore ELSE sum
              IN  IF points <= 0
                  THEN /\ user' = [user EXCEPT ![u] = copy]
                       /\ Proceed(r)
                  ELSE /\ user' = [user EXCEPT ![u] =
                              [creditScore |-> total,
                               creditLimit |-> IF AutoLimit THEN EligibleAmount(u, total)
                                               ELSE copy.creditLimit,
                               totalLoans |-> copy.totalLoans,
                               totalRepaid |-> copy.totalRepaid,
                               repaymentStatus |-> copy.repaymentStatus]]
                       /\ At(r, "awardHistory", next[r],
                             Arg(arg[r].u, arg[r].l, arg[r].t, points, arg[r].a, arg[r].b),
                             row[r], usr[r])
                       /\ UNCHANGED credited
        BY <1>3 DEF awardUser
    <2>3. points \in Nat
        BY BookAssumption DEF Points
    <2>4. CASE points <= 0
        <3>1. TablesTyped' /\ TxRows \subseteq TxRows'
            BY <2>1, <2>2, <2>4, UserWritten
        <3> QED
            BY <1>p, <2>2, <2>4, <3>1, TypedProceed
    <2>5. CASE ~(points <= 0)
        <3> DEFINE a == Arg(arg[r].u, arg[r].l, arg[r].t, points, arg[r].a, arg[r].b)
        <3>1. At(r, "awardHistory", next[r], a, row[r], usr[r]) /\ UNCHANGED credited
            BY <2>2, <2>5
        <3>2. PICK ur : user' = [user EXCEPT ![u] = ur] /\ ur \in UserRow
            <4> DEFINE sum == usr[r].creditScore + points
                       total == IF sum > MaxScore THEN MaxScore ELSE sum
                       ur == [creditScore |-> total,
                              creditLimit |-> IF AutoLimit THEN EligibleAmount(u, total)
                                              ELSE usr[r].creditLimit,
                              totalLoans |-> usr[r].totalLoans,
                              totalRepaid |-> usr[r].totalRepaid,
                              repaymentStatus |-> usr[r].repaymentStatus]
            <4>1. total \in Int
                BY <2>1, <2>3, BookAssumption DEF UserRow
            <4>2. EligibleAmount(u, total) \in Int
                BY BookAssumption DEF EligibleAmount
            <4>3. ur \in UserRow
                <5> HIDE DEF total
                <5> QED
                    BY <2>1, <4>1, <4>2 DEF UserRow
            <4>4. user' = [user EXCEPT ![u] = ur]
                BY <2>2, <2>5
            <4> HIDE DEF ur
            <4> QED
                BY <4>3, <4>4
        <3>3. TablesTyped' /\ TxRows \subseteq TxRows'
            BY <2>1, <3>2, UserWritten
        <3>4. /\ ArgTyped(a) /\ a.t = t /\ a.u = arg[r].u
            BY <1>h, <2>3 DEF ArgTyped, Arg
        <3> HIDE DEF a
        <3>5. CopyTyped(r)'
            BY <1>h, <1>t, <2>1, <3>1, <3>3, <3>4, AtHolds DEF CopyTyped
        <3>6. credited' = [credited EXCEPT ![r] = credited[r]]
            BY <3>1, TypedParts
        <3> QED
            BY <1>h, <3>1, <3>3, <3>4, <3>5, <3>6, TypedMove DEF PCs
    <2> QED
        BY <2>4, <2>5
<1>4. CASE awardHistory(r)
    <2>1. TablesTyped' /\ TxRows \subseteq TxRows'
        <3>1. history[t].rows + 1 \in Nat /\ history[t].points + arg[r].n \in Nat
            BY <1>h, <1>t DEF TablesTyped, ArgTyped
        <3> QED
            BY <1>4, <1>h, <1>t, <3>1 DEF awardHistory, TablesTyped, Rows, TxRows
    <2> QED
        BY <1>4, <1>p, <2>1, TypedProceed DEF awardHistory
<1>5. CASE awardThrows(r)
    <2>1. CASE next[r] = "reload"
        <3>1. /\ At(r, "fallback", "idle", arg[r], row[r], NoRow)
              /\ credited' = [credited EXCEPT ![r] = NoRow]
            BY <1>5, <2>1 DEF awardThrows
        <3>2. row[r] \in LoanRow
            BY <1>p, <1>h, <2>1 DEF CopyTyped
        <3>3. CopyTyped(r)'
            BY <1>t, <3>1, <3>2, AtHolds DEF CopyTyped
        <3>4. TablesTyped' /\ TxRows \subseteq TxRows'
            BY <1>5, NothingWritten DEF awardThrows
        <3>5. {"fallback", "idle"} \subseteq PCs
            BY DEF PCs
        <3> QED
            BY <1>h, <3>1, <3>2, <3>3, <3>4, <3>5, TypedMove
    <2>2. CASE next[r] # "reload"
        BY <1>5, <1>p, <2>2, NothingWritten, TypedProceed DEF awardThrows
    <2> QED
        BY <2>1, <2>2
<1> QED
    BY <1>1, <1>2, <1>3, <1>4, <1>5

\* A repayment that is booked.
LEMMA RepaymentTyped ==
    ASSUME NEW n \in Nat, NEW l \in Loans, NEW u \in Users, NEW amount \in Int,
           NEW status \in TransactionStatus, NEW ref \in Refs \union {NoRef}
    PROVE  Repayment(n, l, u, amount, status, ref) \in TxRow
BY DEF Repayment, TxRow

LEMMA TxStepTyped ==
    ASSUME BookInv, NumberInv, TypeInv, NEW r \in Calls,
           \/ repaymentInsert(r) \/ repaymentPending(r) \/ repaymentReconcile(r)
           \/ reconcilePatch(r) \/ reconcileReread(r)
    PROVE  TypeInv'
<1> USE DEF InUpdate, AwardPCs
<1>h. /\ CallSound(r) /\ Held(r) /\ CopyTyped(r) /\ ArgTyped(arg[r]) /\ TablesTyped
      /\ row[r] \in LoanRow \union {NoRow}
    BY TypedParts DEF BookInv, CallsSound, NumberInv
<1>1. CASE repaymentInsert(r)
    <2>1. PICK t \in Txs :
              /\ tx' = [tx EXCEPT ![t] = Repayment(0, arg[r].l, arg[r].u, arg[r].a,
                                                   "COMPLETED", arg[r].b)]
              /\ At(r, "saveLoan", "award",
                    Arg(arg[r].u, arg[r].l, t, 0, arg[r].a, NoBody), row[r], NoRow)
        BY <1>1 DEF repaymentInsert
    <2>2. pc[r] = "mnoInsert" /\ UNCHANGED <<loan, user, history, credited, calls>>
        BY <1>1 DEF repaymentInsert
    <2>3. /\ arg[r].u \in Users /\ arg[r].l \in Loans /\ arg[r].a \in Int
          /\ arg[r].b \in Refs \union {NoRef} /\ row[r] \in LoanRow
        BY <1>h, <2>2 DEF Held, ArgTyped, CopyTyped
    <2>4. TablesTyped' /\ TxRows' = TxRows \union {t} /\ TxRows \subseteq TxRows'
        BY <2>1, <2>2, <2>3, RepaymentTyped, TxWritten DEF TransactionStatus
    <2> DEFINE a == Arg(arg[r].u, arg[r].l, t, 0, arg[r].a, NoBody)
    <2>5. ArgTyped(a) /\ a.u \in Users /\ a.t = t
        BY <2>3 DEF ArgTyped, Arg
    <2>6. At(r, "saveLoan", "award", a, row[r], NoRow)
        BY <2>1
    <2> HIDE DEF a
    <2>7. CopyTyped(r)'
        BY <2>3, <2>4, <2>5, <2>6, AtHolds DEF CopyTyped
    <2>8. credited' = [credited EXCEPT ![r] = credited[r]] /\ credited[r] \in LoanRow \union {NoRow}
        BY <2>2, TypedParts
    <2>9. {"saveLoan", "award"} \subseteq PCs /\ row[r] \in LoanRow \union {NoRow}
        BY <1>h DEF PCs
    <2> QED
        BY <2>4, <2>5, <2>6, <2>7, <2>8, <2>9, TypedMove
<1>2. CASE repaymentPending(r)
    <2>1. CASE UNCHANGED tx /\ Finish(r)
        BY <1>2, <2>1, NothingWritten, TypedFinish DEF repaymentPending
    <2>2. CASE ~(UNCHANGED tx /\ Finish(r))
        <3>1. PICK t \in Txs :
                  /\ tx' = [tx EXCEPT ![t] = Repayment(arg[r].n, arg[r].l, arg[r].u,
                                                       arg[r].a, "PENDING", NoRef)]
                  /\ At(r, "load", "idle",
                        Arg(arg[r].u, arg[r].l, t, 0, arg[r].a, "COMPLETED"), NoRow, NoRow)
            BY <1>2, <2>2 DEF repaymentPending
        <3>2. pc[r] = "txInsert" /\ UNCHANGED <<loan, user, history, credited, calls>>
            BY <1>2, <2>2 DEF repaymentPending
        <3>3. arg[r].u \in Users /\ arg[r].l \in Loans /\ arg[r].a \in Int /\ arg[r].n \in Nat
            BY <1>h, <3>2 DEF Held, ArgTyped
        <3>4. TablesTyped' /\ TxRows' = TxRows \union {t} /\ TxRows \subseteq TxRows'
            BY <3>1, <3>2, <3>3, RepaymentTyped, TxWritten DEF TransactionStatus
        <3> DEFINE a == Arg(arg[r].u, arg[r].l, t, 0, arg[r].a, "COMPLETED")
        <3>5. ArgTyped(a) /\ a.u \in Users
            BY <3>3 DEF ArgTyped, Arg
        <3>6. At(r, "load", "idle", a, NoRow, NoRow)
            BY <3>1
        <3> HIDE DEF a
        <3>7. CopyTyped(r)'
            BY <3>4, <3>5, <3>6, AtHolds DEF CopyTyped
        <3>8. credited' = [credited EXCEPT ![r] = credited[r]] /\ credited[r] \in LoanRow \union {NoRow}
            BY <3>2, TypedParts
        <3> QED
            BY <3>4, <3>5, <3>6, <3>7, <3>8, TypedMove DEF PCs
    <2> QED
        BY <2>1, <2>2
<1>3. CASE repaymentReconcile(r)
    <2> DEFINE t == arg[r].t
               a == Arg(tx[t].user, tx[t].loan, t,
                        IF tx[t].status # "COMPLETED" THEN 1 ELSE 0,
                        IF arg[r].a = NoAmount THEN tx[t].amount ELSE arg[r].a, arg[r].b)
    <2>1. At(r, "patch", "idle", a, NoRow, NoRow) /\ pc[r] = "load"
          /\ UNCHANGED <<loan, tx, user, history, credited>> /\ calls' = calls
        BY <1>3 DEF repaymentReconcile, Reconciling
    <2>2. t \in TxRows
        BY <1>h, <2>1 DEF Held
    <2>3. ArgTyped(a) /\ a.u \in Users
        BY <1>h, <2>2, AwardedTyped DEF ArgTyped, Arg
    <2> HIDE DEF a
    <2>4. CopyTyped(r)'
        BY <2>1, <2>3, AtHolds DEF CopyTyped
    <2>5. calls' \in 0..MaxCalls
        BY <1>h, <2>1 DEF TablesTyped
    <2> QED
        BY <2>1, <2>3, <2>4, <2>5, TypedLocal DEF PCs
<1>4. CASE reconcilePatch(r)
    <2> DEFINE t == arg[r].t
    <2>1. /\ tx' = [tx EXCEPT ![t] = Repayment(tx[t].number, tx[t].loan, tx[t].user,
                                               arg[r].a, arg[r].b, tx[t].reference)]
          /\ pc[r] = "patch" /\ UNCHANGED <<loan, user, history, calls>>
          /\ Goto(r, "reread") \/ Finish(r)
        BY <1>4 DEF reconcilePatch
    <2>2. t \in TxRows /\ arg[r].b \in TransactionStatus /\ arg[r].a \in Int
        BY <1>h, <2>1 DEF Held, ArgTyped
    <2>3. TablesTyped' /\ TxRows \subseteq TxRows'
        BY <2>1, <2>2, AwardedTyped, RepaymentTyped, TxWritten
    <2>4. CASE Finish(r)
        BY <2>3, <2>4, TypedFinish
    <2>5. CASE Goto(r, "reread")
        <3>1. pc'[r] = "reread" /\ next'[r] = "idle" /\ arg'[r] = arg[r]
            BY <1>h, <2>1, <2>5, AtHolds DEF Goto, CallSound
        <3>2. arg[r].u \in Users
            BY <1>h, <2>1 DEF CopyTyped
        <3>3. CopyTyped(r)'
            BY <2>2, <2>3, <3>1, <3>2 DEF CopyTyped
        <3> QED
            BY <2>3, <2>5, <3>3, TypedGoto DEF PCs
    <2> QED
        BY <2>1, <2>4, <2>5
<1>5. CASE reconcileReread(r)
    <2>1. pc[r] = "reread" /\ UNCHANGED <<loan, tx, user, history, calls>>
          /\ arg[r].t \in TxRows /\ arg[r].u \in Users /\ next[r] = "idle"
        BY <1>5, <1>h DEF reconcileReread, CopyTyped, CallSound
    <2>2. TablesTyped' /\ TxRows' = TxRows
        BY <2>1, NothingWritten DEF TxRows
    <2>3. CASE Finish(r)
        BY <2>2, <2>3, TypedFinish
    <2>4. CASE Goto(r, "recalc")
        <3>1. pc'[r] = "recalc" /\ next'[r] = "idle" /\ arg'[r] = arg[r]
            BY <2>1, <2>4, AtHolds DEF Goto
        <3>2. CopyTyped(r)'
            BY <2>1, <3>1 DEF CopyTyped
        <3> QED
            BY <2>2, <2>4, <3>2, TypedGoto DEF PCs
    <2>5. CASE \E nx \in {"recalc", "idle"} :
                  At(r, "award", nx, arg[r], NoRow, NoRow) /\ UNCHANGED credited
        <3>1. PICK nx \in {"recalc", "idle"} :
                  At(r, "award", nx, arg[r], NoRow, NoRow) /\ UNCHANGED credited
            BY <2>5
        <3>2. CopyTyped(r)'
            BY <2>1, <2>2, <3>1, AtHolds DEF CopyTyped
        <3>3. calls' \in 0..MaxCalls
            BY <1>h, <2>1 DEF TablesTyped
        <3>4. "award" \in PCs /\ nx \in PCs /\ ArgTyped(arg[r])
            BY <1>h, <3>1 DEF PCs
        <3>5. UNCHANGED <<loan, tx, user, history, credited>>
            BY <2>1, <3>1
        <3> QED
            BY <3>1, <3>2, <3>3, <3>4, <3>5, TypedLocal
    <2> QED
        BY <1>5, <2>3, <2>4, <2>5 DEF reconcileReread
<1> QED
    BY <1>1, <1>2, <1>3, <1>4, <1>5

LEMMA UpdateStepTyped ==
    ASSUME BookInv, NumberInv, TypeInv, NEW r \in Calls,
           updateNumber(r) \/ updateInsert(r) \/ updateReload(r) \/ updateApply(r)
    PROVE  TypeInv'
<1> USE DEF InUpdate, AwardPCs
<1>h. /\ CallSound(r) /\ Held(r) /\ CopyTyped(r) /\ ArgTyped(arg[r]) /\ TablesTyped
    BY TypedParts DEF BookInv, CallsSound, NumberInv
<1>u. /\ InUpdate(r) /\ row[r] \in LoanRow /\ arg[r].u \in Users /\ arg[r].b \in Patch
    BY <1>h DEF updateNumber, updateInsert, updateReload, updateApply, CopyTyped, CallSound
<1>1. CASE updateNumber(r)
    <2> DEFINE a == Arg(arg[r].u, arg[r].l, NoTx, generateTransactionId, 0, arg[r].b)
    <2>1. At(r, "updInsert", "idle", a, row[r], NoRow)
          /\ UNCHANGED <<loan, tx, user, history, credited>> /\ calls' = calls
        BY <1>1 DEF updateNumber
    <2>2. ArgTyped(a) /\ a.u \in Users
        BY <1>h, <1>u, CountsNatural DEF ArgTyped, Arg
    <2> HIDE DEF a
    <2>3. CopyTyped(r)'
        BY <1>u, <2>1, <2>2, AtHolds DEF CopyTyped
    <2>4. calls' \in 0..MaxCalls
        BY <1>h, <2>1 DEF TablesTyped
    <2> QED
        BY <1>u, <2>1, <2>2, <2>3, <2>4, TypedLocal DEF PCs
<1>2. CASE updateInsert(r)
    <2>1. pc[r] = "updInsert" /\ UNCHANGED <<loan, user, history, calls>> /\ next[r] = "idle"
        BY <1>2, <1>h DEF updateInsert, CallSound
    <2>2. CASE UNCHANGED tx /\ Goto(r, "apply")
        <3>1. CopyTyped(r)'
            BY <1>u, <2>1, <2>2, AtHolds DEF CopyTyped, Goto
        <3> QED
            BY <2>1, <2>2, <3>1, NothingWritten, TypedGoto DEF PCs
    <2>3. CASE ~(UNCHANGED tx /\ Goto(r, "apply"))
        <3>1. PICK t \in Txs :
                  /\ tx' = [tx EXCEPT ![t] =
                        Repayment(arg[r].n, arg[r].l, arg[r].u,
                                  Increase(row[r], arg[r].b), "COMPLETED", NoRef)]
                  /\ At(r, "award", "reload",
                        Arg(arg[r].u, arg[r].l, t, 0, 0, arg[r].b), row[r], NoRow)
            BY <1>2, <2>3 DEF updateInsert
        <3>2. UNCHANGED credited
            BY <1>2, <2>3 DEF updateInsert
        <3>3. /\ arg[r].n \in Nat /\ arg[r].l \in Loans /\ Increase(row[r], arg[r].b) \in Int
            BY <1>h, <1>u, <2>1 DEF Held, ArgTyped, CallSound, Increase, Patch
        <3>4. TablesTyped' /\ TxRows' = TxRows \union {t} /\ TxRows \subseteq TxRows'
            BY <1>u, <2>1, <3>1, <3>3, RepaymentTyped, TxWritten DEF TransactionStatus
        <3> DEFINE a == Arg(arg[r].u, arg[r].l, t, 0, 0, arg[r].b)
        <3>5. ArgTyped(a) /\ a.u \in Users /\ a.t = t
            BY <1>u, <3>3 DEF ArgTyped, Arg
        <3>6. At(r, "award", "reload", a, row[r], NoRow)
            BY <3>1
        <3> HIDE DEF a
        <3>7. CopyTyped(r)'
            BY <1>u, <3>4, <3>5, <3>6, AtHolds DEF CopyTyped
        <3>8. credited' = [credited EXCEPT ![r] = credited[r]] /\ credited[r] \in LoanRow \union {NoRow}
            BY <3>2, TypedParts
        <3> QED
            BY <1>u, <3>4, <3>5, <3>6, <3>7, <3>8, TypedMove DEF PCs
    <2> QED
        BY <2>2, <2>3
<1>3. CASE updateReload(r)
    <2> DEFINE now == loan[arg[r].l]
               lr == IF arg[r].l \notin Rows THEN row[r]
                     ELSE [loanId |-> row[r].loanId, user |-> row[r].user,
                           status |-> now.status, amount |-> row[r].amount,
                           amountDue |-> row[r].amountDue, amountPaid |-> now.amountPaid,
                           outstandingAmount |-> now.outstandingAmount]
    <2>1. At(r, "apply", "idle", arg[r], lr, NoRow)
          /\ UNCHANGED <<loan, tx, user, history, credited>> /\ calls' = calls
        BY <1>3 DEF updateReload
    <2>2. lr \in LoanRow
        <3>1. CASE arg[r].l \notin Rows
            BY <1>u, <3>1
        <3>2. CASE arg[r].l \in Rows
            BY <1>u, <3>2, LoadedRow DEF LoanRow
        <3> QED
            BY <3>1, <3>2
    <2> HIDE DEF lr
    <2>3. CopyTyped(r)'
        BY <1>u, <2>1, <2>2, AtHolds DEF CopyTyped
    <2>4. calls' \in 0..MaxCalls
        BY <1>h, <2>1 DEF TablesTyped
    <2> QED
        BY <1>h, <2>1, <2>2, <2>3, <2>4, TypedLocal DEF PCs
<1>4. CASE updateApply(r)
    <2>1. Patched(row[r], arg[r].b) \in LoanRow
        BY <1>u, RowsWritten
    <2>2. TablesTyped' /\ TxRows \subseteq TxRows'
        BY <1>4, <2>1, LoanWritten DEF updateApply
    <2> QED
        BY <1>4, <2>2, TypedFinish DEF updateApply
<1> QED
    BY <1>1, <1>2, <1>3, <1>4

LEMMA StepTyped ==
    ASSUME BookInv, NumberInv, TypeInv, [Next]_vars
    PROVE  TypeInv'
<1>1. CASE UNCHANGED vars
    BY <1>1 DEF vars, TypeInv, TypeOK, CopyTyped, InUpdate, Rows, TxRows
<1>2. ASSUME NEW r \in Calls, Arrive(r) \/ Step(r) \/ Crash(r)
      PROVE  TypeInv'
    <2>1. CASE Arrive(r)
        BY <2>1, ArriveTyped
    <2>2. CASE Crash(r)
        BY <2>2, NothingWritten, TypedFinish DEF Crash
    <2>3. CASE Step(r)
        BY <2>3, LoanStepTyped, AwardStepTyped, TxStepTyped, UpdateStepTyped DEF Step
    <2> QED
        BY <1>2, <2>1, <2>2, <2>3
<1> QED
    BY <1>1, <1>2 DEF Next

\* Whatever the interleaving, every table and every copy holds what its columns
\* can hold: no step reads a row of a call that has none.
THEOREM TypeInvariant == Spec => []TypeInv
<1>1. BookInv /\ NumberInv /\ TypeInv /\ [Next]_vars => TypeInv'
    BY StepTyped
<1> QED
    BY <1>1, InitTyped, BookInvariant, NumberInvariant, PTL DEF Spec

\* In particular the tables and the calls have their types (LoansService,
\* TransactionsService, MnoService, CreditScoreService).
THEOREM TypeCorrect == Spec => []TypeOK
<1>1. TypeInv => TypeOK
    BY DEF TypeInv
<1> QED
    BY <1>1, TypeInvariant, PTL

-----------------------------------------------------------------------------
\* TotalsAgree and ScoreExplained.  Between two writes of a call the row of its
\* user may be behind the tables; what it lacks is in the copies of the call.

\* Sums over the repayments of a user.
SumsOfMine ==
    \A u \in Users :
        /\ IsFiniteSet(Mine(u)) /\ Mine(u) \in SUBSET Txs
        /\ Booked[u] = SumOf(Amount, Mine(u)) /\ Earned[u] = SumOf(Point, Mine(u))
        /\ \A t \in Mine(u) : Amount[t] \in Int /\ Point[t] \in Int
        /\ Booked[u] \in Int /\ Earned[u] \in Int

LEMMA SumsByUser == TypeInv => SumsOfMine
<1> SUFFICES ASSUME TypeInv, NEW u \in Users
             PROVE  /\ IsFiniteSet(Mine(u)) /\ Mine(u) \in SUBSET Txs
                    /\ Booked[u] = SumOf(Amount, Mine(u)) /\ Earned[u] = SumOf(Point, Mine(u))
                    /\ \A t \in Mine(u) : Amount[t] \in Int /\ Point[t] \in Int
                    /\ Booked[u] \in Int /\ Earned[u] \in Int
    BY DEF SumsOfMine
<1>1. IsFiniteSet(Mine(u)) /\ Mine(u) \in SUBSET Txs
    BY FS_Subset DEF TypeInv, Mine, TxRows
<1>2. \A t \in Mine(u) : Amount[t] \in Int /\ Point[t] \in Int
    BY <1>1, TypedParts DEF TablesTyped, Mine, TxRows, TxRow, Amount, Point
<1>3. Booked[u] = SumOf(Amount, Mine(u)) /\ Earned[u] = SumOf(Point, Mine(u))
    BY <1>1, AmountOfIsSum, PointsAreSum DEF Booked, Earned
<1>4. Booked[u] \in Int /\ Earned[u] \in Int
    BY <1>1, <1>2, <1>3, SumFacts
<1> QED
    BY <1>1, <1>2, <1>3, <1>4

LEMMA SumsByUserNext == TypeInv' => SumsOfMine'
BY SumsByUser, PTL

\* Loans that keep their owner leave the counts alone.
LEMMA OwnersKept ==
    ASSUME TypeInv, NEW l \in Rows, NEW lr \in LoanRow, lr.user = loan[l].user,
           loan' = [loan EXCEPT ![l] = lr]
    PROVE  Rows' = Rows /\ Owned' = Owned /\ \A k \in Rows : loan'[k].user = loan[k].user
<1>1. l \in Loans /\ lr \notin {NoRow, Deleted} /\ loan \in [Loans -> LoanRow \union {NoRow, Deleted}]
    BY TypedParts, LoadedRow, BookAssumption DEF TablesTyped
<1>2. Rows' = Rows
    BY <1>1 DEF Rows
<1>3. \A k \in Rows : loan'[k].user = loan[k].user
    BY <1>1
<1>4. \A u \in Users : LoansOf(u)' = {k \in Rows' : loan'[k].user = u}
    BY DEF LoansOf
<1>5. \A u \in Users : LoansOf(u)' = LoansOf(u)
    BY <1>2, <1>3, <1>4 DEF LoansOf
<1> QED
    BY <1>2, <1>3, <1>5 DEF Owned

\* One loan more or less changes the count of its owner only.
LEMMA OthersCounted ==
    ASSUME TypeInv, NEW l \in Loans, NEW lr \in LoanRow \union {Deleted}, NEW u \in Users,
           l \in Rows => loan[l].user = u, lr # Deleted => lr.user = u,
           loan' = [loan EXCEPT ![l] = lr]
    PROVE  \A v \in Users \ {u} : Owned'[v] = Owned[v]
<1>1. lr # NoRow /\ loan \in [Loans -> LoanRow \union {NoRow, Deleted}]
    BY TypedParts, BookAssumption DEF TablesTyped
<1>2. \A k \in Loans \ {l} : loan'[k] = loan[k] /\ loan'[l] = lr
    BY <1>1
<1>3. ASSUME NEW v \in Users \ {u}
      PROVE  LoansOf(v)' = LoansOf(v)
    BY <1>1, <1>2 DEF LoansOf, Rows
<1> QED
    BY <1>3 DEF Owned

LEMMA CountsKept ==
    ASSUME UNCHANGED loan
    PROVE  Rows' = Rows /\ Owned' = Owned
BY DEF Rows, LoansOf, Owned

\* Steps that book and record nothing leave the sums alone.
LEMMA SumsKept ==
    ASSUME TypeInv, TypeInv', UNCHANGED <<tx, history>>
    PROVE  /\ TxRows' = TxRows /\ Standing' = Standing
           /\ \A u \in Users : Booked'[u] = Booked[u] /\ Earned'[u] = Earned[u]
<1>1. TxRows' = TxRows /\ Standing' = Standing
    BY DEF TxRows, Mine, Standing, Completed
<1>2. Amount' = Amount /\ Point' = Point
    BY DEF Amount, Point
<1>3. \A u \in Users : Mine(u)' = Mine(u)
    BY DEF TxRows, Mine
<1> QED
    BY <1>1, <1>2, <1>3, SumsByUser, SumsByUserNext DEF SumsOfMine

\* A repayment is added to the sums of its user, and of nobody else.
LEMMA RepaymentAdded ==
    ASSUME TypeInv, TypeInv', TablesTally, NEW t \in Txs \ TxRows, NEW v \in TxRow,
           tx' = [tx EXCEPT ![t] = v], UNCHANGED history
    PROVE  /\ TxRows' = TxRows \union {t} /\ tx'[t] = v /\ \A s \in TxRows : tx'[s] = tx[s]
           /\ Booked'[v.user] = Booked[v.user] + v.amount
           /\ v.status = "COMPLETED" => Standing' = Standing
           /\ v.status # "COMPLETED" => v.user \notin Standing'
           /\ \A u \in Users : Earned'[u] = Earned[u]
           /\ \A u \in Users \ {v.user} : Booked'[u] = Booked[u] /\ (u \in Standing' <=> u \in Standing)
<1>1. /\ tx \in [Txs -> TxRow \union {NoRow}] /\ v # NoRow /\ v.user \in Users /\ v.amount \in Int
    BY TypedParts, BookAssumption DEF TablesTyped, TxRow
<1>2. TxRows' = TxRows \union {t} /\ tx'[t] = v /\ \A s \in TxRows : tx'[s] = tx[s]
    BY <1>1 DEF TxRows
<1>3. \A u \in Users : Mine(u)' = IF u = v.user THEN Mine(u) \union {t} ELSE Mine(u)
    BY <1>1, <1>2 DEF Mine
<1>4. \A u \in Users : t \notin Mine(u)
    BY DEF Mine
<1>5. /\ \A s \in TxRows : Amount'[s] = Amount[s]
      /\ Amount'[t] = v.amount /\ Point' = Point
    BY <1>1, <1>2 DEF Amount, Point, TxRows
<1>6. Point[t] = 0
    BY DEF TablesTally, Point
<1>7. \A u \in Users : Mine(u) \subseteq TxRows
    BY DEF Mine
<1>8. Booked'[v.user] = Booked[v.user] + v.amount
    <2> DEFINE S == Mine(v.user)
    <2>1. /\ IsFiniteSet(S) /\ t \notin S /\ Amount'[t] \in Int
          /\ \A s \in S : Amount[s] \in Int /\ Amount'[s] = Amount[s]
        BY <1>1, <1>4, <1>5, <1>7, SumsByUser DEF SumsOfMine
    <2>2. SumOf(Amount', S \union {t}) = SumOf(Amount, S) + Amount'[t]
        <3> HIDE DEF S
        <3> QED
            BY <2>1, SumAdded, Zenon
    <2>3. Booked'[v.user] = SumOf(Amount', S \union {t}) /\ Booked[v.user] = SumOf(Amount, S)
        BY <1>1, <1>3, SumsByUser, SumsByUserNext DEF SumsOfMine
    <2> QED
        BY <1>5, <2>2, <2>3
<1>9. Earned'[v.user] = Earned[v.user]
    <2> DEFINE S == Mine(v.user)
    <2>1. /\ IsFiniteSet(S) /\ t \notin S /\ Point[t] \in Int
          /\ \A s \in S : Point[s] \in Int /\ Point[s] = Point[s]
        BY <1>1, <1>4, <1>6, SumsByUser DEF SumsOfMine
    <2>2. SumOf(Point, S \union {t}) = SumOf(Point, S) + Point[t]
        <3> HIDE DEF S
        <3> QED
            BY <2>1, SumAdded, Zenon
    <2>3. /\ Earned'[v.user] = SumOf(Point, S \union {t}) /\ Earned[v.user] = SumOf(Point, S)
          /\ Earned[v.user] \in Int
        BY <1>1, <1>3, <1>5, SumsByUser, SumsByUserNext DEF SumsOfMine
    <2> QED
        BY <1>6, <2>2, <2>3
<1>10. ASSUME NEW u \in Users, u # v.user
       PROVE  Booked'[u] = Booked[u] /\ Earned'[u] = Earned[u] /\ (u \in Standing' <=> u \in Standing)
    <2>1. Mine(u)' = Mine(u) /\ IsFiniteSet(Mine(u)) /\ \A s \in Mine(u) : Amount'[s] = Amount[s]
        BY <1>3, <1>5, <1>7, <1>10, SumsByUser DEF SumsOfMine
    <2>2. SumOf(Amount', Mine(u)) = SumOf(Amount, Mine(u))
        BY <2>1, SumSame
    <2>3. /\ Booked'[u] = SumOf(Amount', Mine(u)') /\ Booked[u] = SumOf(Amount, Mine(u))
          /\ Earned'[u] = SumOf(Point', Mine(u)') /\ Earned[u] = SumOf(Point, Mine(u))
        BY SumsByUser, SumsByUserNext DEF SumsOfMine
    <2>4. u \in Standing' <=> u \in Standing
        BY <1>2, <1>7, <2>1 DEF Standing, Completed
    <2> QED
        BY <1>5, <2>1, <2>2, <2>3, <2>4
<1>11. v.user \in Standing' <=> v.user \in Standing /\ v.status = "COMPLETED"
    BY <1>1, <1>2, <1>3, <1>7 DEF Standing, Completed
<1> QED
    BY <1>1, <1>2, <1>8, <1>9, <1>10, <1>11 DEF Standing

\* A repayment that keeps its user and amount moves no sum.  Whether its user's
\* repayments all stand may change, and they do not if it is not completed now.
LEMMA RepaymentPatched ==
    ASSUME TypeInv, TypeInv', NEW t \in TxRows, NEW v \in TxRow,
           v.user = tx[t].user, v.amount = tx[t].amount, v.loan = tx[t].loan,
           tx' = [tx EXCEPT ![t] = v], UNCHANGED history
    PROVE  /\ TxRows' = TxRows /\ tx'[t] = v /\ \A s \in TxRows \ {t} : tx'[s] = tx[s]
           /\ \A u \in Users : Booked'[u] = Booked[u] /\ Earned'[u] = Earned[u]
           /\ \A u \in Users \ {v.user} : u \in Standing' <=> u \in Standing
           /\ v.status = tx[t].status => Standing' = Standing
           /\ v.status # "COMPLETED" => v.user \notin Standing'
<1>1. /\ tx \in [Txs -> TxRow \union {NoRow}] /\ v # NoRow /\ t \in Txs
    BY TypedParts, BookAssumption DEF TablesTyped, TxRows
<1>2. TxRows' = TxRows /\ tx'[t] = v /\ \A s \in TxRows \ {t} : tx'[s] = tx[s]
    BY <1>1 DEF TxRows
<1>3. \A u \in Users : Mine(u)' = Mine(u) /\ Mine(u) \subseteq TxRows
    BY <1>2 DEF Mine
<1>4. Point' = Point /\ \A s \in TxRows : Amount'[s] = Amount[s]
    BY <1>1, <1>2 DEF Amount, Point, TxRows
<1>5. ASSUME NEW u \in Users
      PROVE  Booked'[u] = Booked[u] /\ Earned'[u] = Earned[u]
    <2>1. IsFiniteSet(Mine(u)) /\ \A s \in Mine(u) : Amount'[s] = Amount[s]
        BY <1>3, <1>4, SumsByUser DEF SumsOfMine
    <2>2. SumOf(Amount', Mine(u)) = SumOf(Amount, Mine(u))
        BY <2>1, SumSame
    <2>3. /\ Booked'[u] = SumOf(Amount', Mine(u)') /\ Booked[u] = SumOf(Amount, Mine(u))
          /\ Earned'[u] = SumOf(Point', Mine(u)') /\ Earned[u] = SumOf(Point, Mine(u))
        BY SumsByUser, SumsByUserNext DEF SumsOfMine
    <2> QED
        BY <1>3, <1>4, <2>2, <2>3
<1>6. \A u \in Users \ {v.user} : \A s \in Mine(u) : tx'[s] = tx[s]
    BY <1>2 DEF Mine
<1>7. \A u \in Users \ {v.user} : u \in Standing' <=> u \in Standing
    BY <1>3, <1>6 DEF Standing, Completed
<1>8. v.status = tx[t].status => Standing' = Standing
    <2>1. v.status = tx[t].status => \A u \in Users : \A s \in Mine(u) : tx'[s].status = tx[s].status
        BY <1>2, <1>3
    <2> QED
        BY <1>3, <2>1 DEF Standing, Completed
<1>9. v.status # "COMPLETED" => v.user \notin Standing'
    BY <1>2, <1>3 DEF Standing, Completed, Mine
<1> QED
    BY <1>2, <1>5, <1>7, <1>8, <1>9

\* A repayment that is not completed is not one that stands.
LEMMA NotStanding ==
    ASSUME NEW t \in TxRows, tx[t].status # "COMPLETED"
    PROVE  tx[t].user \notin Standing
BY DEF Standing, Completed, Mine

\* Points that are recorded are earned by the user of the repayment.
LEMMA PointsRecorded ==
    ASSUME TypeInv, TypeInv', NEW t \in TxRows, NEW n \in Nat,
           history' = [history EXCEPT ![t] = [rows |-> history[t].rows + 1,
                                              points |-> history[t].points + n]],
           UNCHANGED tx
    PROVE  /\ TxRows' = TxRows /\ Standing' = Standing
           /\ \A u \in Users : Booked'[u] = Booked[u]
           /\ Earned'[tx[t].user] = Earned[tx[t].user] + n
           /\ \A u \in Users \ {tx[t].user} : Earned'[u] = Earned[u]
<1>1. /\ t \in Txs /\ history \in [Txs -> [rows : Nat, points : Nat]]
      /\ tx[t].user \in Users
    BY TypedParts DEF TablesTyped, TxRows, TxRow
<1>2. TxRows' = TxRows /\ Standing' = Standing /\ Amount' = Amount
    BY DEF TxRows, Standing, Mine, Completed, Amount
<1>3. \A u \in Users : Mine(u)' = Mine(u)
    BY DEF TxRows, Mine
<1>4. /\ \A s \in Txs \ {t} : Point'[s] = Point[s]
      /\ Point'[t] = Point[t] + n /\ Point[t] \in Nat
    BY <1>1 DEF Point
<1>5. \A u \in Users : Booked'[u] = Booked[u]
    BY <1>2, <1>3, SumsByUser, SumsByUserNext DEF SumsOfMine
<1>6. Earned'[tx[t].user] = Earned[tx[t].user] + n
    <2> DEFINE S == Mine(tx[t].user)
    <2>1. IsFiniteSet(S) /\ t \in S /\ S \in SUBSET Txs /\ \A s \in S : Point[s] \in Int
        BY <1>1, SumsByUser DEF SumsOfMine, Mine
    <2>2. /\ \A s \in S : Point[s] \in Int /\ Point'[s] \in Int
          /\ \A s \in S \ {t} : Point[s] = Point'[s]
        BY <1>4, <2>1
    <2>3. SumOf(Point', S) = SumOf(Point, S) + (Point'[t] - Point[t])
        <3> HIDE DEF S
        <3> DEFINE v == Point
                   w == Point'
        <3>1. IsFiniteSet(S) /\ t \in S
            BY <2>1
        <3>2. \A x \in S : v[x] \in Int /\ w[x] \in Int
            BY <2>2
        <3>3. \A x \in S \ {t} : v[x] = w[x]
            BY <2>2
        <3> HIDE DEF v, w
        <3>4. SumOf(w, S) = SumOf(v, S) + (w[t] - v[t])
            BY <3>1, <3>2, <3>3, SumChanged
        <3> QED
            BY <3>4 DEF v, w
    <2>4. /\ Earned'[tx[t].user] = SumOf(Point', S) /\ Earned[tx[t].user] = SumOf(Point, S)
          /\ Earned[tx[t].user] \in Int
        BY <1>1, <1>3, SumsByUser, SumsByUserNext DEF SumsOfMine
    <2> HIDE DEF S
    <2> QED
        BY <1>4, <2>3, <2>4
<1>7. ASSUME NEW u \in Users, u # tx[t].user
      PROVE  Earned'[u] = Earned[u]
    <2>1. IsFiniteSet(Mine(u)) /\ t \notin Mine(u) /\ Mine(u) \in SUBSET Txs
        BY <1>7, SumsByUser DEF SumsOfMine, Mine
    <2>2. \A s \in Mine(u) : Point'[s] = Point[s]
        BY <1>4, <2>1
    <2>3. SumOf(Point', Mine(u)) = SumOf(Point, Mine(u))
        BY <2>1, <2>2, SumSame
    <2>4. Earned'[u] = SumOf(Point', Mine(u)') /\ Earned[u] = SumOf(Point, Mine(u))
        BY SumsByUser, SumsByUserNext DEF SumsOfMine
    <2> QED
        BY <1>3, <2>3, <2>4
<1> QED
    BY <1>2, <1>5, <1>6, <1>7

\* Points added to a score that was capped.
LEMMA CappedTwice ==
    ASSUME NEW e \in Int, NEW n \in Nat
    PROVE  Capped(Capped(e) + n) = Capped(e + n) /\ Capped(e + 0) = Capped(e)
BY BookAssumption DEF Capped

\* What the step of a call keeps when no other is in flight.
Tallied(r) ==
    /\ TablesTally /\ CallTallies(r)
    /\ pc[r] = "idle" => \A u \in Users : Agrees(u, user[u])

\* A step that writes no table: what it leaves the call with has to fit the tables.
LEMMA TablesSame ==
    ASSUME TypeInv, TypeInv', UNCHANGED <<loan, tx, user, history>>
    PROVE  /\ Rows' = Rows /\ TxRows' = TxRows /\ Owned' = Owned /\ Standing' = Standing
           /\ \A u \in Users : Booked'[u] = Booked[u] /\ Earned'[u] = Earned[u]
           /\ TablesTally => TablesTally'
           /\ \A u \in Users : Agrees(u, user[u]) => Agrees(u, user[u])'
<1>1. Rows' = Rows /\ TxRows' = TxRows /\ Owned' = Owned /\ Standing' = Standing
    BY CountsKept, SumsKept
<1>2. \A u \in Users : Booked'[u] = Booked[u] /\ Earned'[u] = Earned[u]
    BY SumsKept
<1>3. TablesTally => TablesTally'
    BY <1>1 DEF TablesTally
<1>4. \A u \in Users : Agrees(u, user[u]) => Agrees(u, user[u])'
    BY <1>1, <1>2 DEF Agrees, Counts, Adds, Scores
<1> QED
    BY <1>1, <1>2, <1>3, <1>4

\* The same user's call goes on with another sub-task.
LEMMA LocalTallied ==
    ASSUME TypeInv, TypeInv', NEW r \in Calls, Tallied(r), pc[r] # "idle",
           UNCHANGED <<loan, tx, user, history>>, arg'[r].u = arg[r].u, pc'[r] # "idle",
           OnItsRows(r)', ItsUserTallies(r)'
    PROVE  Tallied(r)'
<1>1. \A u \in Users \ {arg[r].u} : Agrees(u, user[u])'
    BY TablesSame DEF Tallied, CallTallies
<1> QED
    BY <1>1, TablesSame DEF Tallied, CallTallies

\* A call of a user whose row agrees with the tables.
LEMMA RowTallies ==
    ASSUME TypeInv, NEW r \in Calls, Agrees(arg[r].u, user[arg[r].u]),
           pc[r] \notin {"saveUser", "awardLoan", "awardUser", "award", "awardHistory"},
           next[r] # "award"
    PROVE  ItsUserTallies(r)
BY DEF ItsUserTallies, Agrees

\* A call that ends leaves every user with the row it should have.
LEMMA EndTallied ==
    ASSUME TypeInv, TypeInv', NEW r \in Calls, Tallied(r), pc[r] # "idle",
           UNCHANGED <<loan, tx, user, history>>, Agrees(arg[r].u, user[arg[r].u]),
           pc'[r] = "idle"
    PROVE  Tallied(r)'
<1>1. \A u \in Users : Agrees(u, user[u])
    BY DEF Tallied, CallTallies
<1> QED
    BY <1>1, TablesSame DEF Tallied, CallTallies

\* A request is taken when nothing is under way.
LEMMA RequestTallied ==
    ASSUME TypeInv, TypeInv', NEW r \in Calls, Tallied(r), pc[r] = "idle",
           UNCHANGED <<loan, tx, user, history>>, arg'[r].u \in Users,
           pc'[r] \notin {"idle", "saveUser", "awardLoan", "awardUser", "award", "awardHistory"},
           next'[r] # "award", OnItsRows(r)'
    PROVE  Tallied(r)'
<1>1. \A u \in Users : Agrees(u, user[u])'
    BY TablesSame DEF Tallied
<1>2. ItsUserTallies(r)'
    BY <1>1 DEF ItsUserTallies, Agrees
<1> QED
    BY <1>1, <1>2, TablesSame DEF Tallied, CallTallies

\* No reconciliation changes an amount.
NoCorrections == ReconcileAmounts \subseteq {NoAmount}

LEMMA ArriveTallied ==
    ASSUME NoCorrections, BookInv, TypeInv, TypeInv', NEW r \in Calls, Tallied(r), Arrive(r)
    PROVE  Tallied(r)'
<1> USE DEF InUpdate, AwardPCs
<1>t. /\ \A l \in Rows : l \in Loans /\ loan[l].user \in Users
      /\ \A t \in TxRows : tx[t].user \in Users
    BY TypedParts, LoadedRow DEF TablesTyped, TxRows, TxRow, LoanRow
<1>1. ASSUME NEW u \in Users, NEW amount \in Amounts, create(r, u, amount)
      PROVE  Tallied(r)'
    <2>1. /\ pc[r] = "idle" /\ UNCHANGED <<loan, tx, user, history>>
          /\ pc'[r] = "number" /\ next'[r] = "idle" /\ arg'[r].u = u
        BY <1>1, AtHolds DEF create, Request, Start, Arg
    <2>2. OnItsRows(r)'
        BY <2>1 DEF OnItsRows
    <2> QED
        BY <2>1, <2>2, RequestTallied
<1>2. ASSUME NEW l \in Loans, remove(r, l)
      PROVE  Tallied(r)'
    <2>1. /\ pc[r] = "idle" /\ UNCHANGED <<loan, tx, user, history>> /\ l \in Rows
          /\ pc'[r] = "delete" /\ next'[r] = "idle" /\ arg'[r].u = loan[l].user /\ arg'[r].l = l
        BY <1>2, AtHolds DEF remove, Request, Start, Arg
    <2>2. OnItsRows(r)'
        BY <2>1, TablesSame DEF OnItsRows
    <2> QED
        BY <1>t, <2>1, <2>2, RequestTallied
<1>3. ASSUME NEW l \in Rows, NEW status, NEW nx \in {"idle", "pending"},
             StartSave(r, l, status, nx), pc[r] = "idle"
      PROVE  Tallied(r)'
    <2>1. /\ UNCHANGED <<loan, tx, user, history>>
          /\ pc'[r] = "saveLoan" /\ next'[r] = nx /\ arg'[r].u = loan[l].user /\ arg'[r].l = l
          /\ row'[r].user = loan[l].user
        BY <1>3, AtHolds DEF StartSave, Start, Arg
    <2>2. OnItsRows(r)'
        BY <2>1, TablesSame DEF OnItsRows
    <2> QED
        BY <1>3, <1>t, <2>1, <2>2, RequestTallied
<1>4. ASSUME NEW l \in Loans,
             approve(r, l) \/ reject(r, l) \/ disburse(r, l) \/ processFulfillment(r, l)
      PROVE  Tallied(r)'
    <2>1. pc[r] = "idle" /\ l \in Rows
        BY <1>4 DEF approve, reject, disburse, processFulfillment, Request
    <2>2. \E status \in LoanStatus, nx \in {"idle", "pending"} : StartSave(r, l, status, nx)
        BY <1>4 DEF approve, reject, disburse, processFulfillment, LoanStatus
    <2> QED
        BY <1>3, <2>1, <2>2
<1>5. ASSUME NEW l \in Loans, NEW p \in Patches, update(r, l, p)
      PROVE  Tallied(r)'
    <2>1. /\ pc[r] = "idle" /\ UNCHANGED <<loan, tx, user, history>> /\ l \in Rows
          /\ pc'[r] \in {"updNumber", "apply"} /\ next'[r] = "idle"
          /\ arg'[r].u = loan[l].user /\ arg'[r].l = l /\ row'[r].user = loan[l].user
        BY <1>5, AtHolds DEF update, Request, Start, Arg, Restated
    <2>2. OnItsRows(r)'
        BY <2>1, TablesSame DEF OnItsRows
    <2> QED
        BY <1>t, <2>1, <2>2, RequestTallied
<1>6. ASSUME NEW l \in Loans, NEW amount \in Amounts, createRepayment(r, l, amount)
      PROVE  Tallied(r)'
    <2>1. /\ pc[r] = "idle" /\ UNCHANGED <<loan, tx, user, history>> /\ l \in Rows
          /\ pc'[r] = "txInsert" /\ next'[r] = "idle" /\ arg'[r].u = loan[l].user /\ arg'[r].l = l
        BY <1>6, AtHolds DEF createRepayment, Request, Start, Arg
    <2>2. OnItsRows(r)'
        BY <2>1, TablesSame DEF OnItsRows
    <2> QED
        BY <1>t, <2>1, <2>2, RequestTallied
<1>7. ASSUME NEW l \in Loans, NEW amount \in Amounts, NEW ref \in Refs \union {NoRef},
             processRepayment(r, l, amount, ref)
      PROVE  Tallied(r)'
    <2>1. /\ pc[r] = "idle" /\ UNCHANGED <<loan, tx, user, history>> /\ l \in Rows
          /\ pc'[r] = "mnoInsert" /\ next'[r] = "idle" /\ arg'[r].u = loan[l].user /\ arg'[r].l = l
          /\ row'[r].user = loan[l].user
        BY <1>7, AtHolds DEF processRepayment, Request, Start, Arg
    <2>2. OnItsRows(r)'
        BY <2>1, TablesSame DEF OnItsRows
    <2> QED
        BY <1>t, <2>1, <2>2, RequestTallied
<1>8. ASSUME NEW t \in Txs, NEW status \in ReconcileTo, NEW amount \in ReconcileAmounts,
             reconcile(r, t, status, amount)
      PROVE  Tallied(r)'
    <2>1. /\ pc[r] = "idle" /\ UNCHANGED <<loan, tx, user, history>> /\ t \in TxRows
          /\ pc'[r] = "patch" /\ next'[r] = "idle" /\ arg'[r].u = tx[t].user /\ arg'[r].t = t
          /\ arg'[r].a = tx[t].amount /\ (arg'[r].n # 1 => tx[t].status = "COMPLETED")
        BY <1>8, AtHolds DEF reconcile, Reconciling, Request, Arg, NoCorrections
    <2>2. OnItsRows(r)'
        BY <2>1, TablesSame DEF OnItsRows
    <2> QED
        BY <1>t, <2>1, <2>2, RequestTallied
<1> QED
    BY <1>1, <1>2, <1>4, <1>5, <1>6, <1>7, <1>8 DEF Arrive

\* The steps that only read: what they take into the copies of the call.
LEMMA ReadsTallied ==
    ASSUME NoCorrections, BookInv, TypeInv, TypeInv', NEW r \in Calls, Tallied(r),
           \/ createNumber(r) \/ countLoans(r) \/ disburseUser(r) \/ repaymentReconcile(r)
           \/ reconcileReread(r) \/ recalculateTotalRepaid(r) \/ updateNumber(r)
           \/ updateReload(r)
    PROVE  Tallied(r)'
<1> USE DEF InUpdate, AwardPCs
<1> DEFINE u == arg[r].u
<1>h. /\ pc[r] # "idle" => u \in Users /\ ItsUserTallies(r) /\ OnItsRows(r) /\ CallSound(r)
      /\ user \in [Users -> UserRow]
    BY TypedParts DEF Tallied, CallTallies, BookInv, CallsSound, TablesTyped, CopyTyped
<1>t. UNCHANGED <<loan, tx, user, history>>
    BY DEF createNumber, countLoans, disburseUser, repaymentReconcile, reconcileReread,
           recalculateTotalRepaid, updateNumber, updateReload
<1>1. CASE createNumber(r)
    <2>1. pc[r] = "number" /\ next[r] = "idle"
          /\ pc'[r] = "insert" /\ next'[r] = "idle" /\ arg'[r].u = u
        BY <1>1, <1>h, AtHolds DEF createNumber, Arg, CallSound
    <2>2. Agrees(u, user[u])
        BY <1>h, <2>1 DEF ItsUserTallies, Agrees
    <2>3. OnItsRows(r)' /\ ItsUserTallies(r)'
        BY <1>h, <1>t, <2>1, <2>2, TablesSame DEF OnItsRows, ItsUserTallies, Agrees
    <2> QED
        BY <1>t, <2>1, <2>3, LocalTallied
<1>2. CASE countLoans(r)
    <2>1. /\ pc[r] = "count" /\ next[r] = "idle"
          /\ pc'[r] = "saveUser" /\ next'[r] = "idle" /\ arg'[r].u = u
          /\ usr'[r] = UserWith(u, Cardinality(LoansOf(u)), user[u].totalRepaid, user[u].repaymentStatus)
        BY <1>2, <1>h, AtHolds DEF countLoans, CallSound
    <2>2. Adds(u, user[u], 0) /\ Scores(u, user[u], 0)
        BY <1>h, <2>1 DEF ItsUserTallies
    <2>3. Counts(u, usr'[r]) /\ Adds(u, usr'[r], 0) /\ Scores(u, usr'[r], 0)
        BY <1>h, <2>1, <2>2 DEF Counts, Adds, Scores, UserWith, Owned
    <2>4. ItsUserTallies(r)'
        BY <1>h, <1>t, <2>1, <2>3, TablesSame DEF ItsUserTallies, Counts, Adds, Scores
    <2>5. OnItsRows(r)'
        BY <2>1 DEF OnItsRows
    <2> QED
        BY <1>t, <2>1, <2>4, <2>5, LocalTallied
<1>3. CASE disburseUser(r)
    <2>1. /\ pc[r] = "pending" /\ next[r] = "idle"
          /\ pc'[r] = "saveUser" /\ next'[r] = "idle" /\ arg'[r].u = u
          /\ usr'[r] = UserWith(u, user[u].totalLoans, user[u].totalRepaid, "PENDING")
        BY <1>3, <1>h, AtHolds DEF disburseUser, CallSound
    <2>2. Counts(u, user[u]) /\ Adds(u, user[u], 0) /\ Scores(u, user[u], 0)
        BY <1>h, <2>1 DEF ItsUserTallies
    <2>3. Counts(u, usr'[r]) /\ Adds(u, usr'[r], 0) /\ Scores(u, usr'[r], 0)
        BY <1>h, <2>1, <2>2 DEF Counts, Adds, Scores, UserWith
    <2>4. ItsUserTallies(r)'
        BY <1>h, <1>t, <2>1, <2>3, TablesSame DEF ItsUserTallies, Counts, Adds, Scores
    <2>5. OnItsRows(r)'
        BY <2>1 DEF OnItsRows
    <2> QED
        BY <1>t, <2>1, <2>4, <2>5, LocalTallied
<1>4. CASE repaymentReconcile(r)
    <2>1. pc[r] = "load" /\ next[r] = "idle"
        BY <1>4, <1>h DEF repaymentReconcile, CallSound
    <2>2. arg[r].t \in TxRows /\ tx[arg[r].t].user = u /\ arg[r].a = tx[arg[r].t].amount
        BY <1>h, <2>1 DEF OnItsRows
    <2>3. arg[r].a # NoAmount
        BY <2>1, TypedParts, BookAssumption DEF ArgTyped
    <2>4. /\ pc'[r] = "patch" /\ next'[r] = "idle" /\ arg'[r].u = u /\ arg'[r].t = arg[r].t
          /\ arg'[r].a = tx[arg[r].t].amount
          /\ arg'[r].n # 1 => tx[arg[r].t].status = "COMPLETED"
        BY <1>4, <2>2, <2>3, AtHolds DEF repaymentReconcile, Reconciling, Arg
    <2>5. Agrees(u, user[u])
        BY <1>h, <2>1 DEF ItsUserTallies, Agrees
    <2>6. OnItsRows(r)'
        BY <1>t, <2>2, <2>4, TablesSame DEF OnItsRows
    <2>7. \A v \in Users : v = arg[r].u => Agrees(v, user[v])'
        BY <1>t, <2>5, TablesSame
    <2>8. ItsUserTallies(r)'
        BY <1>h, <2>1, <2>4, <2>7 DEF ItsUserTallies, Agrees
    <2> QED
        BY <1>t, <2>1, <2>4, <2>6, <2>8, LocalTallied
<1>5. CASE reconcileReread(r)
    <2> DEFINE t == arg[r].t
    <2>1. /\ pc[r] = "reread" /\ next[r] = "idle" /\ t \in TxRows /\ tx[t].user = u
          /\ tx[t].status = arg[r].b
          /\ Counts(u, user[u]) /\ Scores(u, user[u], 0)
        BY <1>5, <1>h DEF reconcileReread, CallSound, OnItsRows, ItsUserTallies
    <2>2. CASE tx[t].status = "COMPLETED"
        <3>1. /\ pc'[r] = "award" /\ next'[r] = "recalc" /\ arg'[r] = arg[r]
            BY <1>5, <2>1, <2>2, AtHolds DEF reconcileReread
        <3>2. OnItsRows(r)' /\ ItsUserTallies(r)'
            BY <1>h, <1>t, <2>1, <2>2, <3>1, TablesSame
               DEF OnItsRows, ItsUserTallies, Counts, Scores
        <3> QED
            BY <1>t, <2>1, <3>1, <3>2, LocalTallied
    <2>3. CASE tx[t].status # "COMPLETED"
        <3>1. pc'[r] = "idle"
            BY <1>5, <2>1, <2>3, AtHolds DEF reconcileReread, Finish
        <3>2. u \notin Standing
            BY <2>1, <2>3, NotStanding
        <3>3. Agrees(u, user[u])
            BY <2>1, <3>2 DEF Agrees, Adds
        <3> QED
            BY <1>t, <2>1, <3>1, <3>3, EndTallied
    <2> QED
        BY <2>2, <2>3
<1>6. CASE recalculateTotalRepaid(r)
    <2>1. /\ pc[r] = "recalc" /\ next[r] = "idle"
          /\ pc'[r] = "saveUser" /\ next'[r] = "idle" /\ arg'[r].u = u
          /\ usr'[r] = UserWith(u, user[u].totalLoans, AmountOf(Completed(Mine(u))),
                                user[u].repaymentStatus)
        BY <1>6, <1>h, AtHolds DEF recalculateTotalRepaid, CallSound, Mine
    <2>2. Counts(u, user[u]) /\ Scores(u, user[u], 0)
        BY <1>h, <2>1 DEF ItsUserTallies
    <2>3. u \in Standing => AmountOf(Completed(Mine(u))) = Booked[u]
        BY <1>h, <2>1 DEF Standing, Booked
    <2>4. Booked[u] \in Int
        BY <1>h, <2>1, SumsByUser DEF SumsOfMine
    <2>5. Counts(u, usr'[r]) /\ Adds(u, usr'[r], 0) /\ Scores(u, usr'[r], 0)
        BY <1>h, <2>1, <2>2, <2>3, <2>4 DEF Counts, Adds, Scores, UserWith
    <2>6. ItsUserTallies(r)'
        BY <1>h, <1>t, <2>1, <2>5, TablesSame DEF ItsUserTallies, Counts, Adds, Scores
    <2>7. OnItsRows(r)'
        BY <2>1 DEF OnItsRows
    <2> QED
        BY <1>t, <2>1, <2>6, <2>7, LocalTallied
<1>7. CASE updateNumber(r)
    <2>1. /\ pc[r] = "updNumber" /\ next[r] = "idle"
          /\ pc'[r] = "updInsert" /\ next'[r] = "idle" /\ arg'[r].u = u /\ arg'[r].l = arg[r].l
          /\ row'[r] = row[r]
        BY <1>7, <1>h, AtHolds DEF updateNumber, Arg, CallSound
    <2>2. Agrees(u, user[u])
        BY <1>h, <2>1 DEF ItsUserTallies, Agrees
    <2>3. OnItsRows(r)' /\ ItsUserTallies(r)'
        BY <1>h, <1>t, <2>1, <2>2, TablesSame DEF OnItsRows, ItsUserTallies, Agrees
    <2> QED
        BY <1>t, <2>1, <2>3, LocalTallied
<1>8. CASE updateReload(r)
    <2>1. /\ pc[r] = "reload" /\ next[r] = "idle"
          /\ pc'[r] = "apply" /\ next'[r] = "idle" /\ arg'[r] = arg[r]
          /\ row'[r].user = row[r].user
        BY <1>8, <1>h, AtHolds DEF updateReload, CallSound
    <2>2. Agrees(u, user[u])
        BY <1>h, <2>1 DEF ItsUserTallies, Agrees
    <2>3. OnItsRows(r)' /\ ItsUserTallies(r)'
        BY <1>h, <1>t, <2>1, <2>2, TablesSame DEF OnItsRows, ItsUserTallies, Agrees
    <2> QED
        BY <1>t, <2>1, <2>3, LocalTallied
<1> QED
    BY <1>1, <1>2, <1>3, <1>4, <1>5, <1>6, <1>7, <1>8

\* A user none of whose sums moves agrees as before.
LEMMA StillAgrees ==
    ASSUME NEW u \in Users, Agrees(u, user[u]), user'[u] = user[u], Owned'[u] = Owned[u],
           Booked'[u] = Booked[u], Earned'[u] = Earned[u], u \in Standing' => u \in Standing
    PROVE  Agrees(u, user[u])'
BY DEF Agrees, Counts, Adds, Scores

\* Saving a copy of a user writes one row.
LEMMA UserSaved ==
    ASSUME TypeInv, TypeInv', UNCHANGED <<loan, tx, history>>, NEW u \in Users, NEW ur,
           user' = [user EXCEPT ![u] = ur]
    PROVE  /\ Rows' = Rows /\ TxRows' = TxRows /\ Owned' = Owned /\ Standing' = Standing
           /\ \A v \in Users : Booked'[v] = Booked[v] /\ Earned'[v] = Earned[v]
           /\ TablesTally => TablesTally'
           /\ \A v \in Users \ {u} : Agrees(v, user[v]) => Agrees(v, user[v])'
           /\ user'[u] = ur
<1>1. Rows' = Rows /\ TxRows' = TxRows /\ Owned' = Owned /\ Standing' = Standing
    BY CountsKept, SumsKept
<1>2. \A v \in Users : Booked'[v] = Booked[v] /\ Earned'[v] = Earned[v]
    BY SumsKept
<1>3. TablesTally => TablesTally'
    BY <1>1 DEF TablesTally
<1>4. user'[u] = ur /\ \A v \in Users \ {u} : user'[v] = user[v]
    BY TypedParts DEF TablesTyped
<1>5. \A v \in Users \ {u} : Agrees(v, user[v]) => Agrees(v, user[v])'
    BY <1>1, <1>2, <1>4 DEF Agrees, Counts, Adds, Scores
<1> QED
    BY <1>1, <1>2, <1>3, <1>4, <1>5

\* The scoring returns to its caller: totalRepaid is right, unless it is about
\* to be recalculated.
LEMMA ProceedTallied ==
    ASSUME BookInv, TypeInv, TypeInv', NEW r \in Calls, Tallied(r), pc[r] \in AwardPCs,
           Proceed(r), UNCHANGED loan, TablesTally', NEW u \in Users, u = arg[r].u,
           \A v \in Users \ {u} : Agrees(v, user[v])',
           Counts(u, user[u])', Scores(u, user[u], 0)',
           next[r] = "recalc" \/ Adds(u, user[u], 0)'
    PROVE  Tallied(r)'
<1>1. Rows' = Rows /\ OnItsRows(r) /\ CallSound(r)
    BY DEF Rows, Tallied, CallTallies, BookInv, CallsSound, AwardPCs
<1>2. CASE next[r] = "idle"
    <2>1. pc'[r] = "idle"
        BY <1>2, AtHolds DEF Proceed, Finish
    <2>2. Agrees(u, user[u])'
        BY <1>2 DEF Agrees
    <2>3. \A v \in Users : Agrees(v, user[v])'
        BY <2>2
    <2> QED
        BY <2>1, <2>3 DEF Tallied, CallTallies
<1>3. CASE next[r] # "idle"
    <2>1. pc'[r] = next[r] /\ next'[r] = "idle" /\ arg'[r] = arg[r] /\ row'[r] = row[r]
        BY <1>3, AtHolds DEF Proceed
    <2>2. next[r] \in {"recalc", "reload"}
        BY <1>1, <1>3 DEF CallSound, AwardPCs
    <2>3. OnItsRows(r)'
        BY <1>1, <2>1, <2>2 DEF OnItsRows, InUpdate, AwardPCs
    <2>4. ItsUserTallies(r)'
        BY <2>1, <2>2 DEF ItsUserTallies
    <2> QED
        BY <2>1, <2>2, <2>3, <2>4 DEF Tallied, CallTallies
<1> QED
    BY <1>2, <1>3

\* What a call in flight brings to each of its steps.
Underway(r, u) ==
    /\ u = arg[r].u /\ TablesTally /\ OnItsRows(r) /\ ItsUserTallies(r) /\ CallSound(r)
    /\ \A v \in Users \ {u} : Agrees(v, user[v])

LEMMA UnderwayHolds ==
    ASSUME BookInv, TypeInv, NEW r \in Calls, Tallied(r), pc[r] # "idle"
    PROVE  \E u \in Users : Underway(r, u)
BY TypedParts DEF Tallied, CallTallies, BookInv, CallsSound, CopyTyped, Underway

\* How it is over when the call ends here, or goes on.
LEMMA OverTallied ==
    ASSUME NEW r \in Calls, pc'[r] = "idle", TablesTally', NEW u \in Users,
           Agrees(u, user[u])', \A v \in Users \ {u} : Agrees(v, user[v])'
    PROVE  Tallied(r)'
BY DEF Tallied, CallTallies

LEMMA OnTallied ==
    ASSUME NEW r \in Calls, pc'[r] # "idle", TablesTally', NEW u \in Users, u = arg'[r].u,
           OnItsRows(r)', ItsUserTallies(r)',
           \A v \in Users \ {u} : Agrees(v, user[v])'
    PROVE  Tallied(r)'
BY DEF Tallied, CallTallies

LEMMA SaveUserTallied ==
    ASSUME BookInv, TypeInv, TypeInv', NEW r \in Calls, Tallied(r), saveUser(r)
    PROVE  Tallied(r)'
<1>1. pc[r] = "saveUser" /\ UNCHANGED <<loan, tx, history>>
    BY DEF saveUser
<1>2. PICK u \in Users : Underway(r, u)
    BY <1>1, UnderwayHolds
<1>3. user' = [user EXCEPT ![u] = usr[r]] /\ next[r] = "idle" /\ Finish(r)
    BY <1>1, <1>2 DEF saveUser, Underway, OnItsRows, Proceed
<1>4. pc'[r] = "idle"
    BY <1>3, AtHolds DEF Finish
<1>5. Agrees(u, usr[r])
    BY <1>1, <1>2, <1>3 DEF Underway, ItsUserTallies, Agrees
<1>6. /\ Owned' = Owned /\ Standing' = Standing /\ TablesTally' /\ user'[u] = usr[r]
      /\ \A v \in Users : Booked'[v] = Booked[v] /\ Earned'[v] = Earned[v]
      /\ \A v \in Users \ {u} : Agrees(v, user[v])'
    BY <1>1, <1>2, <1>3, UserSaved DEF Underway
<1>7. Agrees(u, user[u])'
    BY <1>5, <1>6 DEF Agrees, Counts, Adds, Scores
<1> QED
    BY <1>4, <1>6, <1>7, OverTallied

LEMMA CreateInsertTallied ==
    ASSUME BookInv, TypeInv, TypeInv', NEW r \in Calls, Tallied(r), createInsert(r)
    PROVE  Tallied(r)'
<1>1. pc[r] = "insert" /\ UNCHANGED <<tx, user, history>>
    BY DEF createInsert
<1>2. PICK u \in Users : Underway(r, u)
    BY <1>1, UnderwayHolds
<1>3. Agrees(u, user[u]) /\ next[r] = "idle"
    BY <1>1, <1>2 DEF Underway, ItsUserTallies, Agrees, CallSound, AwardPCs
<1>4. CASE Finish(r) /\ UNCHANGED loan
    <2>1. pc'[r] = "idle"
        BY <1>4, AtHolds DEF Finish
    <2> QED
        BY <1>1, <1>2, <1>3, <1>4, <2>1, EndTallied DEF Underway
<1>5. CASE ~(Finish(r) /\ UNCHANGED loan)
    <2> DEFINE lr == [loanId |-> arg[r].n, user |-> arg[r].u, status |-> "PENDING",
                      amount |-> arg[r].a, amountDue |-> arg[r].a, amountPaid |-> 0,
                      outstandingAmount |-> arg[r].a]
    <2>1. PICK l \in Loans : loan[l] = NoRow /\ loan' = [loan EXCEPT ![l] = lr]
        BY <1>5 DEF createInsert
    <2>2. Goto(r, "count")
        BY <1>5 DEF createInsert
    <2>3. lr \in LoanRow /\ lr.user = u
        BY <1>2, TypedParts DEF ArgTyped, LoanRow, LoanStatus, Underway
    <2> HIDE DEF lr
    <2>4. pc'[r] = "count" /\ next'[r] = "idle" /\ arg'[r] = arg[r]
        BY <1>3, <2>2, AtHolds DEF Goto
    <2>5. \A v \in Users \ {u} : Owned'[v] = Owned[v]
        BY <2>1, <2>3, OthersCounted, BookAssumption DEF Rows
    <2>6. /\ TxRows' = TxRows /\ Standing' = Standing
          /\ \A v \in Users : Booked'[v] = Booked[v] /\ Earned'[v] = Earned[v]
        BY <1>1, SumsKept
    <2>7. \A v \in Users \ {u} : Agrees(v, user[v])'
        BY <1>1, <1>2, <2>5, <2>6, StillAgrees DEF Underway
    <2>8. TablesTally'
        <3>1. \A k \in Rows : k # l /\ k \in Rows' /\ loan'[k] = loan[k]
            BY <2>1, TypedParts DEF TablesTyped, Rows
        <3> QED
            BY <1>1, <1>2, <2>6, <3>1 DEF TablesTally, Underway
    <2>9. OnItsRows(r)'
        BY <2>4 DEF OnItsRows, InUpdate, AwardPCs
    <2>10. ItsUserTallies(r)'
        BY <1>1, <1>2, <1>3, <2>4, <2>6 DEF ItsUserTallies, Agrees, Adds, Scores, Underway
    <2> QED
        BY <1>2, <2>4, <2>7, <2>8, <2>9, <2>10, OnTallied DEF Underway
<1> QED
    BY <1>4, <1>5

LEMMA RemoveDeleteTallied ==
    ASSUME BookInv, TypeInv, TypeInv', NEW r \in Calls, Tallied(r), removeDelete(r)
    PROVE  Tallied(r)'
<1>1. pc[r] = "delete" /\ UNCHANGED <<tx, user, history>>
    BY DEF removeDelete
<1>2. PICK u \in Users : Underway(r, u)
    BY <1>1, UnderwayHolds
<1>3. Agrees(u, user[u]) /\ next[r] = "idle"
    BY <1>1, <1>2 DEF Underway, ItsUserTallies, Agrees, CallSound, AwardPCs
<1>4. CASE Finish(r) /\ UNCHANGED loan
    <2>1. pc'[r] = "idle"
        BY <1>4, AtHolds DEF Finish
    <2> QED
        BY <1>1, <1>2, <1>3, <1>4, <2>1, EndTallied DEF Underway
<1>5. CASE ~(Finish(r) /\ UNCHANGED loan)
    <2>1. PICK l \in Rows : /\ l = arg[r].l /\ loan[l].user = u /\ RepaymentsOf(l) = {}
                            /\ loan' = [loan EXCEPT ![l] = Deleted]
        BY <1>1, <1>2, <1>5 DEF removeDelete, Underway, OnItsRows
    <2>2. Goto(r, "count")
        BY <1>5 DEF removeDelete
    <2>3. pc'[r] = "count" /\ next'[r] = "idle" /\ arg'[r] = arg[r]
        BY <1>3, <2>2, AtHolds DEF Goto
    <2>4. l \in Loans
        BY DEF Rows
    <2>5. \A v \in Users \ {u} : Owned'[v] = Owned[v]
        BY <2>1, <2>4, OthersCounted
    <2>6. /\ TxRows' = TxRows /\ Standing' = Standing
          /\ \A v \in Users : Booked'[v] = Booked[v] /\ Earned'[v] = Earned[v]
        BY <1>1, SumsKept
    <2>7. \A v \in Users \ {u} : Agrees(v, user[v])'
        BY <1>1, <1>2, <2>5, <2>6, StillAgrees DEF Underway
    <2>8. TablesTally'
        <3>1. \A k \in Rows \ {l} : k \in Rows' /\ loan'[k] = loan[k]
            BY <2>1, TypedParts DEF TablesTyped, Rows
        <3>2. \A t \in TxRows : tx[t].loan # l
            BY <2>1 DEF RepaymentsOf
        <3> QED
            BY <1>1, <1>2, <2>6, <3>1, <3>2 DEF TablesTally, Underway
    <2>9. OnItsRows(r)'
        BY <2>3 DEF OnItsRows, InUpdate, AwardPCs
    <2>10. ItsUserTallies(r)'
        BY <1>1, <1>2, <1>3, <2>3, <2>6 DEF ItsUserTallies, Agrees, Adds, Scores, Underway
    <2> QED
        BY <1>2, <2>3, <2>7, <2>8, <2>9, <2>10, OnTallied DEF Underway
<1> QED
    BY <1>4, <1>5

\* A loan saved by its owner's call.
LEMMA LoanSaved ==
    ASSUME TypeInv, TypeInv', UNCHANGED <<tx, user, history>>, TablesTally,
           NEW l \in Rows, NEW lr \in LoanRow, lr.user = loan[l].user,
           loan' = [loan EXCEPT ![l] = lr]
    PROVE  /\ Rows' = Rows /\ TxRows' = TxRows /\ Owned' = Owned /\ Standing' = Standing
           /\ \A v \in Users : Booked'[v] = Booked[v] /\ Earned'[v] = Earned[v]
           /\ \A k \in Rows : loan'[k].user = loan[k].user
           /\ TablesTally'
           /\ \A v \in Users : Agrees(v, user[v]) => Agrees(v, user[v])'
<1>1. Rows' = Rows /\ Owned' = Owned /\ \A k \in Rows : loan'[k].user = loan[k].user
    BY OwnersKept
<1>2. /\ TxRows' = TxRows /\ Standing' = Standing
      /\ \A v \in Users : Booked'[v] = Booked[v] /\ Earned'[v] = Earned[v]
    BY SumsKept
<1>3. TablesTally'
    BY <1>1, <1>2 DEF TablesTally
<1>4. \A v \in Users : Agrees(v, user[v]) => Agrees(v, user[v])'
    BY <1>1, <1>2, StillAgrees
<1> QED
    BY <1>1, <1>2, <1>3, <1>4

LEMMA SaveLoanTallied ==
    ASSUME BookInv, TypeInv, TypeInv', NEW r \in Calls, Tallied(r), saveLoan(r)
    PROVE  Tallied(r)'
<1> USE DEF InUpdate, AwardPCs
<1>1. pc[r] = "saveLoan" /\ UNCHANGED <<tx, user, history>>
    BY DEF saveLoan
<1>2. PICK u \in Users : Underway(r, u)
    BY <1>1, UnderwayHolds
<1>3. PICK l \in Rows : l = arg[r].l /\ loan[l].user = u /\ loan' = [loan EXCEPT ![l] = row[r]]
    BY <1>1, <1>2 DEF saveLoan, Underway, OnItsRows
<1>4. row[r] \in LoanRow /\ row[r].user = loan[l].user
    BY <1>1, <1>2, <1>3, TypedParts DEF CopyTyped, Underway, OnItsRows
<1>5. /\ Rows' = Rows /\ TxRows' = TxRows /\ Owned' = Owned /\ Standing' = Standing
      /\ \A v \in Users : Booked'[v] = Booked[v] /\ Earned'[v] = Earned[v]
      /\ TablesTally'
      /\ \A v \in Users : Agrees(v, user[v]) => Agrees(v, user[v])'
    BY <1>1, <1>2, <1>3, <1>4, LoanSaved DEF Underway
<1>6. CASE next[r] = "idle"
    <2>1. pc'[r] = "idle"
        BY <1>6, AtHolds DEF saveLoan, Proceed, Finish
    <2>2. Agrees(u, user[u])
        BY <1>1, <1>2, <1>6 DEF Underway, ItsUserTallies, Agrees
    <2> QED
        BY <1>2, <1>5, <2>1, <2>2, OverTallied DEF Underway
<1>7. CASE next[r] # "idle"
    <2>1. next[r] \in {"award", "pending"}
        BY <1>1, <1>2, <1>7 DEF Underway, CallSound
    <2>2. pc'[r] = next[r] /\ next'[r] = "idle" /\ arg'[r] = arg[r]
        BY <1>7, AtHolds DEF saveLoan, Proceed
    <2>3. OnItsRows(r)'
        <3>1. next[r] = "award" => /\ arg[r].t \in TxRows /\ tx[arg[r].t].user = arg[r].u
                                   /\ tx[arg[r].t].status = "COMPLETED"
                                   /\ history[arg[r].t].rows = 0
            BY <1>2 DEF OnItsRows, Underway
        <3> QED
            BY <1>1, <1>5, <2>1, <2>2, <3>1 DEF OnItsRows
    <2>4. ItsUserTallies(r)'
        BY <1>1, <1>2, <1>5, <2>1, <2>2 DEF ItsUserTallies, Counts, Adds, Scores, Underway
    <2> QED
        BY <1>2, <1>5, <2>1, <2>2, <2>3, <2>4, OnTallied DEF Underway
<1> QED
    BY <1>6, <1>7

LEMMA UpdateApplyTallied ==
    ASSUME BookInv, TypeInv, TypeInv', NEW r \in Calls, Tallied(r), updateApply(r)
    PROVE  Tallied(r)'
<1> USE DEF InUpdate
<1>1. pc[r] = "apply" /\ UNCHANGED <<tx, user, history>>
    BY DEF updateApply
<1>2. PICK u \in Users : Underway(r, u)
    BY <1>1, UnderwayHolds
<1> DEFINE lr == Patched(row[r], arg[r].b)
<1>3. PICK l \in Rows : l = arg[r].l /\ loan[l].user = u /\ loan' = [loan EXCEPT ![l] = lr]
    BY <1>1, <1>2 DEF updateApply, Underway, OnItsRows
<1>4. lr \in LoanRow
    BY <1>1, <1>2, TypedParts, RowsWritten DEF CopyTyped, Underway, CallSound
<1>5. lr.user = loan[l].user
    BY <1>1, <1>2, <1>3 DEF Underway, OnItsRows, Patched
<1> HIDE DEF lr
<1>6. /\ TablesTally' /\ \A v \in Users : Agrees(v, user[v]) => Agrees(v, user[v])'
    BY <1>1, <1>2, <1>3, <1>4, <1>5, LoanSaved DEF Underway
<1>7. pc'[r] = "idle"
    BY AtHolds DEF updateApply, Finish
<1>8. Agrees(u, user[u])
    BY <1>1, <1>2 DEF Underway, ItsUserTallies, Agrees, CallSound, AwardPCs
<1> QED
    BY <1>2, <1>6, <1>7, <1>8, OverTallied DEF Underway

\* What a call holds while it awards points: a repayment of its user.
LEMMA AwardHolds ==
    ASSUME NEW r \in Calls, NEW u, Underway(r, u), pc[r] \in AwardPCs
    PROVE  /\ arg[r].t \in TxRows /\ tx[arg[r].t].user = u
           /\ tx[arg[r].t].loan \in Rows /\ loan[tx[arg[r].t].loan].user = u
           /\ next[r] \in {"idle", "recalc", "reload"}
           /\ next[r] = "reload" =>
                 arg[r].l \in Rows /\ loan[arg[r].l].user = u /\ row[r].user = u
           /\ pc[r] = "award" => tx[arg[r].t].status = "COMPLETED"
           /\ pc[r] = "award" /\ history[arg[r].t].rows # 0 => next[r] = "recalc"
           /\ pc[r] # "award" => history[arg[r].t].rows = 0
           /\ pc[r] = "awardLoan" => credited[r].user = u
BY DEF Underway, OnItsRows, CallSound, TablesTally, InUpdate, AwardPCs

LEMMA AwardTallied ==
    ASSUME BookInv, TypeInv, TypeInv', NEW r \in Calls, Tallied(r), award(r)
    PROVE  Tallied(r)'
<1> USE DEF InUpdate, AwardPCs
<1>1. pc[r] = "award" /\ UNCHANGED <<loan, tx, user, history>>
    BY DEF award
<1>2. PICK u \in Users : Underway(r, u)
    BY <1>1, UnderwayHolds
<1> DEFINE t == arg[r].t
           l == tx[t].loan
           after == creditLoan(loan[l], tx[t].amount)
<1>b. (history[t].rows > 0 /\ Proceed(r)) \/ \E status : AwardSaves(r, status)
    BY AwardBranches
<1> HIDE DEF after
<1>3. /\ t \in TxRows /\ tx[t].user = u /\ l \in Rows /\ loan[l].user = u
      /\ next[r] \in {"idle", "recalc", "reload"}
      /\ next[r] = "reload" => arg[r].l \in Rows /\ loan[arg[r].l].user = u /\ row[r].user = u
      /\ history[t].rows # 0 => next[r] = "recalc"
    BY <1>1, <1>2, AwardHolds
<1>4. /\ Counts(u, user[u]) /\ Scores(u, user[u], 0)
      /\ next[r] = "recalc" \/ Adds(u, user[u], tx[t].amount)
    BY <1>1, <1>2, <1>3 DEF Underway, ItsUserTallies
<1>5. /\ Rows' = Rows /\ TxRows' = TxRows /\ Owned' = Owned /\ Standing' = Standing
      /\ \A v \in Users : Booked'[v] = Booked[v] /\ Earned'[v] = Earned[v]
      /\ TablesTally' /\ \A v \in Users \ {u} : Agrees(v, user[v])'
    BY <1>1, <1>2, TablesSame DEF Underway
<1>6. CASE history[t].rows # 0
    <2>1. Proceed(r)
        BY <1>6, <1>b DEF AwardSaves
    <2>2. Counts(u, user[u])' /\ Scores(u, user[u], 0)'
        BY <1>1, <1>4, <1>5 DEF Counts, Scores
    <2> QED
        BY <1>1, <1>2, <1>3, <1>5, <1>6, <2>1, <2>2, ProceedTallied DEF Underway
<1>7. CASE history[t].rows = 0
    <2>0. PICK status : AwardSaves(r, status)
        BY <1>7, <1>b
    <2>1. At(r, "awardLoan", next[r], arg[r], row[r],
             UserWith(u, user[u].totalLoans, user[u].totalRepaid + tx[t].amount, status))
        BY <1>3, <2>0 DEF AwardSaves
    <2>2. credited' = [credited EXCEPT ![r] = after]
        BY <2>0 DEF AwardSaves, after
    <2>3. /\ pc'[r] = "awardLoan" /\ next'[r] = next[r] /\ arg'[r] = arg[r] /\ row'[r] = row[r]
          /\ usr'[r] = UserWith(u, user[u].totalLoans, user[u].totalRepaid + tx[t].amount, status)
        BY <2>1, AtHolds
    <2>4. credited'[r].user = u
        <3>1. after.user = u
            BY <1>3 DEF after, creditLoan
        <3>2. credited'[r] = after
            BY <2>2, TypedParts
        <3> QED
            BY <3>1, <3>2
    <2>5. user[u].totalRepaid \in Int /\ tx[t].amount \in Int
        BY <1>3, TypedParts DEF TablesTyped, UserRow, TxRows, TxRow
    <2>6. /\ Counts(u, usr'[r]) /\ Scores(u, usr'[r], 0)
          /\ next[r] = "recalc" \/ Adds(u, usr'[r], 0)
        BY <1>4, <2>3, <2>5 DEF Counts, Scores, Adds, UserWith
    <2>7. ItsUserTallies(r)'
        <3>1. /\ Counts(u, usr[r])' /\ Scores(u, usr[r], 0)'
              /\ next'[r] = "recalc" \/ Adds(u, usr[r], 0)'
            BY <1>5, <2>3, <2>6 DEF Counts, Scores, Adds
        <3>2. arg'[r].u = u /\ next'[r] # "award" /\ pc'[r] = "awardLoan"
            BY <1>2, <1>3, <2>3 DEF Underway
        <3> QED
            BY <3>1, <3>2 DEF ItsUserTallies
    <2>8. OnItsRows(r)'
        BY <1>1, <1>2, <1>3, <1>5, <1>7, <2>3, <2>4 DEF OnItsRows, Underway
    <2> QED
        BY <1>2, <1>5, <2>3, <2>7, <2>8, OnTallied DEF Underway
<1> QED
    BY <1>6, <1>7

LEMMA AwardLoanTallied ==
    ASSUME BookInv, TypeInv, TypeInv', NEW r \in Calls, Tallied(r), awardLoan(r)
    PROVE  Tallied(r)'
<1> USE DEF InUpdate, AwardPCs
<1>1. pc[r] = "awardLoan" /\ UNCHANGED <<tx, user, history>>
    BY DEF awardLoan
<1>2. PICK u \in Users : Underway(r, u)
    BY <1>1, UnderwayHolds
<1> DEFINE t == arg[r].t
<1>3. /\ t \in TxRows /\ tx[t].user = u /\ history[t].rows = 0 /\ credited[r].user = u
      /\ next[r] \in {"idle", "recalc", "reload"}
      /\ next[r] = "reload" => arg[r].l \in Rows /\ loan[arg[r].l].user = u /\ row[r].user = u
    BY <1>1, <1>2, AwardHolds
<1>4. PICK l \in Rows : loan[l].user = u /\ loan' = [loan EXCEPT ![l] = credited[r]]
    BY <1>1, <1>2, AwardHolds DEF awardLoan
<1>5. credited[r] \in LoanRow
    BY <1>1, TypedParts DEF CopyTyped
<1>6. /\ Rows' = Rows /\ TxRows' = TxRows /\ Owned' = Owned /\ Standing' = Standing
      /\ \A v \in Users : Booked'[v] = Booked[v] /\ Earned'[v] = Earned[v]
      /\ \A k \in Rows : loan'[k].user = loan[k].user
      /\ TablesTally' /\ \A v \in Users \ {u} : Agrees(v, user[v])'
    BY <1>1, <1>2, <1>3, <1>4, <1>5, LoanSaved DEF Underway
<1>7. /\ pc'[r] = "awardUser" /\ next'[r] = next[r] /\ arg'[r] = arg[r] /\ row'[r] = row[r]
      /\ usr'[r] = usr[r]
    BY AtHolds DEF awardLoan, Goto
<1>8. Counts(u, usr[r]) /\ Scores(u, usr[r], 0) /\ (next[r] = "recalc" \/ Adds(u, usr[r], 0))
    BY <1>1, <1>2, <1>3 DEF Underway, ItsUserTallies
<1>9. ItsUserTallies(r)'
    BY <1>2, <1>3, <1>6, <1>7, <1>8 DEF ItsUserTallies, Counts, Scores, Adds, Underway
<1>10. OnItsRows(r)'
    BY <1>1, <1>2, <1>3, <1>6, <1>7 DEF OnItsRows, Underway
<1> QED
    BY <1>2, <1>6, <1>7, <1>9, <1>10, OnTallied DEF Underway

LEMMA AwardUserTallied ==
    ASSUME BookInv, TypeInv, TypeInv', NEW r \in Calls, Tallied(r), awardUser(r)
    PROVE  Tallied(r)'
<1> USE DEF InUpdate, AwardPCs
<1>1. pc[r] = "awardUser" /\ UNCHANGED <<loan, tx, history>>
    BY DEF awardUser
<1>2. PICK u \in Users : Underway(r, u)
    BY <1>1, UnderwayHolds
<1> DEFINE t == arg[r].t
           copy == usr[r]
<1>3. /\ t \in TxRows /\ tx[t].user = u /\ history[t].rows = 0
      /\ next[r] \in {"idle", "recalc", "reload"}
      /\ next[r] = "reload" => arg[r].l \in Rows /\ loan[arg[r].l].user = u /\ row[r].user = u
    BY <1>1, <1>2, AwardHolds
<1>4. Counts(u, copy) /\ Scores(u, copy, 0) /\ (next[r] = "recalc" \/ Adds(u, copy, 0))
    BY <1>1, <1>2, <1>3 DEF Underway, ItsUserTallies
<1>5. copy \in UserRow
    BY <1>1, TypedParts DEF CopyTyped
<1>6. PICK points \in Nat :
          LET sum == copy.creditScore + points
              total == IF sum > MaxScore THEN MaxScore ELSE sum
          IN  IF points <= 0
              THEN /\ user' = [user EXCEPT ![u] = copy]
                   /\ Proceed(r)
              ELSE /\ user' = [user EXCEPT ![u] =
                          [creditScore |-> total,
                           creditLimit |-> IF AutoLimit THEN EligibleAmount(u, total)
                                           ELSE copy.creditLimit,
                           totalLoans |-> copy.totalLoans,
                           totalRepaid |-> copy.totalRepaid,
                           repaymentStatus |-> copy.repaymentStatus]]
                   /\ At(r, "awardHistory", next[r],
                         Arg(arg[r].u, arg[r].l, arg[r].t, points, arg[r].a, arg[r].b),
                         row[r], usr[r])
                   /\ UNCHANGED credited
    BY <1>3, BookAssumption DEF awardUser, Points
<1>7. \E ur : user' = [user EXCEPT ![u] = ur]
    BY <1>6
<1>8. /\ Rows' = Rows /\ TxRows' = TxRows /\ Owned' = Owned /\ Standing' = Standing
      /\ \A v \in Users : Booked'[v] = Booked[v] /\ Earned'[v] = Earned[v]
      /\ TablesTally' /\ \A v \in Users \ {u} : Agrees(v, user[v])'
      /\ \A ur : user' = [user EXCEPT ![u] = ur] => user'[u] = ur
    BY <1>1, <1>2, <1>7, UserSaved DEF Underway
<1>9. CASE points <= 0
    <2>1. Proceed(r) /\ user'[u] = copy
        BY <1>6, <1>8, <1>9
    <2>2. /\ Counts(u, user[u])' /\ Scores(u, user[u], 0)'
          /\ next[r] = "recalc" \/ Adds(u, user[u], 0)'
        BY <1>4, <1>8, <2>1 DEF Counts, Scores, Adds
    <2> QED
        BY <1>1, <1>2, <1>8, <2>1, <2>2, ProceedTallied DEF Underway
<1>10. CASE ~(points <= 0)
    <2> DEFINE sum == copy.creditScore + points
               total == IF sum > MaxScore THEN MaxScore ELSE sum
    <2>1. /\ user'[u].creditScore = total /\ user'[u].totalLoans = copy.totalLoans
          /\ user'[u].totalRepaid = copy.totalRepaid
        BY <1>6, <1>8, <1>10
    <2>2. /\ pc'[r] = "awardHistory" /\ next'[r] = next[r] /\ row'[r] = row[r]
          /\ arg'[r].u = arg[r].u /\ arg'[r].l = arg[r].l /\ arg'[r].t = arg[r].t
          /\ arg'[r].n = points
        BY <1>6, <1>10, AtHolds DEF Arg
    <2>3. Scores(u, user'[u], points)
        <3>1. Earned[u] \in Int
            BY SumsByUser DEF SumsOfMine
        <3>2. copy.creditScore = Capped(Earned[u])
            BY <1>4, <3>1, CappedTwice, BookAssumption DEF Scores
        <3>3. total = Capped(Capped(Earned[u]) + points)
            BY <3>2 DEF Capped
        <3> QED
            BY <2>1, <3>1, <3>3, CappedTwice DEF Scores
    <2>4. /\ Counts(u, user[u])' /\ Scores(u, user'[u], points)
          /\ next[r] = "recalc" \/ Adds(u, user[u], 0)'
        BY <1>4, <1>8, <2>1, <2>3 DEF Counts, Adds
    <2>5. ItsUserTallies(r)'
        BY <1>2, <1>3, <1>8, <2>2, <2>4 DEF ItsUserTallies, Scores, Underway
    <2>6. OnItsRows(r)'
        BY <1>1, <1>2, <1>3, <1>8, <2>2 DEF OnItsRows, Underway
    <2> QED
        BY <1>2, <1>8, <2>2, <2>5, <2>6, OnTallied DEF Underway
<1> QED
    BY <1>9, <1>10

LEMMA AwardHistoryTallied ==
    ASSUME BookInv, TypeInv, TypeInv', NEW r \in Calls, Tallied(r), awardHistory(r)
    PROVE  Tallied(r)'
<1> USE DEF InUpdate, AwardPCs
<1>1. pc[r] = "awardHistory" /\ UNCHANGED <<loan, tx, user>> /\ Proceed(r)
    BY DEF awardHistory
<1>2. PICK u \in Users : Underway(r, u)
    BY <1>1, UnderwayHolds
<1>3. PICK t \in TxRows : /\ t = arg[r].t /\ tx[t].user = u /\ history[t].rows = 0
    BY <1>1, <1>2, AwardHolds
<1>4. PICK n \in Nat : n = arg[r].n
    BY TypedParts DEF ArgTyped
<1>5. /\ Counts(u, user[u]) /\ Scores(u, user[u], n)
      /\ next[r] = "recalc" \/ Adds(u, user[u], 0)
    BY <1>1, <1>2, <1>4, AwardHolds DEF Underway, ItsUserTallies
<1>6. history' = [history EXCEPT ![t] = [rows |-> history[t].rows + 1,
                                         points |-> history[t].points + n]]
    BY <1>3, <1>4 DEF awardHistory
<1>7. Rows' = Rows /\ Owned' = Owned
    BY <1>1, CountsKept
<1>8. /\ TxRows' = TxRows /\ Standing' = Standing
      /\ \A v \in Users : Booked'[v] = Booked[v]
      /\ Earned'[u] = Earned[u] + n
      /\ \A v \in Users \ {u} : Earned'[v] = Earned[v]
    BY <1>1, <1>3, <1>6, PointsRecorded
<1>9. TablesTally'
    <2>1. /\ history'[t].rows = 1 /\ t \in Txs
          /\ \A s \in Txs \ {t} : history'[s] = history[s]
        BY <1>3, <1>6, TypedParts DEF TablesTyped, TxRows
    <2> QED
        BY <1>1, <1>2, <1>3, <1>7, <1>8, <2>1 DEF TablesTally, Underway
<1>10. \A v \in Users \ {u} : Agrees(v, user[v])'
    BY <1>1, <1>2, <1>7, <1>8, StillAgrees DEF Underway
<1>11. Earned[u] \in Int
    BY SumsByUser DEF SumsOfMine
<1>12. Scores(u, user[u], 0)'
    BY <1>1, <1>5, <1>8, <1>11 DEF Scores
<1>13. Counts(u, user[u])' /\ (next[r] = "recalc" \/ Adds(u, user[u], 0)')
    BY <1>1, <1>5, <1>7, <1>8 DEF Counts, Adds
<1> QED
    BY <1>1, <1>2, <1>9, <1>10, <1>12, <1>13, ProceedTallied DEF Underway

\* With no fault the scoring does not throw: it is only called for a repayment
\* that is completed.
LEMMA AwardNeverThrows ==
    ASSUME ~Faults, BookInv, TypeInv, NEW r \in Calls, Tallied(r)
    PROVE  ~awardThrows(r) /\ ~updateFallback(r)
BY DEF awardThrows, updateFallback, Tallied, CallTallies, OnItsRows

\* A repayment booked on a loan, for its owner.
LEMMA RepaymentBooked ==
    ASSUME BookInv, TypeInv, TypeInv', TablesTally, UNCHANGED <<loan, user, history>>,
           NEW t \in Txs \ TxRows, NEW v \in TxRow, tx' = [tx EXCEPT ![t] = v],
           v.loan \in Rows, NEW u \in Users, v.user = u, loan[v.loan].user = u,
           \A w \in Users \ {u} : Agrees(w, user[w])
    PROVE  /\ Rows' = Rows /\ Owned' = Owned /\ t \in TxRows' /\ tx'[t] = v /\ history'[t].rows = 0
           /\ \A w \in Users \ {u} : Agrees(w, user[w])'
           /\ TablesTally'
           /\ Earned'[u] = Earned[u] /\ Booked'[u] = Booked[u] + v.amount
           /\ v.status = "COMPLETED" => Standing' = Standing
           /\ v.status # "COMPLETED" => u \notin Standing'
<1>1. /\ TxRows' = TxRows \union {t} /\ tx'[t] = v /\ \A s \in TxRows : tx'[s] = tx[s]
      /\ Booked'[u] = Booked[u] + v.amount
      /\ v.status = "COMPLETED" => Standing' = Standing
      /\ v.status # "COMPLETED" => u \notin Standing'
      /\ \A w \in Users : Earned'[w] = Earned[w]
      /\ \A w \in Users \ {u} : Booked'[w] = Booked[w] /\ (w \in Standing' <=> w \in Standing)
    <2>1. /\ TxRows' = TxRows \union {t} /\ tx'[t] = v /\ \A s \in TxRows : tx'[s] = tx[s]
          /\ Booked'[v.user] = Booked[v.user] + v.amount
          /\ v.status = "COMPLETED" => Standing' = Standing
          /\ v.status # "COMPLETED" => v.user \notin Standing'
          /\ \A w \in Users : Earned'[w] = Earned[w]
          /\ \A w \in Users \ {v.user} :
                Booked'[w] = Booked[w] /\ (w \in Standing' <=> w \in Standing)
        BY RepaymentAdded, Zenon
    <2> QED
        BY <2>1
<1>2. Rows' = Rows /\ Owned' = Owned
    BY CountsKept
<1>3. history[t].rows = 0
    BY DEF TablesTally
<1>4. \A w \in Users \ {u} : Agrees(w, user[w])'
    BY <1>1, <1>2, StillAgrees
<1>5. TablesTally'
    BY <1>1, <1>2 DEF TablesTally
<1> QED
    BY <1>1, <1>2, <1>3, <1>4, <1>5

LEMMA RepaymentInsertTallied ==
    ASSUME BookInv, NumberInv, TypeInv, TypeInv', NEW r \in Calls, Tallied(r), repaymentInsert(r)
    PROVE  Tallied(r)'
<1> USE DEF InUpdate, AwardPCs
<1>1. pc[r] = "mnoInsert" /\ UNCHANGED <<loan, user, history>>
    BY DEF repaymentInsert
<1>2. PICK u \in Users : Underway(r, u)
    BY <1>1, UnderwayHolds
<1>3. PICK l \in Rows : l = arg[r].l /\ loan[l].user = u /\ row[r].user = u
    BY <1>1, <1>2 DEF Underway, OnItsRows
<1>v. PICK v : v = Repayment(0, arg[r].l, arg[r].u, arg[r].a, "COMPLETED", arg[r].b)
    OBVIOUS
<1>4. PICK t \in Txs \ TxRows :
          /\ tx' = [tx EXCEPT ![t] = v]
          /\ At(r, "saveLoan", "award",
                Arg(arg[r].u, arg[r].l, t, 0, arg[r].a, NoBody), row[r], NoRow)
    BY <1>v DEF repaymentInsert
<1>5. /\ v \in TxRow /\ v.loan = l /\ v.user = u /\ v.status = "COMPLETED" /\ v.amount \in Int
    <2>1. l \in Loans /\ arg[r].a \in Int /\ arg[r].b \in Refs \union {NoRef}
        BY <1>1, TypedParts DEF Rows, ArgTyped, NumberInv, Held
    <2> QED
        BY <1>v, <1>2, <1>3, <2>1 DEF Repayment, TxRow, TransactionStatus, Underway
<1>6. /\ Rows' = Rows /\ Owned' = Owned /\ t \in TxRows' /\ tx'[t] = v /\ history'[t].rows = 0
      /\ TablesTally' /\ \A w \in Users \ {u} : Agrees(w, user[w])'
      /\ Earned'[u] = Earned[u] /\ Booked'[u] = Booked[u] + v.amount /\ Standing' = Standing
    <2>1. /\ v.loan \in Rows /\ loan[v.loan].user = u /\ v.user = u
          /\ TablesTally /\ \A w \in Users \ {u} : Agrees(w, user[w])
        BY <1>2, <1>3, <1>5 DEF Underway
    <2>2. /\ Rows' = Rows /\ Owned' = Owned /\ t \in TxRows' /\ tx'[t] = v /\ history'[t].rows = 0
          /\ \A w \in Users \ {u} : Agrees(w, user[w])'
          /\ TablesTally'
          /\ Earned'[u] = Earned[u] /\ Booked'[u] = Booked[u] + v.amount
          /\ v.status = "COMPLETED" => Standing' = Standing
          /\ v.status # "COMPLETED" => u \notin Standing'
        BY <1>1, <1>4, <1>5, <2>1, RepaymentBooked, Zenon
    <2> QED
        BY <1>5, <2>2
<1>7. /\ pc'[r] = "saveLoan" /\ next'[r] = "award" /\ row'[r] = row[r]
      /\ arg'[r].u = u /\ arg'[r].l = l /\ arg'[r].t = t
    BY <1>2, <1>3, <1>4, AtHolds DEF Arg, Underway
<1>8. OnItsRows(r)'
    BY <1>1, <1>3, <1>5, <1>6, <1>7 DEF OnItsRows
<1>9. /\ Counts(u, user[u])' /\ Scores(u, user[u], 0)' /\ Adds(u, user[u], v.amount)'
    <2>1. Counts(u, user[u]) /\ Scores(u, user[u], 0) /\ Adds(u, user[u], 0)
        BY <1>1, <1>2 DEF Underway, ItsUserTallies, CallSound
    <2>2. user[u].totalRepaid \in Int
        BY TypedParts DEF TablesTyped, UserRow
    <2> QED
        BY <1>1, <1>5, <1>6, <2>1, <2>2 DEF Counts, Scores, Adds
<1>10. ItsUserTallies(r)'
    BY <1>6, <1>7, <1>9 DEF ItsUserTallies, Counts, Scores, Adds
<1> QED
    BY <1>6, <1>7, <1>8, <1>10, OnTallied

LEMMA RepaymentPendingTallied ==
    ASSUME BookInv, NumberInv, TypeInv, TypeInv', NEW r \in Calls, Tallied(r), repaymentPending(r)
    PROVE  Tallied(r)'
<1> USE DEF InUpdate, AwardPCs
<1>1. pc[r] = "txInsert" /\ UNCHANGED <<loan, user, history>>
    BY DEF repaymentPending
<1>2. PICK u \in Users : Underway(r, u)
    BY <1>1, UnderwayHolds
<1>3. PICK l \in Rows : l = arg[r].l /\ loan[l].user = u
    BY <1>1, <1>2 DEF Underway, OnItsRows
<1>4. Counts(u, user[u]) /\ Scores(u, user[u], 0) /\ Adds(u, user[u], 0)
    BY <1>1, <1>2 DEF Underway, ItsUserTallies, CallSound
<1>5. CASE Finish(r) /\ UNCHANGED tx
    <2>1. pc'[r] = "idle"
        BY <1>5, AtHolds DEF Finish
    <2> QED
        BY <1>1, <1>2, <1>4, <1>5, <2>1, EndTallied DEF Agrees, Underway
<1>6. CASE ~(Finish(r) /\ UNCHANGED tx)
    <2>v. PICK v : v = Repayment(arg[r].n, arg[r].l, arg[r].u, arg[r].a, "PENDING", NoRef)
        OBVIOUS
    <2>1. PICK t \in Txs \ TxRows :
              /\ tx' = [tx EXCEPT ![t] = v]
              /\ At(r, "load", "idle",
                    Arg(arg[r].u, arg[r].l, t, 0, arg[r].a, "COMPLETED"), NoRow, NoRow)
        BY <1>6, <2>v DEF repaymentPending
    <2>2. /\ v \in TxRow /\ v.loan = l /\ v.user = u /\ v.status = "PENDING" /\ v.amount = arg[r].a
        <3>1. l \in Loans /\ arg[r].a \in Int /\ arg[r].n \in Nat
            BY TypedParts DEF Rows, ArgTyped
        <3> QED
            BY <2>v, <1>2, <1>3, <3>1 DEF Repayment, TxRow, TransactionStatus, Underway
    <2>3. /\ Rows' = Rows /\ Owned' = Owned /\ t \in TxRows' /\ tx'[t] = v /\ history'[t].rows = 0
          /\ TablesTally' /\ \A w \in Users \ {u} : Agrees(w, user[w])'
          /\ Earned'[u] = Earned[u] /\ u \notin Standing'
        <3>1. /\ v.loan \in Rows /\ loan[v.loan].user = u /\ v.user = u
              /\ TablesTally /\ \A w \in Users \ {u} : Agrees(w, user[w])
            BY <1>2, <1>3, <2>2 DEF Underway
        <3>2. /\ Rows' = Rows /\ Owned' = Owned /\ t \in TxRows' /\ tx'[t] = v /\ history'[t].rows = 0
              /\ \A w \in Users \ {u} : Agrees(w, user[w])'
              /\ TablesTally'
              /\ Earned'[u] = Earned[u] /\ Booked'[u] = Booked[u] + v.amount
              /\ v.status = "COMPLETED" => Standing' = Standing
              /\ v.status # "COMPLETED" => u \notin Standing'
            BY <1>1, <2>1, <2>2, <3>1, RepaymentBooked, Zenon
        <3> QED
            BY <2>2, <3>2
    <2>4. /\ pc'[r] = "load" /\ next'[r] = "idle"
          /\ arg'[r].u = u /\ arg'[r].t = t /\ arg'[r].a = arg[r].a
        BY <1>2, <2>1, AtHolds DEF Arg, Underway
    <2>5. OnItsRows(r)'
        BY <2>2, <2>3, <2>4 DEF OnItsRows
    <2>6. Counts(u, user[u])' /\ Scores(u, user[u], 0)' /\ Adds(u, user[u], 0)'
        BY <1>1, <1>4, <2>3 DEF Counts, Scores, Adds
    <2>7. ItsUserTallies(r)'
        BY <2>4, <2>6 DEF ItsUserTallies
    <2> QED
        BY <2>3, <2>4, <2>5, <2>7, OnTallied
<1> QED
    BY <1>5, <1>6

LEMMA UpdateInsertTallied ==
    ASSUME BookInv, NumberInv, TypeInv, TypeInv', NEW r \in Calls, Tallied(r), updateInsert(r)
    PROVE  Tallied(r)'
<1> USE DEF InUpdate, AwardPCs
<1>1. pc[r] = "updInsert" /\ UNCHANGED <<loan, user, history>>
    BY DEF updateInsert
<1>2. PICK u \in Users : Underway(r, u)
    BY <1>1, UnderwayHolds
<1>3. PICK l \in Rows : l = arg[r].l /\ loan[l].user = u /\ row[r].user = u
    BY <1>1, <1>2 DEF Underway, OnItsRows
<1>4. /\ Counts(u, user[u]) /\ Scores(u, user[u], 0) /\ Adds(u, user[u], 0) /\ next[r] = "idle"
    BY <1>1, <1>2 DEF Underway, ItsUserTallies, CallSound
<1>5. CASE Goto(r, "apply") /\ UNCHANGED tx
    <2>1. /\ pc'[r] = "apply" /\ next'[r] = "idle" /\ arg'[r] = arg[r] /\ row'[r] = row[r]
        BY <1>4, <1>5, AtHolds DEF Goto
    <2>2. \A w \in Users : Agrees(w, user[w])'
        BY <1>1, <1>2, <1>4, <1>5, TablesSame DEF Agrees, Underway
    <2>3. OnItsRows(r)'
        BY <1>1, <1>2, <1>3, <1>5, <2>1, TablesSame DEF OnItsRows, Underway
    <2>4. ItsUserTallies(r)'
        BY <1>2, <2>1, <2>2 DEF ItsUserTallies, Agrees, Underway
    <2> QED
        BY <1>1, <1>2, <1>5, <2>1, <2>3, <2>4, LocalTallied
<1>6. CASE ~(Goto(r, "apply") /\ UNCHANGED tx)
    <2>v. PICK v : v = Repayment(arg[r].n, arg[r].l, arg[r].u, Increase(row[r], arg[r].b),
                              "COMPLETED", NoRef)
        OBVIOUS
    <2>1. PICK t \in Txs \ TxRows :
              /\ tx' = [tx EXCEPT ![t] = v]
              /\ At(r, "award", "reload", Arg(arg[r].u, arg[r].l, t, 0, 0, arg[r].b), row[r], NoRow)
        BY <1>6, <2>v DEF updateInsert
    <2>2. /\ v \in TxRow /\ v.loan = l /\ v.user = u /\ v.status = "COMPLETED" /\ v.amount \in Int
        <3>1. l \in Loans /\ arg[r].n \in Nat
            BY TypedParts DEF Rows, ArgTyped
        <3>2. Increase(row[r], arg[r].b) \in Int
            BY <1>1, <1>2 DEF Underway, CallSound, Increase, Patch
        <3> QED
            BY <2>v, <1>2, <1>3, <3>1, <3>2 DEF Repayment, TxRow, TransactionStatus, Underway
    <2>3. /\ Rows' = Rows /\ Owned' = Owned /\ t \in TxRows' /\ tx'[t] = v /\ history'[t].rows = 0
          /\ TablesTally' /\ \A w \in Users \ {u} : Agrees(w, user[w])'
          /\ Earned'[u] = Earned[u] /\ Booked'[u] = Booked[u] + v.amount /\ Standing' = Standing
        <3>1. /\ v.loan \in Rows /\ loan[v.loan].user = u /\ v.user = u
              /\ TablesTally /\ \A w \in Users \ {u} : Agrees(w, user[w])
            BY <1>2, <1>3, <2>2 DEF Underway
        <3>2. /\ Rows' = Rows /\ Owned' = Owned /\ t \in TxRows' /\ tx'[t] = v /\ history'[t].rows = 0
              /\ \A w \in Users \ {u} : Agrees(w, user[w])'
              /\ TablesTally'
              /\ Earned'[u] = Earned[u] /\ Booked'[u] = Booked[u] + v.amount
              /\ v.status = "COMPLETED" => Standing' = Standing
              /\ v.status # "COMPLETED" => u \notin Standing'
            BY <1>1, <2>1, <2>2, <3>1, RepaymentBooked, Zenon
        <3> QED
            BY <2>2, <3>2
    <2>4. /\ pc'[r] = "award" /\ next'[r] = "reload" /\ row'[r] = row[r]
          /\ arg'[r].u = u /\ arg'[r].l = l /\ arg'[r].t = t
        BY <1>2, <1>3, <2>1, AtHolds DEF Arg, Underway
    <2>5. OnItsRows(r)'
        BY <1>1, <1>3, <2>2, <2>3, <2>4 DEF OnItsRows
    <2>6. /\ Counts(u, user[u])' /\ Scores(u, user[u], 0)' /\ Adds(u, user[u], v.amount)'
        <3>1. user[u].totalRepaid \in Int
            BY TypedParts DEF TablesTyped, UserRow
        <3> QED
            BY <1>1, <1>4, <2>2, <2>3, <3>1 DEF Counts, Scores, Adds
    <2>7. ItsUserTallies(r)'
        BY <2>3, <2>4, <2>6 DEF ItsUserTallies, Counts, Scores, Adds
    <2> QED
        BY <2>3, <2>4, <2>5, <2>7, OnTallied
<1> QED
    BY <1>5, <1>6

LEMMA ReconcilePatchTallied ==
    ASSUME BookInv, NumberInv, TypeInv, TypeInv', NEW r \in Calls, Tallied(r), reconcilePatch(r)
    PROVE  Tallied(r)'
<1> USE DEF InUpdate, AwardPCs
<1>1. pc[r] = "patch" /\ UNCHANGED <<loan, user, history>>
    BY DEF reconcilePatch
<1>2. PICK u \in Users : Underway(r, u)
    BY <1>1, UnderwayHolds
<1>3. PICK t \in TxRows : /\ t = arg[r].t /\ tx[t].user = u /\ arg[r].a = tx[t].amount
                          /\ arg[r].n # 1 => tx[t].status = "COMPLETED"
    BY <1>1, <1>2 DEF Underway, OnItsRows
<1>4. /\ Counts(u, user[u]) /\ Scores(u, user[u], 0) /\ Adds(u, user[u], 0) /\ next[r] = "idle"
    BY <1>1, <1>2 DEF Underway, ItsUserTallies, CallSound
<1>v. PICK v : v = Repayment(tx[t].number, tx[t].loan, tx[t].user, arg[r].a, arg[r].b, tx[t].reference)
    OBVIOUS
<1>5. tx' = [tx EXCEPT ![t] = v]
    BY <1>v, <1>3 DEF reconcilePatch
<1>6. /\ v \in TxRow /\ v.user = u /\ v.user = tx[t].user /\ v.amount = tx[t].amount
      /\ v.loan = tx[t].loan /\ v.status = arg[r].b
    <2>1. tx[t] \in TxRow /\ arg[r].b \in TransactionStatus
        BY <1>1, TypedParts DEF TablesTyped, TxRows, NumberInv, Held
    <2> QED
        BY <1>v, <1>3, <2>1 DEF Repayment, TxRow
<1>7. /\ TxRows' = TxRows /\ tx'[t] = v /\ \A s \in TxRows \ {t} : tx'[s] = tx[s]
      /\ \A w \in Users : Booked'[w] = Booked[w] /\ Earned'[w] = Earned[w]
      /\ \A w \in Users \ {u} : w \in Standing' <=> w \in Standing
      /\ v.status = tx[t].status => Standing' = Standing
      /\ v.status # "COMPLETED" => u \notin Standing'
    BY <1>1, <1>5, <1>6, RepaymentPatched
<1>8. Rows' = Rows /\ Owned' = Owned
    BY <1>1, CountsKept
<1>9. TablesTally'
    BY <1>1, <1>2, <1>6, <1>7, <1>8 DEF TablesTally, Underway
<1>10. \A w \in Users \ {u} : Agrees(w, user[w])'
    BY <1>1, <1>2, <1>7, <1>8, StillAgrees DEF Underway
<1>11. Counts(u, user[u])' /\ Scores(u, user[u], 0)'
    BY <1>1, <1>4, <1>7, <1>8 DEF Counts, Scores
<1>12. CASE arg[r].n = 1
    <2>1. pc'[r] = "reread" /\ next'[r] = "idle" /\ arg'[r] = arg[r]
        BY <1>4, <1>12, AtHolds DEF reconcilePatch, Goto
    <2>2. OnItsRows(r)'
        BY <1>2, <1>3, <1>6, <1>7, <2>1 DEF OnItsRows, Underway
    <2>3. ItsUserTallies(r)'
        BY <1>2, <1>11, <2>1 DEF ItsUserTallies, Counts, Scores, Underway
    <2> QED
        BY <1>2, <1>9, <1>10, <2>1, <2>2, <2>3, OnTallied DEF Underway
<1>13. CASE arg[r].n # 1
    <2>1. pc'[r] = "idle"
        BY <1>13, AtHolds DEF reconcilePatch, Finish
    <2>2. u \in Standing' => u \in Standing
        BY <1>3, <1>7, <1>13
    <2>3. Agrees(u, user[u])'
        BY <1>1, <1>4, <1>7, <1>11, <2>2 DEF Agrees, Adds
    <2> QED
        BY <1>9, <1>10, <2>1, <2>3, OverTallied
<1> QED
    BY <1>12, <1>13

LEMMA StepTallied ==
    ASSUME ~Faults, NoCorrections, BookInv, NumberInv, TypeInv, TypeInv', NEW r \in Calls,
           Tallied(r), Arrive(r) \/ Step(r) \/ Crash(r)
    PROVE  Tallied(r)'
<1>1. CASE Arrive(r)
    BY <1>1, ArriveTallied
<1>2. CASE Crash(r)
    BY <1>2 DEF Crash
<1>3. CASE \/ createNumber(r) \/ countLoans(r) \/ disburseUser(r) \/ repaymentReconcile(r)
           \/ reconcileReread(r) \/ recalculateTotalRepaid(r) \/ updateNumber(r)
           \/ updateReload(r)
    BY <1>3, ReadsTallied
<1>4. CASE \/ createInsert(r) \/ removeDelete(r) \/ saveUser(r) \/ saveLoan(r) \/ updateApply(r)
    BY <1>4, CreateInsertTallied, RemoveDeleteTallied, SaveUserTallied, SaveLoanTallied,
       UpdateApplyTallied
<1>5. CASE award(r) \/ awardLoan(r) \/ awardUser(r) \/ awardHistory(r)
    BY <1>5, AwardTallied, AwardLoanTallied, AwardUserTallied, AwardHistoryTallied
<1>6. CASE repaymentInsert(r) \/ repaymentPending(r) \/ reconcilePatch(r) \/ updateInsert(r)
    BY <1>6, RepaymentInsertTallied, RepaymentPendingTallied, ReconcilePatchTallied,
       UpdateInsertTallied
<1>7. ~awardThrows(r) /\ ~updateFallback(r)
    BY AwardNeverThrows
<1> QED
    BY <1>1, <1>2, <1>3, <1>4, <1>5, <1>6, <1>7 DEF Step

\* At the start nobody has repaid or earned anything, and the live loans are counted.
LEMMA InitTallied == Init => TallyInv
<1> SUFFICES ASSUME Init PROVE TallyInv
    OBVIOUS
<1>1. PICK number \in [Live -> 1..Cardinality(Live)], owner \in [Live -> Users] :
          /\ loan = [l \in Loans |-> IF l \notin Live THEN NoRow ELSE
                [loanId |-> number[l], user |-> owner[l], status |-> "DISBURSED",
                 amount |-> StartAmount, amountDue |-> StartAmount,
                 amountPaid |-> 0, outstandingAmount |-> StartAmount]]
          /\ user = [u \in Users |->
                [creditScore |-> 0, creditLimit |-> StartLimit,
                 totalLoans |-> Cardinality({l \in Live : owner[l] = u}),
                 totalRepaid |-> 0,
                 repaymentStatus |-> "PENDING"]]
    BY DEF Init
<1>2. TypeInv
    BY InitTyped
<1>3. ASSUME NEW u \in Users
      PROVE  Agrees(u, user[u])
    <2>1. LoansOf(u) = {l \in Live : owner[l] = u}
        <3>1. \A l \in Loans : loan[l] \in LoanRow \union {NoRow, Deleted}
            BY <1>2, TypedParts DEF TablesTyped
        <3>2. Rows = Live
            <4>1. \A l \in Live : loan[l].status = "DISBURSED" /\ loan[l] \in LoanRow
                <5>1. \A l \in Live : number[l] \in Nat
                    BY BookAssumption, FS_CardinalityType
                <5> QED
                    BY <1>1, <5>1, BookAssumption DEF LoanRow, LoanStatus
            <4> QED
                BY <1>1, <4>1, BookAssumption DEF Rows
        <3> QED
            BY <1>1, <3>2, BookAssumption DEF LoansOf
    <2>2. Mine(u) = {}
        BY DEF Init, Mine, TxRows
    <2>3. Booked[u] = SumOf(Amount, {}) /\ Earned[u] = SumOf(Point, {})
        BY <1>2, <2>2, SumsByUser DEF SumsOfMine
    <2>4. SumOf(Amount, {}) = 0 /\ SumOf(Point, {}) = 0
        BY FS_EmptySet, SumFacts
    <2>5. /\ user[u].creditScore = 0 /\ user[u].totalRepaid = 0
          /\ user[u].totalLoans = Cardinality(LoansOf(u))
        BY <1>1, <2>1
    <2> QED
        BY <2>3, <2>4, <2>5, BookAssumption DEF Agrees, Counts, Adds, Scores, Capped, Owned
<1>4. Alone /\ TablesTally /\ \A r \in Calls : CallTallies(r)
    BY DEF Init, Alone, TablesTally, TxRows, CallTallies
<1> QED
    BY <1>3, <1>4 DEF TallyInv

\* With no fault, and no reconciliation that corrects an amount, calls that do
\* not overlap keep every total: what the row of a user lacks while a call is
\* under way is what the call still has to write.
THEOREM TallyInvariant ==
    ASSUME MaxActive = 1, ~Faults, NoCorrections
    PROVE  Spec => []TallyInv
<1>1. ASSUME BookInv, NumberInv, TypeInv, TypeInv', TallyInv, [Next]_vars
      PROVE  TallyInv'
    <2>1. CASE UNCHANGED vars
        <3>1. UNCHANGED <<loan, tx, user, history>> /\ pc' = pc /\ next' = next /\ arg' = arg
              /\ row' = row /\ usr' = usr /\ credited' = credited
            BY <2>1 DEF vars
        <3>2. TablesTally' /\ \A u \in Users : Agrees(u, user[u]) => Agrees(u, user[u])'
            BY <1>1, <3>1, TablesSame DEF TallyInv
        <3>3. ASSUME NEW r \in Calls
              PROVE  CallTallies(r)'
            <4>1. OnItsRows(r) => OnItsRows(r)'
                BY <1>1, <3>1, TablesSame DEF OnItsRows, InUpdate
            <4>2. pc[r] # "idle" => arg[r].u \in Users
                BY <1>1, TypedParts DEF CopyTyped
            <4>3. pc[r] # "idle" /\ ItsUserTallies(r) => ItsUserTallies(r)'
                BY <1>1, <3>1, <4>2, TablesSame DEF ItsUserTallies, Counts, Adds, Scores
            <4> QED
                BY <1>1, <3>1, <3>2, <4>1, <4>3 DEF TallyInv, CallTallies
        <3> QED
            BY <1>1, <3>1, <3>2, <3>3 DEF TallyInv, Alone, Quiet
    <2>2. CASE Next
        <3>1. PICK r \in Calls : Arrive(r) \/ Step(r) \/ Crash(r)
            BY <2>2 DEF Next
        <3>2. /\ Alone' /\ \A s \in Calls \ {r} : pc[s] = "idle" /\ pc'[s] = "idle"
            BY <1>1, <3>1, OneMoves DEF TallyInv
        <3>3. Tallied(r)
            BY <1>1, <3>2 DEF Tallied, TallyInv, Quiet
        <3>4. Tallied(r)'
            BY <1>1, <3>1, <3>3, StepTallied
        <3>5. \A s \in Calls \ {r} : CallTallies(s)'
            BY <3>2 DEF CallTallies
        <3> QED
            BY <3>2, <3>4, <3>5 DEF Tallied, TallyInv, Quiet
    <2> QED
        BY <1>1, <2>1, <2>2
<1> QED
    BY <1>1, InitTallied, BookInvariant, NumberInvariant, TypeInvariant, PTL DEF Spec

\* totalLoans and totalRepaid agree with the loans and the repayments there are.
THEOREM TotalsKept ==
    ASSUME MaxActive = 1, ~Faults, NoCorrections
    PROVE  Spec => []TotalsAgree
<1>1. TallyInv /\ TypeInv => TotalsAgree
    <2> SUFFICES ASSUME TallyInv, TypeInv, Quiet, NEW u \in Users
                 PROVE  /\ user[u].totalLoans = Cardinality(LoansOf(u))
                        /\ Completed(Mine(u)) = Mine(u) => user[u].totalRepaid = AmountOf(Mine(u))
        BY DEF TotalsAgree, Mine
    <2>1. Agrees(u, user[u])
        BY DEF TallyInv
    <2>2. user[u].totalLoans = Cardinality(LoansOf(u))
        BY <2>1 DEF Agrees, Counts, Owned
    <2>3. u \in Standing => user[u].totalRepaid + 0 = Booked[u]
        BY <2>1 DEF Agrees, Adds
    <2>4. Completed(Mine(u)) = Mine(u) => user[u].totalRepaid + 0 = AmountOf(Mine(u))
        BY <2>3 DEF Standing, Booked
    <2>5. user[u].totalRepaid \in Int
        BY TypedParts DEF TablesTyped, UserRow
    <2> QED
        BY <2>2, <2>4, <2>5
<1> QED
    BY <1>1, TallyInvariant, TypeInvariant, PTL

\* The credit score is the points of the history, up to the maximum.
THEOREM ScoreKept ==
    ASSUME MaxActive = 1, ~Faults, NoCorrections
    PROVE  Spec => []ScoreExplained
<1>1. TallyInv /\ TypeInv => ScoreExplained
    <2> SUFFICES ASSUME TallyInv, TypeInv PROVE ScoreExplained
        OBVIOUS
    <2>1. \A t \in Txs : history[t].rows <= 1
        BY DEF TallyInv, TablesTally
    <2>2. ASSUME Quiet, NEW u \in Users
          PROVE  LET earned == MapThenSumSet(LAMBDA t : history[t].points,
                                             {t \in TxRows : tx[t].user = u})
                 IN  user[u].creditScore = IF earned > MaxScore THEN MaxScore ELSE earned
        <3>1. Scores(u, user[u], 0) /\ Earned[u] \in Int
            BY <2>2, SumsByUser DEF TallyInv, Agrees, SumsOfMine
        <3>2. user[u].creditScore = Capped(Earned[u])
            BY <3>1, CappedTwice DEF Scores
        <3>3. Earned[u] = MapThenSumSet(LAMBDA t : history[t].points,
                                        {t \in TxRows : tx[t].user = u})
            BY DEF Earned, Mine
        <3> QED
            BY <3>2, <3>3 DEF Capped
    <2> QED
        BY <2>1, <2>2 DEF ScoreExplained
<1> QED
    BY <1>1, TallyInvariant, TypeInvariant, PTL

-----------------------------------------------------------------------------
\* Scoring: the limit a subscriber of the partner is given.  The score is a
\* quotient of products, so that its bounds and its order are lemmas about
\* division and about each stage of scoreV3; the invariant only says that what
\* is scored, and what it is scored with, is what those lemmas ask for.

\* Integer division.
LEMMA DivFacts ==
    ASSUME NEW x \in Int, NEW y \in Int, NEW d \in Nat \ {0}
    PROVE  /\ x \div d \in Int
           /\ x >= 0 => x \div d >= 0
           /\ x <= y => x \div d <= y \div d
           /\ x >= 0 => x \div d <= x
OBVIOUS

\* A product of natural numbers grows with each factor.
LEMMA TimesGrows ==
    ASSUME NEW x \in Nat, NEW y \in Nat, NEW z \in Nat, x <= y
    PROVE  x * z \in Nat /\ y * z \in Nat /\ x * z <= y * z
<1>1. PICK n \in Nat : y = x + n
    <2>1. y - x \in Nat /\ y = x + (y - x)
        OBVIOUS
    <2> QED
        BY <2>1
<1>2. y * z = x * z + n * z
    BY <1>1
<1> QED
    BY <1>2

\* A share of x, by a ratio of at most 1, is at most x.
LEMMA DivPart ==
    ASSUME NEW x \in Nat, NEW a \in Nat, NEW d \in Nat \ {0}, a <= d
    PROVE  (x * a) \div d <= x
<1>1. x * a <= x * d
    BY TimesGrows
<1>2. (x * d) \div d = x
    OBVIOUS
<1>3. x * a \in Int /\ x * d \in Int
    OBVIOUS
<1> QED
    BY <1>1, <1>2, <1>3, DivFacts

\* The same with the factor in front.
LEMMA TimesLess ==
    ASSUME NEW x \in Nat, NEW y \in Nat, NEW z \in Nat, x <= y
    PROVE  z * x \in Nat /\ z * y \in Nat /\ z * x <= z * y
<1>1. z * x = x * z /\ z * y = y * z
    OBVIOUS
<1> QED
    BY <1>1, TimesGrows

\* What scoreV3 scores: a feature row with the live counters merged in.
Subject ==
    [blacklisted : BOOLEAN, outstanding : Int, uncured : BOOLEAN, days : Nat,
     recharges : Nat, taken : Nat, recovered : Nat, curedRecent : Nat,
     curedLifetime : Nat, disbursed : Nat, checks : Nat]

\* The saturated ratios of a subject are ratios.
Rated(f, c) ==
    /\ Tanh((1000 * f.days) \div c.tenureSatDays) \in Ratio
    /\ Tanh((1000 * f.recharges) \div c.engagementSat) \in Ratio

\* A multiplier between its minimum and 1.
Multiplier(min, x) == min + ((1000 - min) * x) \div 1000

\* It is a natural number.
LEMMA MultiplierTyped ==
    ASSUME NEW min \in Ratio, NEW x \in Ratio
    PROVE  Multiplier(min, x) \in Nat
<1>1. 1000 - min \in Nat /\ x \in Nat
    BY DEF Ratio
<1>2. (1000 - min) * x \in Nat
    BY <1>1, TimesGrows
<1>3. ((1000 - min) * x) \div 1000 \in Int /\ ((1000 - min) * x) \div 1000 >= 0
    BY <1>2, DivFacts
<1> QED
    BY <1>3 DEF Multiplier, Ratio

\* Both multipliers are natural numbers.
LEMMA MultTyped ==
    ASSUME NEW f \in Subject, NEW c, Usable(c), Rated(f, c)
    PROVE  tenureMult(f, c) \in Nat /\ engagementMult(f, c) \in Nat
<1>1. tenureMult(f, c) =
        Multiplier(c.tenureMultMin, Tanh((1000 * f.days) \div c.tenureSatDays))
    BY Zenon DEF tenureMult, Multiplier
<1>2. engagementMult(f, c) =
        Multiplier(c.engagementMultMin, Tanh((1000 * f.recharges) \div c.engagementSat))
    BY Zenon DEF engagementMult, Multiplier
<1>3. /\ c.tenureMultMin \in Ratio /\ c.engagementMultMin \in Ratio
    BY DEF Usable
<1>4. /\ Tanh((1000 * f.days) \div c.tenureSatDays) \in Ratio
      /\ Tanh((1000 * f.recharges) \div c.engagementSat) \in Ratio
    BY Zenon DEF Rated
<1> QED
    BY <1>1, <1>2, <1>3, <1>4, MultiplierTyped

\* And so is the smaller of them.
LEMMA StabilityTyped ==
    ASSUME NEW f \in Subject, NEW c, Usable(c), Rated(f, c)
    PROVE  Least(tenureMult(f, c), engagementMult(f, c)) \in Nat
BY MultTyped DEF Least

\* The lesser and the greater of two numbers.
LEMMA LeastFacts ==
    ASSUME NEW a \in Int, NEW b \in Int
    PROVE  /\ Least(a, b) \in {a, b} /\ Least(a, b) <= a /\ Least(a, b) <= b
           /\ Greatest(a, b) \in {a, b} /\ Greatest(a, b) >= a /\ Greatest(a, b) >= b
BY DEF Least, Greatest

\* Rounding keeps the order.
LEMMA RoundedFacts ==
    ASSUME NEW n \in Nat, NEW m \in Nat, n <= m, NEW d \in Nat \ {0}
    PROVE  /\ RoundedQuotient(n, d) \in Nat /\ RoundedQuotient(m, d) \in Nat
           /\ RoundedQuotient(n, d) <= RoundedQuotient(m, d)
<1>1. 2 * n + d \in Nat /\ 2 * m + d \in Nat /\ 2 * d \in Nat \ {0} /\ 2 * n + d <= 2 * m + d
    OBVIOUS
<1> QED
    BY <1>1, DivFacts DEF RoundedQuotient

\* What the evidence is a quotient of.
Numerator(f, c) ==
    (c.evidenceMax * (f.recovered + c.priorAlpha) * f.taken)
    * Least(tenureMult(f, c), engagementMult(f, c))
Denominator(f, c) ==
    ((f.taken + c.priorAlpha + c.priorBeta) * (f.taken + c.confidencePseudoN)) * 1000

\* The quotient can be taken.
LEMMA PartsOfEvidence ==
    ASSUME NEW f \in Subject, NEW c, Usable(c), Rated(f, c)
    PROVE  Numerator(f, c) \in Nat /\ Denominator(f, c) \in Nat \ {0}
<1> DEFINE s == Least(tenureMult(f, c), engagementMult(f, c))
<1>s. s \in Nat /\ Numerator(f, c) = (c.evidenceMax * (f.recovered + c.priorAlpha) * f.taken) * s
    BY StabilityTyped DEF Numerator
<1> HIDE DEF s
<1>1. c.evidenceMax \in Nat /\ f.recovered + c.priorAlpha \in Nat /\ f.taken \in Nat
    BY DEF Subject, Usable
<1>2. c.evidenceMax * (f.recovered + c.priorAlpha) \in Nat
    BY <1>1, TimesGrows
<1>3. (c.evidenceMax * (f.recovered + c.priorAlpha)) * f.taken \in Nat
    BY <1>1, <1>2, TimesGrows
<1>4. Numerator(f, c) \in Nat
    BY <1>s, <1>1, <1>3, TimesGrows
<1> DEFINE a == f.taken + c.priorAlpha + c.priorBeta
           b == f.taken + c.confidencePseudoN
<1>5. a \in Nat /\ b \in Nat /\ 1 <= a /\ 1 <= b
    BY DEF Subject, Usable
<1>6. Denominator(f, c) = (a * b) * 1000
    BY DEF Denominator
<1> HIDE DEF a, b
<1>7. a * b \in Nat /\ 1 * b <= a * b
    BY <1>5, TimesGrows
<1> QED
    BY <1>4, <1>5, <1>6, <1>7

\* g is a record at least as good as f: what a subject cannot improve is the
\* same, and nothing else is worse.
Better(g, f) ==
    /\ g.blacklisted = f.blacklisted /\ g.uncured = f.uncured /\ g.days = f.days
    /\ g.recharges = f.recharges /\ g.taken = f.taken
    /\ f.outstanding <= 0 => g.outstanding <= 0
    /\ f.recovered <= g.recovered /\ (f.recovered = f.taken => g.recovered = g.taken)
    /\ g.curedRecent <= f.curedRecent /\ g.curedLifetime <= f.curedLifetime
    /\ g.disbursed <= f.disbursed /\ g.checks <= f.checks

\* Multipliers and floors do not depend on what is improved.
LEMMA BetterSame ==
    ASSUME NEW f, NEW g, Better(g, f), NEW c
    PROVE  /\ tenureMult(g, c) = tenureMult(f, c)
           /\ engagementMult(g, c) = engagementMult(f, c)
           /\ Engaged(g, c) <=> Engaged(f, c)
           /\ Denominator(g, c) = Denominator(f, c)
           /\ effectiveThreshold(g, c) = effectiveThreshold(f, c)
<1>1. tenureMult(g, c) = tenureMult(f, c)
    BY DEF Better, tenureMult
<1>2. engagementMult(g, c) = engagementMult(f, c)
    BY DEF Better, engagementMult
<1>3. Engaged(g, c) <=> Engaged(f, c)
    BY <1>2 DEF Better, Engaged
<1>4. Denominator(g, c) = Denominator(f, c)
    BY DEF Better, Denominator
<1>5. effectiveThreshold(g, c) = effectiveThreshold(f, c)
    BY DEF Better, effectiveThreshold
<1> QED
    BY <1>1, <1>2, <1>3, <1>4, <1>5

\* More of what was taken recovered is more evidence.
LEMMA NumeratorGrows ==
    ASSUME NEW f \in Subject, NEW g \in Subject, Better(g, f), NEW c, Usable(c), Rated(f, c)
    PROVE  Numerator(f, c) <= Numerator(g, c)
<1> DEFINE s == Least(tenureMult(f, c), engagementMult(f, c))
           x == f.recovered + c.priorAlpha
           y == g.recovered + c.priorAlpha
           e == c.evidenceMax
           n == f.taken
<1>0. s \in Nat
    BY StabilityTyped
<1>1. x \in Nat /\ y \in Nat /\ x <= y /\ e \in Nat /\ n \in Nat
    BY DEF Subject, Better, Usable
<1>2. Numerator(f, c) = (e * x * n) * s
    BY DEF Numerator
<1>3. Numerator(g, c) = (e * y * n) * s
    <2>1. /\ tenureMult(g, c) = tenureMult(f, c) /\ engagementMult(g, c) = engagementMult(f, c)
          /\ g.taken = f.taken
        BY BetterSame DEF Better
    <2> QED
        BY <2>1, Zenon DEF Numerator
<1> HIDE DEF s, x, y, e, n
<1>4. e * x = x * e /\ e * y = y * e
    BY <1>1
<1>5. e * x \in Nat /\ e * y \in Nat /\ e * x <= e * y
    BY <1>1, <1>4, TimesGrows
<1>6. e * x * n \in Nat /\ e * y * n \in Nat /\ e * x * n <= e * y * n
    BY <1>1, <1>5, TimesGrows
<1> QED
    BY <1>0, <1>2, <1>3, <1>6, TimesGrows

\* The evidence is a natural number, with and without history.
LEMMA EvidenceTyped ==
    ASSUME NEW f \in Subject, NEW c, Usable(c), Rated(f, c)
    PROVE  evidence(f, c) \in Nat
<1>1. RoundedQuotient(Numerator(f, c), Denominator(f, c)) \in Nat
    BY PartsOfEvidence, RoundedFacts
<1>2. RoundedQuotient(c.coldStartBase * engagementMult(f, c), 1000) \in Nat
    <2>1. c.coldStartBase \in Nat /\ engagementMult(f, c) \in Nat
        BY MultTyped DEF Usable
    <2>2. c.coldStartBase * engagementMult(f, c) \in Nat
        BY <2>1, TimesGrows
    <2> QED
        BY <2>2, RoundedFacts
<1> QED
    BY <1>1, <1>2 DEF evidence, Numerator, Denominator

\* A better record is no less evidence.
LEMMA EvidenceGrows ==
    ASSUME NEW f \in Subject, NEW g \in Subject, Better(g, f), NEW c, Usable(c),
           Rated(f, c), Rated(g, c)
    PROVE  evidence(f, c) <= evidence(g, c)
<1>1. CASE f.taken = 0 /\ Engaged(f, c)
    <2>1. g.taken = 0 /\ Engaged(g, c)
        BY <1>1, BetterSame DEF Better
    <2>2. evidence(g, c) = evidence(f, c)
        BY <1>1, <2>1, BetterSame DEF evidence
    <2>3. evidence(f, c) \in Nat
        BY EvidenceTyped
    <2> QED
        BY <2>2, <2>3
<1>2. CASE ~(f.taken = 0 /\ Engaged(f, c))
    <2>1. ~(g.taken = 0 /\ Engaged(g, c))
        BY <1>2, BetterSame DEF Better
    <2>2. evidence(f, c) = RoundedQuotient(Numerator(f, c), Denominator(f, c))
        BY <1>2 DEF evidence, Numerator, Denominator
    <2>3. evidence(g, c) = RoundedQuotient(Numerator(g, c), Denominator(f, c))
        BY <2>1, BetterSame DEF evidence, Numerator, Denominator
    <2>4. /\ Numerator(f, c) \in Nat /\ Numerator(g, c) \in Nat /\ Denominator(f, c) \in Nat \ {0}
          /\ Numerator(f, c) <= Numerator(g, c)
        BY PartsOfEvidence, NumeratorGrows
    <2> QED
        BY <2>2, <2>3, <2>4, RoundedFacts
<1> QED
    BY <1>1, <1>2

\* The penalties: fewer cured defaults and fewer checks, less of them.
LEMMA PenaltyShrinks ==
    ASSUME NEW f \in Subject, NEW g \in Subject, NEW c, Usable(c),
           g.curedRecent <= f.curedRecent, g.curedLifetime <= f.curedLifetime,
           g.checks <= f.checks
    PROVE  penalty(f, c) \in Int /\ penalty(g, c) \in Int /\ penalty(g, c) <= penalty(f, c)
<1> DEFINE over(h) == Greatest(0, h.checks - c.velocityThreshold)
           recent(h) == c.penaltyCuredRecent * h.curedRecent
           lifetime(h) == c.penaltyCuredLifetime * h.curedLifetime
           velocity(h) == c.penaltyVelocity * over(h)
<1>1. over(f) \in Nat /\ over(g) \in Nat /\ over(g) <= over(f)
    BY DEF Subject, Greatest, Usable
<1>2. recent(f) \in Nat /\ recent(g) \in Nat /\ recent(g) <= recent(f)
    BY TimesLess DEF Subject, Usable
<1>3. lifetime(f) \in Nat /\ lifetime(g) \in Nat /\ lifetime(g) <= lifetime(f)
    BY TimesLess DEF Subject, Usable
<1> HIDE DEF over
<1>4. velocity(f) \in Nat /\ velocity(g) \in Nat /\ velocity(g) <= velocity(f)
    BY <1>1, TimesLess DEF Usable
<1>5. c.penaltyCuredLifetimeCap \in Nat
    BY DEF Usable
<1>6. \A h : penalty(h, c) = recent(h) + Least(c.penaltyCuredLifetimeCap, lifetime(h)) + velocity(h)
    BY Zenon DEF penalty, over
<1> HIDE DEF recent, lifetime, velocity
<1> QED
    BY <1>2, <1>3, <1>4, <1>5, <1>6 DEF Least

\* The score is a ratio, and grows with a better record.
LEMMA ScoreGrows ==
    ASSUME NEW f \in Subject, NEW g \in Subject, Better(g, f), NEW c, Usable(c),
           Rated(f, c), Rated(g, c)
    PROVE  /\ stage2Score(f, c) \in Ratio /\ stage2Score(g, c) \in Ratio
           /\ stage2Score(f, c) <= stage2Score(g, c)
<1>1. /\ evidence(f, c) \in Nat /\ evidence(g, c) \in Nat
      /\ evidence(f, c) <= evidence(g, c)
    BY EvidenceTyped, EvidenceGrows
<1>2. penalty(f, c) \in Int /\ penalty(g, c) \in Int /\ penalty(g, c) <= penalty(f, c)
    BY PenaltyShrinks DEF Better
<1> QED
    BY <1>1, <1>2 DEF stage2Score, Ratio, Least, Greatest

\* In particular, the score is a ratio.
LEMMA ScoreTyped ==
    ASSUME NEW f \in Subject, NEW c, Usable(c), Rated(f, c)
    PROVE  stage2Score(f, c) \in Ratio
<1>1. Better(f, f)
    BY DEF Better, Subject
<1> QED
    BY <1>1, ScoreGrows

\* The sliding threshold is an integer: it may fall below 0.
LEMMA ThresholdTyped ==
    ASSUME NEW f \in Subject, NEW c, Usable(c)
    PROVE  effectiveThreshold(f, c) \in Int
<1> DEFINE left == Greatest(0, c.thinFileSaturation - f.taken)
           sat == c.thinFileSaturation
<1>1. left \in Int /\ sat \in Nat \ {0} /\ 1 <= sat
    BY LeastFacts DEF Subject, Usable
<1>2. c.thinFileMaxBonus \in Int /\ c.baseThreshold \in Int
    BY DEF Usable
<1>3. effectiveThreshold(f, c) =
        1000 * c.baseThreshold - (1000 * c.thinFileMaxBonus * left * left) \div (sat * sat)
    BY Zenon DEF effectiveThreshold
<1> HIDE DEF left, sat
<1>4. sat * sat \in Nat /\ 1 * sat <= sat * sat
    BY <1>1, TimesGrows
<1>5. 1000 * c.thinFileMaxBonus * left * left \in Int
    BY <1>1, <1>2
<1>6. (1000 * c.thinFileMaxBonus * left * left) \div (sat * sat) \in Int
    BY <1>1, <1>4, <1>5, DivFacts
<1> QED
    BY <1>2, <1>3, <1>6

\* The bonus is not negative; having all of it repaid earns it.
LEMMA BonusTyped ==
    ASSUME NEW f \in Subject, NEW c, Usable(c)
    PROVE  continuityBonus(f, c) \in Nat
<1> DEFINE w == c.continuityBonusLoanWindow
           n == w - (f.taken - 1)
<1>1. CASE f.taken \in 1 .. w
    <2>1. w \in Nat \ {0} /\ n \in Nat /\ c.continuityBonusMaxNaira \in Nat
        BY <1>1 DEF Subject, Usable
    <2>2. continuityBonus(f, c) \in {(1000 * c.continuityBonusMaxNaira * n) \div w, 0}
        BY DEF continuityBonus
    <2> HIDE DEF w, n
    <2>3. 1000 * c.continuityBonusMaxNaira \in Nat
        BY <2>1
    <2>4. (1000 * c.continuityBonusMaxNaira) * n \in Nat
        BY <2>1, <2>3, TimesGrows
    <2>5. (1000 * c.continuityBonusMaxNaira * n) \div w \in Nat
        BY <2>1, <2>4, DivFacts
    <2> QED
        BY <2>2, <2>5
<1>2. CASE ~(f.taken \in 1 .. w)
    BY <1>2 DEF continuityBonus
<1> QED
    BY <1>1, <1>2

\* A better record earns no smaller bonus.
LEMMA BonusGrows ==
    ASSUME NEW f \in Subject, NEW g \in Subject, Better(g, f), NEW c, Usable(c)
    PROVE  continuityBonus(f, c) <= continuityBonus(g, c)
<1>1. continuityBonus(f, c) \in Nat /\ continuityBonus(g, c) \in Nat
    BY BonusTyped
<1>2. CASE f.recovered = f.taken
    <2>1. g.recovered = g.taken /\ g.taken = f.taken /\ f.recovered = f.taken
        BY <1>2 DEF Better
    <2>2. continuityBonus(g, c) = continuityBonus(f, c)
        BY <2>1, BetterSame DEF continuityBonus
    <2> QED
        BY <1>1, <2>2
<1>3. CASE f.recovered # f.taken
    <2>1. continuityBonus(f, c) = 0
        BY <1>3 DEF continuityBonus
    <2> QED
        BY <1>1, <2>1
<1> QED
    BY <1>2, <1>3

\* A share of a range is a ratio.
LEMMA ShareTyped ==
    ASSUME NEW x \in Nat, NEW d \in Nat \ {0}, x <= d
    PROVE  (1000 * x) \div d \in Ratio
<1>1. 1000 * x \in Nat /\ 1000 * d \in Nat /\ 1000 * x <= 1000 * d
    OBVIOUS
<1>2. (1000 * d) \div d = 1000
    OBVIOUS
<1>3. /\ (1000 * x) \div d \in Int /\ (1000 * x) \div d >= 0
      /\ (1000 * x) \div d <= (1000 * d) \div d
    BY <1>1, DivFacts
<1> QED
    BY <1>2, <1>3 DEF Ratio

\* The curve is a natural number and does not fall.
LEMMA CurveFacts ==
    ASSUME NEW x \in Ratio, NEW y \in Ratio, x <= y
    PROVE  Curve(x) \in Nat /\ Curve(y) \in Nat /\ Curve(x) <= Curve(y)
<1>1. y \in x .. 1000
    BY DEF Ratio
<1>2. \A i \in Ratio : Curve(i) \in Nat /\ \A j \in i .. 1000 : Curve(i) <= Curve(j)
    BY ScoringAssumption
<1>3. Curve(x) \in Nat /\ Curve(y) \in Nat
    BY <1>2
<1>4. Curve(x) <= Curve(y)
    BY <1>1, <1>2
<1> QED
    BY <1>3, <1>4

\* The base limit is not negative and grows with the score.
LEMMA BaseLimitGrows ==
    ASSUME NEW s \in Ratio, NEW t \in Ratio, s <= t, NEW threshold \in Int,
           NEW type \in Types, NEW c, Usable(c)
    PROVE  /\ stage3BaseLimit(s, threshold, type, c) \in Nat
           /\ stage3BaseLimit(t, threshold, type, c) \in Nat
           /\ stage3BaseLimit(s, threshold, type, c) <= stage3BaseLimit(t, threshold, type, c)
<1> DEFINE span == 1000 * 1000 - threshold
           x(v) == (1000 * (1000 * v - threshold)) \div span
           min == c.smallMin[type]
           width == c.maxLimit[type] - c.smallMin[type]
           limit(v) == 1000 * min + width * Curve(x(v))
           nothing(v) == 1000 * v < threshold \/ span <= 0
<1>1. min \in Nat /\ width \in Nat
    BY DEF Usable
<1>2. \A v : stage3BaseLimit(v, threshold, type, c) = IF nothing(v) THEN 0 ELSE limit(v)
    BY DEF stage3BaseLimit
<1>3. ASSUME NEW v \in Ratio, ~nothing(v)
      PROVE  x(v) \in Ratio
    <2>1. 1000 * v - threshold \in Nat /\ span \in Nat \ {0} /\ 1000 * v - threshold <= span
        BY <1>3 DEF Ratio
    <2> QED
        BY <2>1, ShareTyped
<1>4. ASSUME ~nothing(s), ~nothing(t)
      PROVE  x(s) <= x(t)
    <2>1. /\ 1000 * (1000 * s - threshold) \in Int /\ 1000 * (1000 * t - threshold) \in Int
          /\ 1000 * (1000 * s - threshold) <= 1000 * (1000 * t - threshold)
          /\ span \in Nat \ {0}
        BY <1>4 DEF Ratio
    <2> HIDE DEF span
    <2> QED
        BY <2>1, DivFacts
<1>5. nothing(t) => nothing(s)
    BY DEF Ratio
<1> HIDE DEF nothing, x, min, width, span
<1>6. ASSUME NEW v \in Ratio, ~nothing(v)
      PROVE  limit(v) \in Nat
    <2>1. Curve(x(v)) \in Nat
        <3>1. x(v) \in Ratio
            BY <1>3, <1>6
        <3>2. \A q \in Ratio : q <= q
            BY DEF Ratio
        <3> QED
            BY <3>1, <3>2, CurveFacts
    <2>2. width * Curve(x(v)) \in Nat
        BY <1>1, <2>1, TimesGrows
    <2> QED
        BY <1>1, <2>2
<1>7. ASSUME ~nothing(s), ~nothing(t)
      PROVE  limit(s) <= limit(t)
    <2>1. x(s) \in Ratio /\ x(t) \in Ratio /\ x(s) <= x(t)
        BY <1>3, <1>4, <1>7
    <2>2. Curve(x(s)) \in Nat /\ Curve(x(t)) \in Nat /\ Curve(x(s)) <= Curve(x(t))
        BY <2>1, CurveFacts
    <2>3. /\ width * Curve(x(s)) \in Nat /\ width * Curve(x(t)) \in Nat
          /\ width * Curve(x(s)) <= width * Curve(x(t))
        BY <1>1, <2>2, TimesLess
    <2> QED
        BY <1>1, <2>3
<1> HIDE DEF limit
<1> QED
    BY <1>2, <1>5, <1>6, <1>7

\* What the exposure taper leaves.
Tapered(x, left, range) == Greatest(0, (x * left) \div range)

\* The taper only takes away, and keeps the order.
LEMMA TaperFacts ==
    ASSUME NEW x \in Int, NEW y \in Int, x <= y,
           NEW left \in Nat \ {0}, NEW range \in Nat \ {0}, left <= range
    PROVE  /\ Tapered(x, left, range) \in Nat
           /\ Tapered(x, left, range) <= Greatest(0, x)
           /\ Tapered(x, left, range) <= Tapered(y, left, range)
<1>1. ASSUME NEW z \in Int
      PROVE  (z * left) \div range \in Int
    <2>1. z * left \in Int
        OBVIOUS
    <2> QED
        BY <2>1, DivFacts
<1>2. CASE x < 0
    <2>1. 0 - x \in Nat
        BY <1>2
    <2>2. (0 - x) * left \in Nat
        BY <2>1, TimesGrows
    <2>3. x * left = 0 - (0 - x) * left
        OBVIOUS
    <2>4. x * left \in Int /\ x * left <= 0
        BY <2>2, <2>3
    <2>5. 0 \div range = 0
        OBVIOUS
    <2>6. (x * left) \div range <= 0
        BY <2>4, <2>5, DivFacts
    <2> QED
        BY <1>1, <1>2, <2>6 DEF Tapered, Greatest
<1>3. CASE x >= 0
    <2>1. x \in Nat /\ y \in Nat
        BY <1>3
    <2>2. (x * left) \div range <= x
        BY <2>1, DivPart
    <2>3. x * left \in Nat /\ y * left \in Nat /\ x * left <= y * left
        BY <2>1, TimesGrows
    <2>4. (x * left) \div range <= (y * left) \div range
        BY <2>3, DivFacts
    <2> QED
        BY <1>1, <2>1, <2>2, <2>4 DEF Tapered, Greatest
<1> QED
    BY <1>2, <1>3

\* What stage 4 leaves of a base limit.
LEMMA ClampBounded ==
    ASSUME NEW base \in Nat, NEW f \in Subject, NEW da \in Nat, NEW type \in Types,
           NEW exposed \in Nat, NEW c, Usable(c)
    PROVE  LET limit == stage4Clamps(base, f, da, type, exposed, c)
           IN  /\ limit \in Nat
               /\ limit > 0 => /\ da + limit <= c.partnerCapNaira
                               /\ f.disbursed + limit <= c.dailyUserCapNaira[type]
                               /\ exposed < c.exposureHaltPct
<1> DEFINE room == Least(partnerResidual(da, c), dailyUserRemaining(f, type, c))
           capped == Least(base, 1000 * room)
           left == c.exposureHaltPct - exposed
           range == c.exposureHaltPct - c.exposureTaperStartPct
           tapered == Tapered(capped, left, range)
           limit == stage4Clamps(base, f, da, type, exposed, c)
<1>1. /\ room \in Int /\ room <= c.partnerCapNaira - da
      /\ room <= c.dailyUserCapNaira[type] - f.disbursed
    BY LeastFacts DEF Usable, Subject, partnerResidual, dailyUserRemaining
<1>2. capped \in Int /\ capped <= 1000 * room
    BY <1>1, LeastFacts
<1>3. /\ left \in Int /\ range \in Int
      /\ exposed >= c.exposureTaperStartPct => left <= range
    BY DEF Usable
<1>4. limit = IF left <= 0 THEN 0
              ELSE IF exposed >= c.exposureTaperStartPct THEN tapered \div 1000
              ELSE Greatest(0, capped) \div 1000
    BY DEF stage4Clamps, Tapered
<1>5. left > 0 => exposed < c.exposureHaltPct
    BY DEF Usable
<1> HIDE DEF room, capped, left, range, limit
<1>6. Greatest(0, capped) \in Nat /\ Greatest(0, capped) <= Greatest(0, 1000 * room)
    BY <1>1, <1>2 DEF Greatest
<1>7. ASSUME left > 0, exposed >= c.exposureTaperStartPct
      PROVE  tapered \in Nat /\ tapered <= Greatest(0, capped)
    <2>1. left \in Nat \ {0} /\ range \in Nat \ {0} /\ left <= range
        BY <1>3, <1>7
    <2>2. capped <= capped
        BY <1>2
    <2> QED
        BY <1>2, <2>1, <2>2, TaperFacts
<1> HIDE DEF tapered
<1>8. ASSUME NEW v \in Nat, v <= Greatest(0, capped)
      PROVE  v \div 1000 \in Nat /\ (v \div 1000 > 0 => v \div 1000 <= room)
    <2>1. v \div 1000 \in Int /\ v \div 1000 >= 0
        BY DivFacts
    <2>2. v <= Greatest(0, 1000 * room)
        <3>1. Greatest(0, 1000 * room) \in Int
            BY <1>1 DEF Greatest
        <3> QED
            BY <1>6, <1>8, <3>1
    <2>3. CASE room <= 0
        <3>1. v = 0
            BY <1>1, <2>2, <2>3 DEF Greatest
        <3> QED
            BY <3>1
    <2>4. CASE room > 0
        <3>1. v <= 1000 * room /\ 1000 * room \in Int
            BY <1>1, <2>2, <2>4 DEF Greatest
        <3>2. (1000 * room) \div 1000 = room
            BY <1>1
        <3>3. v \div 1000 <= (1000 * room) \div 1000
            BY <3>1, DivFacts
        <3> QED
            BY <2>1, <3>2, <3>3
    <2> QED
        BY <1>1, <2>3, <2>4
<1>9. limit \in Nat /\ (limit > 0 => limit <= room /\ left > 0)
    <2>1. CASE left <= 0
        BY <1>4, <2>1
    <2>2. CASE left > 0 /\ exposed >= c.exposureTaperStartPct
        <3>1. limit = tapered \div 1000
            BY <1>3, <1>4, <2>2
        <3> QED
            BY <1>7, <1>8, <2>2, <3>1
    <2>3. CASE left > 0 /\ ~(exposed >= c.exposureTaperStartPct)
        <3>1. limit = Greatest(0, capped) \div 1000
            BY <1>3, <1>4, <2>3
        <3> QED
            BY <1>6, <1>8, <2>3, <3>1
    <2> QED
        BY <1>3, <2>1, <2>2, <2>3
<1>10. ASSUME limit > 0
       PROVE  /\ da + limit <= c.partnerCapNaira
              /\ f.disbursed + limit <= c.dailyUserCapNaira[type]
              /\ exposed < c.exposureHaltPct
    BY <1>1, <1>5, <1>9, <1>10 DEF Usable, Subject
<1> QED
    BY <1>9, <1>10 DEF limit

\* It grows with the base limit and with what is left of the day's cap.
LEMMA ClampGrows ==
    ASSUME NEW base \in Nat, NEW more \in Nat, base <= more, NEW f \in Subject,
           NEW g \in Subject, g.disbursed <= f.disbursed, NEW da \in Nat, NEW type \in Types,
           NEW exposed \in Nat, NEW c, Usable(c)
    PROVE  stage4Clamps(base, f, da, type, exposed, c)
             <= stage4Clamps(more, g, da, type, exposed, c)
<1> DEFINE room(h) == Least(partnerResidual(da, c), dailyUserRemaining(h, type, c))
           x == Least(base, 1000 * room(f))
           y == Least(more, 1000 * room(g))
           left == c.exposureHaltPct - exposed
           range == c.exposureHaltPct - c.exposureTaperStartPct
           tapered(v) == Tapered(v, left, range)
           limit(v) == IF left <= 0 THEN 0
                       ELSE IF exposed >= c.exposureTaperStartPct THEN tapered(v) \div 1000
                       ELSE Greatest(0, v) \div 1000
<1>1. room(f) \in Int /\ room(g) \in Int /\ room(f) <= room(g)
    <2> DEFINE p == partnerResidual(da, c)
               q(h) == dailyUserRemaining(h, type, c)
    <2>1. p \in Int /\ q(f) \in Int /\ q(g) \in Int /\ q(f) <= q(g)
        BY DEF Usable, Subject, partnerResidual, dailyUserRemaining
    <2>2. room(f) = Least(p, q(f)) /\ room(g) = Least(p, q(g))
        OBVIOUS
    <2> HIDE DEF room, p, q
    <2> QED
        BY <2>1, <2>2 DEF Least
<1>2. stage4Clamps(base, f, da, type, exposed, c) = limit(x)
    BY DEF stage4Clamps, Tapered
<1>9. stage4Clamps(more, g, da, type, exposed, c) = limit(y)
    BY DEF stage4Clamps, Tapered
<1>3. /\ left \in Int /\ range \in Int
      /\ exposed >= c.exposureTaperStartPct => left <= range
    BY DEF Usable
<1> HIDE DEF room, left, range
<1>4. x \in Int /\ y \in Int /\ x <= y
    BY <1>1 DEF Least
<1> HIDE DEF x, y
<1>5. Greatest(0, x) \div 1000 <= Greatest(0, y) \div 1000
    BY <1>4, DivFacts DEF Greatest
<1>6. ASSUME left > 0, exposed >= c.exposureTaperStartPct
      PROVE  tapered(x) \div 1000 <= tapered(y) \div 1000
    <2>1. left \in Nat \ {0} /\ range \in Nat \ {0} /\ left <= range /\ y <= y
        BY <1>3, <1>4, <1>6
    <2>2. tapered(x) \in Nat /\ tapered(x) <= tapered(y)
        BY <1>4, <2>1, TaperFacts
    <2>3. tapered(y) \in Nat
        BY <1>4, <2>1, TaperFacts
    <2> HIDE DEF tapered
    <2> QED
        BY <2>2, <2>3, DivFacts
<1>7. limit(x) <= limit(y)
    BY <1>3, <1>5, <1>6
<1> QED
    BY <1>2, <1>9, <1>7

\* A better record passes every gate the worse one passes.
LEMMA GatesOpen ==
    ASSUME NEW f \in Subject, NEW g \in Subject, Better(g, f), NEW da, NEW type, NEW c,
           Usable(c), stage1Gates(f, da, type, c) = NoGate
    PROVE  stage1Gates(g, da, type, c) = NoGate
<1>1. /\ ~f.blacklisted /\ f.outstanding <= 0 /\ ~(da >= c.partnerCapNaira) /\ ~f.uncured
      /\ ~(f.checks >= c.velocityExtreme) /\ c.loanTypeEnabled[type]
    BY DEF stage1Gates, NoGate, Subject
<1>2. /\ ~g.blacklisted /\ g.outstanding <= 0 /\ ~g.uncured
      /\ ~(g.checks >= c.velocityExtreme)
    BY <1>1 DEF Better, Subject, Usable
<1> QED
    BY <1>1, <1>2 DEF stage1Gates, NoGate, Subject

\* Every limit is what a stage lets through, and a gate that is shut leaves 0.
LEMMA LimitBounded ==
    ASSUME NEW f \in Subject, NEW da \in Nat, NEW type \in Types, NEW exposed \in Nat,
           NEW c, Usable(c), Rated(f, c)
    PROVE  LET limit == scoreV3(f, da, type, exposed, c).limit
           IN  /\ limit \in Nat
               /\ limit > 0 => /\ stage1Gates(f, da, type, c) = NoGate
                               /\ da + limit <= c.partnerCapNaira
                               /\ f.disbursed + limit <= c.dailyUserCapNaira[type]
                               /\ exposed < c.exposureHaltPct
<1> DEFINE base == stage3BaseLimit(stage2Score(f, c), effectiveThreshold(f, c), type, c)
           bonus == continuityBonus(f, c)
           limit == scoreV3(f, da, type, exposed, c).limit
<1>1. limit = IF stage1Gates(f, da, type, c) # NoGate THEN 0
              ELSE stage4Clamps(base + bonus, f, da, type, exposed, c)
    BY DEF scoreV3
<1>2. base \in Nat
    <2>1. stage2Score(f, c) \in Ratio /\ effectiveThreshold(f, c) \in Int
        BY ScoreTyped, ThresholdTyped
    <2>2. stage2Score(f, c) <= stage2Score(f, c)
        BY <2>1 DEF Ratio
    <2> QED
        BY <2>1, <2>2, BaseLimitGrows
<1>3. base + bonus \in Nat
    BY <1>2, BonusTyped
<1> HIDE DEF base, bonus, limit
<1>4. LET clamped == stage4Clamps(base + bonus, f, da, type, exposed, c)
      IN  /\ clamped \in Nat
          /\ clamped > 0 => /\ da + clamped <= c.partnerCapNaira
                            /\ f.disbursed + clamped <= c.dailyUserCapNaira[type]
                            /\ exposed < c.exposureHaltPct
    BY <1>3, ClampBounded
<1> QED
    BY <1>1, <1>4 DEF limit

\* A better record gets no lower limit.
LEMMA LimitGrows ==
    ASSUME NEW f \in Subject, NEW g \in Subject, Better(g, f), NEW da \in Nat,
           NEW type \in Types, NEW exposed \in Nat, NEW c, Usable(c), Rated(f, c), Rated(g, c)
    PROVE  scoreV3(f, da, type, exposed, c).limit <= scoreV3(g, da, type, exposed, c).limit
<1> DEFINE base(h) == stage3BaseLimit(stage2Score(h, c), effectiveThreshold(f, c), type, c)
           bonus(h) == continuityBonus(h, c)
           limit(h) == scoreV3(h, da, type, exposed, c).limit
<1>1. CASE stage1Gates(f, da, type, c) # NoGate
    <2>1. limit(f) = 0
        BY <1>1 DEF scoreV3
    <2>2. limit(g) \in Nat
        BY LimitBounded
    <2> QED
        BY <2>1, <2>2
<1>2. CASE stage1Gates(f, da, type, c) = NoGate
    <2>1. stage1Gates(g, da, type, c) = NoGate
        BY <1>2, GatesOpen
    <2>2. effectiveThreshold(g, c) = effectiveThreshold(f, c)
        BY BetterSame
    <2>3. limit(f) = stage4Clamps(base(f) + bonus(f), f, da, type, exposed, c)
        BY <1>2 DEF scoreV3
    <2>4. limit(g) = stage4Clamps(base(g) + bonus(g), g, da, type, exposed, c)
        BY <2>1, <2>2 DEF scoreV3
    <2>5. base(f) \in Nat /\ base(g) \in Nat /\ base(f) <= base(g)
        <3>1. /\ stage2Score(f, c) \in Ratio /\ stage2Score(g, c) \in Ratio
              /\ stage2Score(f, c) <= stage2Score(g, c) /\ effectiveThreshold(f, c) \in Int
            BY ScoreGrows, ThresholdTyped
        <3> QED
            BY <3>1, BaseLimitGrows
    <2>6. bonus(f) \in Nat /\ bonus(g) \in Nat /\ bonus(f) <= bonus(g)
        BY BonusTyped, BonusGrows
    <2> HIDE DEF base, bonus, limit
    <2>7. /\ base(f) + bonus(f) \in Nat /\ base(g) + bonus(g) \in Nat
          /\ base(f) + bonus(f) <= base(g) + bonus(g) /\ g.disbursed <= f.disbursed
        BY <2>5, <2>6 DEF Better
    <2>8. limit(f) <= limit(g)
        BY <2>3, <2>4, <2>7, ClampGrows
    <2> QED
        BY <2>8 DEF limit
<1> QED
    BY <1>1, <1>2

\* A sum of natural numbers is one.
LEMMA SumNatural ==
    ASSUME NEW S, IsFiniteSet(S), NEW w, \A x \in S : w[x] \in Nat
    PROVE  SumOf(w, S) \in Nat
<1> DEFINE C == {s \in SUBSET S : SumOf(w, s) \notin Nat}
<1>1. \A s \in SUBSET S : IsFiniteSet(s)
    BY FS_Subset
<1>2. SUFFICES ASSUME C # {} PROVE FALSE
    OBVIOUS
<1>3. PICK s \in C : \A z \in C : Cardinality(s) <= Cardinality(z)
    BY <1>1, <1>2, SmallestSet
<1>4. /\ SumOf(w, s) \in Int /\ (s = {} => SumOf(w, s) = 0)
      /\ \A x \in s : SumOf(w, s) = w[x] + SumOf(w, s \ {x})
    BY <1>1, SumFacts
<1>5. PICK x \in s : TRUE
    BY <1>3, <1>4
<1>6. IsFiniteSet(s \ {x}) /\ Cardinality(s \ {x}) = Cardinality(s) - 1
    BY <1>1, <1>5, FS_RemoveElement
<1>7. Cardinality(s) \in Nat
    BY <1>1, FS_CardinalityType
<1>8. s \ {x} \notin C
    BY <1>3, <1>6, <1>7
<1>9. SumOf(w, s \ {x}) \in Nat
    BY <1>8
<1> QED
    BY <1>4, <1>5, <1>9

\* What a call may be asked with.
Asked ==
    {in \in [f : Subject, da : Das, type : Types, exposure : Nat] :
        \A rows \in DOMAIN Config : Rated(in.f, Config[rows])}

\* A decision is scoreV3 of what was asked.
Decided(d) ==
    /\ d.in \in Asked /\ d.rows \in DOMAIN Config
    /\ d.limit = scoreV3(d.in.f, d.in.da, d.in.type, d.in.exposure, Config[d.rows]).limit

\* What a call holds while it waits and what the loader hands it can be scored
\* with.
ScoringInv ==
    /\ feature \in FeatureRows /\ checks.n \in Nat
    /\ disbursed \in SUBSET DOMAIN Lent /\ exposure \in Nat
    /\ stored \in DOMAIN Config
    /\ loader.cached \in DOMAIN Config \union {Missing}
    /\ loader.rows \in DOMAIN Config \union {Missing}
    /\ call \in [Scorings -> Asked \union {NotWaiting}]
    /\ \A d \in served : Decided(d)

\* Initially nothing waits and nothing has been served.
LEMMA ScoringInitial == ScoringInit => ScoringInv
<1> SUFFICES ASSUME ScoringInit PROVE ScoringInv
    OBVIOUS
<1>1. stored \in DOMAIN Config
    BY DEF ScoringInit, Config
<1> QED
    BY <1>1 DEF ScoringInit, ScoringInv, Loader

\* MapThenSumSet sums the loans of the window.
LEMMA DisbursedIsSum ==
    ASSUME IsFiniteSet(disbursed)
    PROVE  sumDisbursed24hNaira = SumOf(Lent, disbursed)
<1> DEFINE S == disbursed
           Body(g) == [s \in SUBSET S |->
                          IF s = {} THEN 0
                          ELSE LET x == CHOOSE x \in s : TRUE IN Lent[x] + g[s \ {x}]]
<1>1. sumDisbursed24hNaira = (CHOOSE g : g = Body(g))[S]
    BY Zenon DEF sumDisbursed24hNaira, MapThenSumSet, MapThenFoldSet
<1>2. ASSUME NEW g
      PROVE  g = Body(g) <=> Sums(g, Lent, S)
    BY DEF Sums
<1>3. PICK h : Sums(h, Lent, S)
    BY SumsExist
<1> HIDE DEF Body
<1>4. h = Body(h)
    BY <1>2, <1>3
<1>5. (CHOOSE g : g = Body(g)) = Body(CHOOSE g : g = Body(g))
    BY <1>4, Zenon
<1>6. Sums(CHOOSE g : g = Body(g), Lent, S)
    BY <1>2, <1>5
<1>7. Sums(CHOOSE g : Sums(g, Lent, S), Lent, S)
    BY <1>3, Zenon
<1>8. S \in SUBSET (S \intersect S)
    OBVIOUS
<1> QED
    BY <1>1, <1>6, <1>7, <1>8, SumsAgree DEF SumOf

\* What the assumption says of rows and configurations.
LEMMA ScoringConstants ==
    /\ FeatureRows \subseteq FeatureRow /\ Das \subseteq Nat /\ Exposures \subseteq Nat
    /\ \A rows \in DOMAIN Config :
          /\ Usable(Config[rows])
          /\ \A f \in FeatureRows : Rated(f, Config[rows])
<1>1. FeatureRows \subseteq FeatureRow /\ Das \subseteq Nat /\ Exposures \subseteq Nat
    BY ScoringAssumption
<1>2. \A rows \in DOMAIN Config : Usable(Config[rows])
    BY ScoringAssumption
<1>3. ASSUME NEW rows \in DOMAIN Config, NEW f \in FeatureRows
      PROVE  Rated(f, Config[rows])
    BY ScoringAssumption DEF Rated
<1> QED
    BY <1>1, <1>2, <1>3

\* The ratios depend on two columns.
LEMMA RatedSame ==
    ASSUME NEW f, NEW g, g.days = f.days, g.recharges = f.recharges, NEW c, Rated(f, c)
    PROVE  Rated(g, c)
<1>1. Tanh((1000 * g.days) \div c.tenureSatDays) = Tanh((1000 * f.days) \div c.tenureSatDays)
    OBVIOUS
<1>2. Tanh((1000 * g.recharges) \div c.engagementSat)
         = Tanh((1000 * f.recharges) \div c.engagementSat)
    OBVIOUS
<1> QED
    BY <1>1, <1>2 DEF Rated

\* What score reads can be scored with.
LEMMA FeaturesAsked ==
    ASSUME ScoringInv, NEW n \in Nat, NEW da \in Das, NEW type \in Types
    PROVE  [f |-> Features(n), da |-> da, type |-> type, exposure |-> exposure] \in Asked
<1>1. sumDisbursed24hNaira \in Nat
    <2>1. IsFiniteSet(DOMAIN Lent) /\ \A l \in DOMAIN Lent : Lent[l] \in Nat
        BY ScoringAssumption, Zenon
    <2>2. disbursed \in SUBSET DOMAIN Lent
        BY Zenon DEF ScoringInv
    <2>3. IsFiniteSet(disbursed) /\ \A l \in disbursed : Lent[l] \in Nat
        BY <2>1, <2>2, FS_Subset
    <2> QED
        BY <2>3, DisbursedIsSum, SumNatural
<1>2. feature \in FeatureRows
    BY Zenon DEF ScoringInv
<1>3. feature \in FeatureRow
    BY <1>2, ScoringConstants, Zenon
<1>4. Features(n) \in Subject
    BY <1>1, <1>3 DEF Features, Subject, FeatureRow
<1>5. Features(n).days = feature.days /\ Features(n).recharges = feature.recharges
    BY DEF Features
<1>6. ASSUME NEW rows \in DOMAIN Config
      PROVE  Rated(Features(n), Config[rows])
    <2>1. Rated(feature, Config[rows])
        BY <1>2, ScoringConstants, Zenon
    <2> QED
        BY <1>5, <2>1, RatedSame
<1>7. exposure \in Nat
    BY Zenon DEF ScoringInv
<1> HIDE DEF Features
<1> QED
    BY <1>4, <1>6, <1>7 DEF Asked

\* Serving every call that waits decides what was asked.
LEMMA ServedDecided ==
    ASSUME ScoringInv, NEW rows \in DOMAIN Config, Serve(rows)
    PROVE  (\A d \in served' : Decided(d)) /\ call' \in [Scorings -> Asked \union {NotWaiting}]
<1>1. ASSUME NEW d \in served'
      PROVE  Decided(d)
    <2>1. PICK c \in Waiting : d = Decision(call[c], rows)
        BY <1>1 DEF Serve
    <2>2. call[c] \in Asked
        BY <2>1 DEF Waiting, ScoringInv
    <2> QED
        BY <2>1, <2>2 DEF Decision, Decided
<1>2. call' \in [Scorings -> Asked \union {NotWaiting}]
    BY DEF Serve
<1> QED
    BY <1>1, <1>2

\* A check, answered at once or left to wait.
LEMMA ScoreKeeps ==
    ASSUME ScoringInv, NEW c \in Scorings, score(c)
    PROVE  ScoringInv'
<1>1. checks.n + 1 \in Nat /\ checks'.n = checks.n + 1
    BY DEF ScoringInv, score
<1>2. PICK da \in Das, type \in Types :
         LET in == [f |-> Features(checks.n + 1), da |-> da, type |-> type,
                    exposure |-> exposure]
         IN  IF loader.cached # Missing /\ loader.age = "fresh"
             THEN served' = {Decision(in, loader.cached)} /\ UNCHANGED <<call, loader>>
             ELSE /\ call' = [call EXCEPT ![c] = in] /\ served' = {}
                  /\ loader' = IF loader.reading = Missing
                               THEN Loader(loader.cached, loader.age, loader.age, Missing)
                               ELSE loader
    BY DEF score
<1> DEFINE in == [f |-> Features(checks.n + 1), da |-> da, type |-> type, exposure |-> exposure]
<1>3. in \in Asked
    BY <1>1, FeaturesAsked
<1> HIDE DEF in
<1>4. /\ loader'.cached \in DOMAIN Config \union {Missing}
      /\ loader'.rows \in DOMAIN Config \union {Missing}
    BY <1>2 DEF ScoringInv, Loader
<1>5. CASE loader.cached # Missing /\ loader.age = "fresh"
    <2>1. served' = {Decision(in, loader.cached)} /\ UNCHANGED call
        BY <1>2, <1>5 DEF in
    <2>2. loader.cached \in DOMAIN Config
        BY <1>5 DEF ScoringInv
    <2>3. Decided(Decision(in, loader.cached))
        BY <1>3, <2>2 DEF Decision, Decided
    <2>4. (\A d \in served' : Decided(d)) /\ call' \in [Scorings -> Asked \union {NotWaiting}]
        BY <2>1, <2>3 DEF ScoringInv
    <2> QED
        BY <1>1, <1>4, <2>4 DEF ScoringInv, score
<1>6. CASE ~(loader.cached # Missing /\ loader.age = "fresh")
    <2>1. served' = {} /\ call' = [call EXCEPT ![c] = in]
        BY <1>2, <1>6 DEF in
    <2>2. (\A d \in served' : Decided(d)) /\ call' \in [Scorings -> Asked \union {NotWaiting}]
        BY <1>3, <2>1 DEF ScoringInv
    <2> QED
        BY <1>1, <1>4, <2>2 DEF ScoringInv, score
<1> QED
    BY <1>5, <1>6

\* Every step keeps what is held and handed out scorable.
LEMMA ScoringKept == ScoringInv /\ [ScoringNext]_scoring => ScoringInv'
<1> SUFFICES ASSUME ScoringInv, [ScoringNext]_scoring PROVE ScoringInv'
    OBVIOUS
<1>1. ASSUME NEW c \in Scorings, score(c) PROVE ScoringInv'
    BY <1>1, ScoreKeeps
<1>2. ASSUME refreshed PROVE ScoringInv'
    <2>1. loader.rows \in DOMAIN Config /\ Serve(loader.rows)
        BY <1>2 DEF refreshed, ScoringInv
    <2>2. (\A d \in served' : Decided(d)) /\ call' \in [Scorings -> Asked \union {NotWaiting}]
        BY <2>1, ServedDecided
    <2> QED
        BY <1>2, <2>1, <2>2 DEF refreshed, ScoringInv, Loader
<1>3. ASSUME refreshFails PROVE ScoringInv'
    <2> DEFINE rows == IF loader.cached # Missing /\ loader.reading # "dead"
                       THEN loader.cached ELSE NoRows
    <2>1. rows \in DOMAIN Config /\ Serve(rows)
        BY <1>3 DEF refreshFails, ScoringInv, Config
    <2>2. (\A d \in served' : Decided(d)) /\ call' \in [Scorings -> Asked \union {NotWaiting}]
        BY <2>1, ServedDecided
    <2> QED
        BY <1>3, <2>2 DEF refreshFails, ScoringInv, Loader
<1>4. ASSUME findAll PROVE ScoringInv'
    BY <1>4 DEF findAll, ScoringInv, Loader
<1>5. ASSUME configAges PROVE ScoringInv'
    BY <1>5 DEF configAges, ScoringInv, Loader
<1>6. ASSUME editConfig PROVE ScoringInv'
    BY <1>6 DEF editConfig, ScoringInv, Config
<1>7. ASSUME expireCounter \/ expireLost PROVE ScoringInv'
    BY <1>7 DEF expireCounter, expireLost, ScoringInv
<1>8. ASSUME counterExpires PROVE ScoringInv'
    BY <1>8 DEF counterExpires, ScoringInv
<1>9. ASSUME NEW l \in DOMAIN Lent, recordDisbursement(l) \/ leavesWindow(l) PROVE ScoringInv'
    <2>1. /\ disbursed' \in SUBSET DOMAIN Lent /\ served' = {}
          /\ UNCHANGED <<feature, checks, exposure, stored, loader, call>>
        BY <1>9 DEF recordDisbursement, leavesWindow, ScoringInv
    <2> QED
        BY <2>1 DEF ScoringInv
<1>10. ASSUME publishOnce \/ exposureExpires PROVE ScoringInv'
    <2>1. exposure' \in Exposures \union {0} /\ served' = {}
        BY <1>10 DEF publishOnce, exposureExpires
    <2>2. exposure' \in Nat
        BY <2>1, ScoringConstants
    <2>3. UNCHANGED <<feature, checks, disbursed, stored, loader, call>>
        BY <1>10 DEF publishOnce, exposureExpires
    <2> QED
        BY <2>1, <2>2, <2>3 DEF ScoringInv
<1>11. ASSUME UNCHANGED scoring PROVE ScoringInv'
    BY <1>11 DEF scoring, ScoringInv
<1> QED
    BY <1>1, <1>2, <1>3, <1>4, <1>5, <1>6, <1>7, <1>8, <1>9, <1>10, <1>11 DEF ScoringNext

\* Hence in every state of every behaviour.
LEMMA ScoringInvariant == ScoringSpec => []ScoringInv
    BY ScoringInitial, ScoringKept, PTL DEF ScoringSpec

\* What a decision scored: the parts the lemmas on scoreV3 ask for.
LEMMA DecidedParts ==
    ASSUME NEW d, Decided(d)
    PROVE  /\ d.in.f \in Subject /\ d.in.da \in Nat /\ d.in.type \in Types
           /\ d.in.exposure \in Nat
           /\ Usable(Config[d.rows]) /\ Rated(d.in.f, Config[d.rows])
<1>1. d.in \in [f : Subject, da : Das, type : Types, exposure : Nat]
    BY DEF Decided, Asked
<1>2. Rated(d.in.f, Config[d.rows])
    BY Zenon DEF Decided, Asked
<1>3. Usable(Config[d.rows])
    BY ScoringConstants, Zenon DEF Decided
<1>4. Das \subseteq Nat
    BY ScoringConstants
<1> QED
    BY <1>1, <1>2, <1>3, <1>4

\* No limit goes beyond a gate, a cap or the halt level, whatever the
\* configuration.
THEOREM HeadroomKept == ScoringSpec => []NeverBeyondHeadroom
<1>1. ScoringInv => NeverBeyondHeadroom
    <2> SUFFICES ASSUME ScoringInv, NEW d \in served
                 PROVE  LET in == d.in   c == Config[d.rows]   limit == d.limit
                        IN  /\ limit >= 0
                            /\ limit > 0 =>
                                 /\ ~in.f.blacklisted /\ in.f.outstanding <= 0 /\ ~in.f.uncured
                                 /\ in.f.checks < c.velocityExtreme /\ c.loanTypeEnabled[in.type]
                                 /\ in.da + limit <= c.partnerCapNaira
                                 /\ in.f.disbursed + limit <= c.dailyUserCapNaira[in.type]
                                 /\ in.exposure < c.exposureHaltPct
        BY DEF NeverBeyondHeadroom
    <2> DEFINE f == d.in.f
               da == d.in.da
               type == d.in.type
               c == Config[d.rows]
    <2>1. Decided(d)
        BY DEF ScoringInv
    <2>2. /\ f \in Subject /\ da \in Nat /\ type \in Types /\ d.in.exposure \in Nat
          /\ Usable(c) /\ Rated(f, c)
        BY <2>1, DecidedParts
    <2>3. d.limit = scoreV3(f, da, type, d.in.exposure, c).limit
        BY <2>1 DEF Decided
    <2> HIDE DEF f, da, type, c
    <2>4. /\ d.limit \in Nat
          /\ d.limit > 0 => /\ stage1Gates(f, da, type, c) = NoGate
                            /\ da + d.limit <= c.partnerCapNaira
                            /\ f.disbursed + d.limit <= c.dailyUserCapNaira[type]
                            /\ d.in.exposure < c.exposureHaltPct
        BY <2>2, <2>3, LimitBounded
    <2>5. ASSUME stage1Gates(f, da, type, c) = NoGate
          PROVE  /\ ~f.blacklisted /\ f.outstanding <= 0 /\ ~f.uncured
                 /\ f.checks < c.velocityExtreme /\ c.loanTypeEnabled[type]
        <3>1. /\ ~f.blacklisted /\ f.outstanding <= 0 /\ ~f.uncured
              /\ ~(f.checks >= c.velocityExtreme) /\ c.loanTypeEnabled[type]
            BY <2>2, <2>5 DEF stage1Gates, NoGate, Subject
        <3>2. f.checks < c.velocityExtreme
            BY <2>2, <3>1 DEF Subject, Usable
        <3> QED
            BY <3>1, <3>2
    <2> QED
        BY <2>4, <2>5 DEF f, da, type, c
<1> QED
    BY <1>1, ScoringInvariant, PTL

\* An improvement is a better record, and a subject.
LEMMA ImprovementsBetter ==
    ASSUME NEW f \in Subject, NEW g \in Improvements(f)
    PROVE  g \in Subject /\ Better(g, f)
<1>1. CASE \E n \in f.recovered .. f.taken : g = [f EXCEPT !.recovered = n]
    BY <1>1 DEF Subject, Better
<1>2. CASE \E n \in 0 .. f.checks : g = [f EXCEPT !.checks = n]
    BY <1>2 DEF Subject, Better
<1>3. CASE g \in {[f EXCEPT !.disbursed = 0], [f EXCEPT !.curedRecent = 0]}
    BY <1>3 DEF Subject, Better
<1>4. CASE g \in {[f EXCEPT !.curedLifetime = 0], [f EXCEPT !.outstanding = 0]}
    BY <1>4 DEF Subject, Better
<1> QED
    BY <1>1, <1>2, <1>3, <1>4 DEF Improvements

\* A better record is never answered with a lower limit, whatever the rows, the
\* configuration and the curve.
THEOREM BetterRecordKept == ScoringSpec => []BetterRecordNeverHurts
<1>1. ScoringInv => BetterRecordNeverHurts
    <2> SUFFICES ASSUME ScoringInv, NEW d \in served, NEW g \in Improvements(d.in.f)
                 PROVE  scoreV3(g, d.in.da, d.in.type, d.in.exposure, Config[d.rows]).limit
                          >= d.limit
        BY DEF BetterRecordNeverHurts
    <2> DEFINE f == d.in.f
               c == Config[d.rows]
               limit(h) == scoreV3(h, d.in.da, d.in.type, d.in.exposure, c).limit
    <2>1. Decided(d)
        BY DEF ScoringInv
    <2>2. /\ f \in Subject /\ d.in.da \in Nat /\ d.in.type \in Types /\ d.in.exposure \in Nat
          /\ Usable(c) /\ Rated(f, c)
        BY <2>1, DecidedParts
    <2>3. d.limit = limit(f)
        BY <2>1 DEF Decided
    <2>4. g \in Subject /\ Better(g, f)
        BY <2>2, ImprovementsBetter
    <2>5. Rated(g, c)
        BY <2>2, <2>4, RatedSame DEF Better
    <2> HIDE DEF f, c
    <2>6. limit(f) <= limit(g)
        BY <2>2, <2>4, <2>5, LimitGrows
    <2>7. limit(f) \in Nat /\ limit(g) \in Nat
        BY <2>2, <2>4, <2>5, LimitBounded
    <2> HIDE DEF limit
    <2>8. limit(g) >= d.limit
        BY <2>3, <2>6, <2>7
    <2> QED
        BY <2>8 DEF limit, c
<1> QED
    BY <1>1, ScoringInvariant, PTL
=============================================================================
