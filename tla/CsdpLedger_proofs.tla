------------------------- MODULE CsdpLedger_proofs -------------------------
(***************************************************************************)
(* Proofs about CsdpLedger, for every set of loans, recoveries, workers    *)
(* and deliveries.  BaseInv ties every worker's program counter, job and   *)
(* row locks together; with it, both aggregates move only in COMMIT steps  *)
(* that hold the feature-row lock, so they agree (CountersAlwaysAgree).    *)
(* OnceInv adds what the lock of the loan row keeps true of it; SettledInv *)
(* follows a loan whose webhook was delivered once to its repayment; and   *)
(* KoboInv relates the running total to the loans counted.                 *)
(*                                                                         *)
(* The second part is about Desk, for every set of agents, administrators  *)
(* and slots and every bound.  DeskInv says of the statements that each    *)
(* request has still to send what the rows, the counters and the history   *)
(* must be when they are executed, and of every notice where it is.        *)
(***************************************************************************)
EXTENDS CsdpLedger, Desk, FiniteSetTheorems, TLAPS

\* A bumped counter is a counter.
LEMMA BumpType ==
    ASSUME NEW c \in [Loans -> Nat], NEW S
    PROVE  Bump(c, S) \in [Loans -> Nat]
BY DEF Bump

\* Bumping no loan changes nothing.
LEMMA BumpEmpty ==
    ASSUME NEW c \in [Loans -> Nat]
    PROVE  Bump(c, {}) = c
BY DEF Bump

\* Crediting a set of loans and then one more is crediting both together.
LEMMA BumpOnce ==
    ASSUME NEW c \in [Loans -> Nat], NEW S \in SUBSET Loans, NEW l \in Loans, l \notin S
    PROVE  Bump(Bump(c, S), {l}) = Bump(c, S \cup {l})
BY DEF Bump

\* A worker in a loan step has a loan job; its key is a loan, its MSISDN the owner.
LEMMA LoanJobKey ==
    ASSUME BaseInv, NEW w \in Workers, pc[w] \in LoanSteps \cup {"snapshot"}
    PROVE  /\ job[w] \in LoanJob
           /\ job[w] \in Job
           /\ Key(w) \in Loans
           /\ Msisdn(w) \in Subscribers
           /\ Msisdn(w) = Owner[Key(w)]
<1>1. job[w] \in LoanJob
  BY DEF BaseInv, JobOK
<1>2. Key(w) \in Loans /\ job[w][1] = "loan"
  BY <1>1 DEF LoanJob, Key
<1>3. QED
  BY <1>1, <1>2, ConstantsAssumption DEF Msisdn, Job

\* A worker in a recovery step has a recovery job of its payer.
LEMMA RecoveryJobKey ==
    ASSUME BaseInv, NEW w \in Workers, pc[w] \in RecoverySteps
    PROVE  /\ job[w] \in RecoveryJob
           /\ job[w] \in Job
           /\ Key(w) \in Recoveries
           /\ Msisdn(w) \in Subscribers
           /\ Msisdn(w) = Payer[Key(w)]
<1>1. job[w] \in RecoveryJob
  BY DEF BaseInv, JobOK
<1>2. Key(w) \in Recoveries /\ job[w][1] # "loan"
  BY <1>1 DEF RecoveryJob, Key
<1>3. QED
  BY <1>1, <1>2, ConstantsAssumption DEF Msisdn, Job

\* Worker v's step leaves these alone.
SameLocals(v) ==
    /\ pc'[v] = pc[v] /\ job'[v] = job[v] /\ pos'[v] = pos[v]
    /\ newly'[v] = newly[v] /\ featTx'[v] = featTx[v]

\* What is derived from a worker's locals does not change when they do not.
LEMMA SameKey ==
    ASSUME NEW v, SameLocals(v)
    PROVE  Key(v)' = Key(v) /\ Msisdn(v)' = Msisdn(v) /\ Item(v)' = Item(v)
           /\ Credited(v)' = Credited(v)
BY DEF SameLocals, Key, Msisdn, Item, Credited

\* JobOK of a worker survives steps that leave its locals, job and payload alone.
LEMMA JobFrame ==
    ASSUME NEW v \in Workers, JobOK(v), SameLocals(v),
           pc[v] # "idle" => queue'[job[v]] = queue[job[v]],
           pc[v] \in LoanSteps => payload'[job[v]] = payload[job[v]]
    PROVE  JobOK(v)'
BY SameKey DEF JobOK, SameLocals, LoanSteps

\* CreditOK of a worker survives steps that respect its feature-row lock.
LEMMA CreditFrame ==
    ASSUME NEW v \in Workers, CreditOK(v), SameLocals(v),
           (lockFeat'[Msisdn(v)] = v) <=> (lockFeat[Msisdn(v)] = v),
           lockFeat[Msisdn(v)] = v =>
               /\ feat'[Msisdn(v)].taken = feat[Msisdn(v)].taken
               /\ feat'[Msisdn(v)].recovered = feat[Msisdn(v)].recovered
    PROVE  CreditOK(v)'
BY SameKey DEF CreditOK, SameLocals

\* Loan rows are never deleted.
LoansStay == \A l \in Loans : loan[l].status # "ABSENT" => loan'[l].status # "ABSENT"

\* What a step of worker w on job j does not disturb.
OthersUntouched(w, j) ==
    /\ \A v \in Workers \ {w} :
          /\ SameLocals(v)
          /\ pc[v] # "idle" => job[v] # j
          /\ \A s \in Subscribers : (lockFeat'[s] = v) <=> (lockFeat[s] = v)
          /\ \A s \in Subscribers : lockFeat[s] = v => feat'[s] = feat[s]
    /\ \A i \in Job : i # j => queue'[i] = queue[i]
    /\ payload' = payload
    /\ LoansStay

\* A busy worker's MSISDN is a subscriber.
LEMMA MsisdnType ==
    ASSUME BaseInv, NEW v \in Workers, pc[v] # "idle"
    PROVE  Msisdn(v) \in Subscribers
<1>1. job[v] \in LoanJob \/ job[v] \in RecoveryJob
  BY DEF BaseInv, JobOK, Job
<1>2. QED BY <1>1, ConstantsAssumption DEF Msisdn, Key, LoanJob, RecoveryJob

\* A worker step preserves BaseInv when it does so for the worker itself.
LEMMA WorkerFrame ==
    ASSUME BaseInv, NEW w \in Workers, NEW j, OthersUntouched(w, j),
           TypeOK', JobOK(w)', CreditOK(w)', CommittedOK(w)',
           pc'[w] # "idle" => job'[w] = j,
           \A s \in Subscribers : lockFeat'[s] = w =>
               pc'[w] \in RecoverySteps \cup {"commitLoan"} /\ s = Msisdn(w)'
    PROVE  BaseInv'
<1>1. ASSUME NEW v \in Workers, v # w
      PROVE  JobOK(v)' /\ CreditOK(v)' /\ CommittedOK(v)'
  <2>1. SameLocals(v) /\ (pc[v] # "idle" => job[v] # j)
    BY <1>1 DEF OthersUntouched
  <2>2. JobOK(v)'
    BY <1>1, <2>1, JobFrame DEF OthersUntouched, BaseInv, JobOK
  <2>3. CreditOK(v)'
    <3>1. CASE pc[v] = "idle"
      BY <3>1, <2>1 DEF CreditOK, SameLocals, RecoverySteps
    <3>2. CASE pc[v] # "idle"
      <4>1. Msisdn(v) \in Subscribers
        BY <3>2, MsisdnType
      <4>2. QED BY <1>1, <4>1, <2>1, CreditFrame DEF OthersUntouched, BaseInv
    <3>3. QED BY <3>1, <3>2
  <2>4. CommittedOK(v)'
    BY <1>1, <2>1, SameKey DEF CommittedOK, OthersUntouched, LoansStay, SameLocals, BaseInv,
       Key, LoanJob
  <2>5. QED BY <2>2, <2>3, <2>4
<1>2. OneWorkerPerJob'
  BY DEF OneWorkerPerJob, OthersUntouched, SameLocals, BaseInv
<1>3. FeatLockOK'
  <2>1. SUFFICES ASSUME NEW s \in Subscribers, NEW v \in Workers, lockFeat'[s] = v
                 PROVE  pc'[v] \in RecoverySteps \cup {"commitLoan"} /\ s = Msisdn(v)'
    BY DEF FeatLockOK
  <2>2. CASE v = w
    BY <2>1, <2>2
  <2>3. CASE v # w
    <3>1. lockFeat[s] = v /\ SameLocals(v)
      BY <2>1, <2>3 DEF OthersUntouched
    <3>2. QED BY <3>1, SameKey DEF BaseInv, FeatLockOK, SameLocals
  <2>4. QED BY <2>2, <2>3
<1>4. QED BY <1>1, <1>2, <1>3 DEF BaseInv

\* Releasing w's locks keeps everybody else's.
LEMMA ReleaseType ==
    ASSUME TypeOK, NEW w \in Workers, ReleaseLocks(w)
    PROVE  /\ lockLoan' \in [Loans -> Workers \cup {None}]
           /\ lockSub' \in [Subscribers -> Workers \cup {None}]
           /\ lockFeat' \in [Subscribers -> Workers \cup {None}]
           /\ lockRec' \in [Recoveries -> Workers \cup {None}]
           /\ \A s \in Subscribers : lockFeat'[s] # w
           /\ \A s \in Subscribers, v \in Workers \ {w} :
                 (lockFeat'[s] = v) <=> (lockFeat[s] = v)
BY ConstantsAssumption DEF ReleaseLocks, Freed, TypeOK

\* SELECT ... FOR UPDATE of the loan preserves the base invariant.
LEMMA SelectLoanStep ==
    ASSUME BaseInv, NEW w \in Workers, SelectLoan(w)
    PROVE  BaseInv'
<1>0. Key(w) \in Loans /\ pc[w] = "selectLoan"
  BY LoanJobKey DEF SelectLoan, LoanSteps
<1>1. TypeOK'
  BY <1>0, ConstantsAssumption DEF BaseInv, TypeOK, SelectLoan, Goto, StepUnchanged, dbVars,
     envVars, Step, LoanSteps, LoanRow
<1>2. OthersUntouched(w, job[w])
  BY <1>0 DEF OthersUntouched, BaseInv, TypeOK, SelectLoan, Goto, StepUnchanged, dbVars, envVars,
     OneWorkerPerJob, SameLocals, LoansStay
<1>3. JobOK(w)' /\ CreditOK(w)' /\ CommittedOK(w)'
  BY <1>0 DEF BaseInv, TypeOK, SelectLoan, Goto, StepUnchanged, JobOK, CreditOK, CommittedOK,
     LoanSteps, RecoverySteps, AfterCommit
<1>4. \A s \in Subscribers : lockFeat'[s] # w
  BY <1>0, ConstantsAssumption DEF BaseInv, FeatLockOK, SelectLoan, RecoverySteps
<1>5. QED
  BY <1>0, <1>1, <1>2, <1>3, <1>4, WorkerFrame DEF SelectLoan

\* Taking a job preserves the base invariant.
LEMMA StartStep ==
    ASSUME BaseInv, NEW w \in Workers, NEW j \in Job, Start(w, j)
    PROVE  BaseInv'
<1>0. pc[w] = "idle" /\ queue[j] = "waiting" /\ newly[w] = {}
  BY DEF Start, BaseInv, JobOK
<1>1. TypeOK'
  BY ConstantsAssumption DEF BaseInv, TypeOK, Start, Goto, dbVars, envVars, locks, Step,
     LoanSteps, RecoverySteps
<1>2. OthersUntouched(w, j)
  BY <1>0 DEF OthersUntouched, BaseInv, TypeOK, Start, Goto, dbVars, envVars, locks, JobOK,
     SameLocals, LoansStay
<1>3. \A s \in Subscribers : lockFeat'[s] # w
  BY <1>0 DEF BaseInv, FeatLockOK, Start, RecoverySteps, locks
<1>4. pc'[w] \in {"selectLoan", "insertRecovery"} /\ job'[w] = j /\ newly'[w] = {}
      /\ queue'[j] = "active"
  BY <1>0 DEF Start, Goto, BaseInv, TypeOK
<1>5. JobOK(w)'
  <2>1. pc'[w] = "selectLoan" => j \in LoanJob
    BY <1>4 DEF Start, Goto, Job, LoanJob, RecoveryJob, BaseInv, TypeOK
  <2>2. pc'[w] = "insertRecovery" => j \in RecoveryJob
    BY <1>4 DEF Start, Goto, Job, LoanJob, RecoveryJob, BaseInv, TypeOK
  <2>3. QED BY <1>4, <2>1, <2>2 DEF JobOK, LoanSteps, RecoverySteps
<1>6. CreditOK(w)'
  <2>1. pc'[w] = "insertRecovery" => Msisdn(w)' \in Subscribers
    <3>1. pc'[w] = "insertRecovery" => j \in RecoveryJob
      BY <1>4, <1>5 DEF JobOK, RecoverySteps
    <3>2. QED BY <1>4, <3>1, ConstantsAssumption DEF Msisdn, Key, RecoveryJob
  <2>2. QED BY <1>3, <1>4, <2>1 DEF CreditOK, Credited, RecoverySteps
<1>7. CommittedOK(w)'
  BY <1>4 DEF CommittedOK, AfterCommit
<1>8. QED
  BY <1>1, <1>2, <1>3, <1>4, <1>5, <1>6, <1>7, WorkerFrame

\* The upsert of csdp_loan preserves the base invariant.
LEMMA UpsertLoanStep ==
    ASSUME BaseInv, NEW w \in Workers, UpsertLoan(w)
    PROVE  BaseInv'
<1>0. Key(w) \in Loans /\ pc[w] = "upsertLoan" /\ payload[job[w]].status \in LoanStatus
  BY LoanJobKey DEF UpsertLoan, LoanSteps
<1>1. TypeOK'
  BY <1>0, ConstantsAssumption DEF BaseInv, TypeOK, UpsertLoan, Goto, StepUnchanged, dbVars,
     envVars, Step, LoanSteps, IssuedLoans
<1>2. OthersUntouched(w, job[w])
  BY <1>0 DEF OthersUntouched, BaseInv, TypeOK, UpsertLoan, Goto, StepUnchanged, dbVars, envVars,
     OneWorkerPerJob, SameLocals, LoansStay
<1>3. JobOK(w)' /\ CreditOK(w)' /\ CommittedOK(w)'
  BY <1>0 DEF BaseInv, TypeOK, UpsertLoan, Goto, StepUnchanged, envVars, JobOK, CreditOK,
     CommittedOK, LoanSteps, RecoverySteps, AfterCommit
<1>4. \A s \in Subscribers : lockFeat'[s] # w
  BY <1>0 DEF BaseInv, FeatLockOK, UpsertLoan, RecoverySteps
<1>5. QED
  BY <1>0, <1>1, <1>2, <1>3, <1>4, WorkerFrame DEF UpsertLoan

\* A worker that drops its job: the transaction is rolled back.
LEMMA DropJob ==
    ASSUME BaseInv, NEW w \in Workers, pc[w] # "idle", EndJob(w), ReleaseLocks(w),
           UNCHANGED <<dbVars, envVars, mat>>, faults' \in Nat, attempts' \in [Job -> Nat],
           \E q \in {"waiting", "failed", "done"} : queue' = [queue EXCEPT ![job[w]] = q]
    PROVE  BaseInv'
<1>1. TypeOK'
  <2>1. queue' \in [Job -> {"unsent", "waiting", "active", "done", "failed"}]
    BY DEF BaseInv, TypeOK
  <2>2. ReleaseLocks(w) /\ TypeOK
    BY DEF BaseInv
  <2>3. QED
    BY <2>1, <2>2, ReleaseType DEF TypeOK, EndJob, Goto, dbVars, envVars, Step
<1>2. OthersUntouched(w, job[w])
  BY ReleaseType DEF OthersUntouched, BaseInv, TypeOK, EndJob, Goto, dbVars, envVars,
     OneWorkerPerJob, SameLocals, LoansStay
<1>3. pc'[w] = "idle" /\ newly'[w] = {}
  BY DEF BaseInv, TypeOK, EndJob, Goto
<1>4. JobOK(w)' /\ CreditOK(w)' /\ CommittedOK(w)'
  BY <1>3 DEF JobOK, CreditOK, CommittedOK, LoanSteps, RecoverySteps, AfterCommit
<1>5. \A s \in Subscribers : lockFeat'[s] # w
  BY ReleaseType DEF BaseInv
<1>6. QED
  BY <1>1, <1>2, <1>3, <1>4, <1>5, WorkerFrame

\* A failed attempt preserves the base invariant.
LEMMA FailAttemptStep ==
    ASSUME BaseInv, NEW w \in Workers, pc[w] # "idle", FailAttempt(w), faults' \in Nat
    PROVE  BaseInv'
<1>1. attempts' \in [Job -> Nat]
  BY DEF FailAttempt, BaseInv, TypeOK, JobOK
<1>2. \E q \in {"waiting", "failed", "done"} : queue' = [queue EXCEPT ![job[w]] = q]
  BY DEF FailAttempt
<1>3. QED BY <1>1, <1>2, DropJob DEF FailAttempt

\* Deadlock aborts, statement errors and crashes preserve the base invariant.
LEMMA FailureSteps ==
    ASSUME BaseInv, NEW w \in Workers,
           UpsertLoanRefused(w) \/ DeadlockAbort(w) \/ StatementError(w) \/ WorkerCrash(w)
    PROVE  BaseInv'
<1>1. CASE UpsertLoanRefused(w)
  BY <1>1, FailAttemptStep DEF UpsertLoanRefused, BaseInv, TypeOK
<1>2. CASE DeadlockAbort(w)
  <2>1. pc[w] # "idle"
    <3>1. WaitsFor(w) # None
      BY <1>2, ConstantsAssumption DEF DeadlockAbort
    <3>2. pc[w] = "idle" => WaitsFor(w) = None
      BY DEF WaitsFor, MoreItems
    <3>3. QED BY <3>1, <3>2
  <2>2. QED BY <1>2, <2>1, FailAttemptStep DEF DeadlockAbort, BaseInv, TypeOK
<1>3. CASE StatementError(w)
  BY <1>3, FailAttemptStep DEF StatementError, MayFault, BaseInv, TypeOK
<1>4. CASE WorkerCrash(w)
  <2>1. faults' \in Nat /\ attempts' \in [Job -> Nat]
    BY <1>4 DEF WorkerCrash, MayFault, BaseInv, TypeOK
  <2>2. QED BY <1>4, <2>1, DropJob DEF WorkerCrash, MayFault
<1>5. QED BY <1>1, <1>2, <1>3, <1>4

\* The transaction's view of csdp_loan is well typed and loses no row.
LEMMA ViewType ==
    ASSUME BaseInv, NEW w \in Workers, pc[w] \in LoanSteps \cup RecoverySteps
    PROVE  /\ View(w) \in [Loans -> LoanRow]
           /\ \A l \in Loans : loan[l].status # "ABSENT" => View(w)[l].status # "ABSENT"
           /\ pc[w] \in {"upsertSubscriber", "featureRow", "commitLoan"} =>
                 View(w)[Key(w)].status # "ABSENT"
<1>1. pc[w] \in {"upsertSubscriber", "featureRow", "commitLoan"} =>
         payload[job[w]] \in LoanRow /\ payload[job[w]].status # "ABSENT" /\ Key(w) \in Loans
  <2>1. SUFFICES ASSUME pc[w] \in {"upsertSubscriber", "featureRow", "commitLoan"}
                 PROVE  payload[job[w]] \in LoanRow /\ payload[job[w]].status # "ABSENT"
                        /\ Key(w) \in Loans
    OBVIOUS
  <2>2. job[w] \in LoanJob /\ Key(w) \in Loans
    BY <2>1, LoanJobKey DEF LoanSteps
  <2>3. payload[job[w]].status \in LoanStatus
    BY <2>1 DEF BaseInv, JobOK
  <2>4. QED BY <2>2, <2>3 DEF BaseInv, TypeOK, LoanRow, LoanStatus
<1>2. \A l : PaidRow(Key(w), l) \in LoanRow /\ PaidRow(Key(w), l).status # "ABSENT"
  BY DEF PaidRow, LoanRow, LoanStatus, RecoveredAt
<1>3. \A l \in Loans : View(w)[l] \in LoanRow
  BY <1>1, <1>2 DEF View, BaseInv, TypeOK
<1>4. QED BY <1>1, <1>2, <1>3 DEF View, RecoverySteps

\* The upserts of csdp_subscriber yield well-typed rows.
LEMMA SubscriberRowType ==
    ASSUME NEW row \in SubscriberRow, NEW l, NEW S, NEW sum \in SUBSET Loans
    PROVE  /\ CountTaken(row, l, sum) \in SubscriberRow
           /\ SyncOutstanding(row, sum) \in SubscriberRow
           /\ CountRecovered(row, S, sum) \in SubscriberRow
BY BumpType DEF CountTaken, SyncOutstanding, CountRecovered, SubscriberRow

\* The live writer yields well-typed feature rows.
LEMMA FeatureRowType ==
    ASSUME NEW row \in FeatureRow, NEW l \in Loans, NEW d \in BOOLEAN, NEW rows
    PROVE  /\ onLoanIssued(row, l) \in FeatureRow
           /\ onLoanRecovered(row, l, d, rows) \in FeatureRow
<1>1. Repayable[l] \in Nat /\ row.kobo \in Nat
  BY ConstantsAssumption DEF FeatureRow
<1>2. HasDefault(rows, Owner[l]) \in BOOLEAN
  BY DEF HasDefault
<1>3. onLoanIssued(row, l) \in FeatureRow
  BY <1>1, BumpType DEF onLoanIssued, FeatureRow
<1>4. onLoanRecovered(row, l, d, rows) \in FeatureRow
  <2>1. (IF row.kobo > 100 * Repayable[l] THEN row.kobo - 100 * Repayable[l] ELSE 0) \in Nat
    BY <1>1
  <2>2. (IF d THEN HasDefault(rows, Owner[l]) ELSE row.uncured) \in BOOLEAN
    BY <1>2 DEF FeatureRow
  <2>3. (IF d THEN Bump(row.cured, {l}) ELSE row.cured) \in [Loans -> Nat]
    BY BumpType DEF FeatureRow
  <2>4. QED BY <2>1, <2>2, <2>3, BumpType DEF onLoanRecovered, FeatureRow
<1>5. QED BY <1>3, <1>4

\* The first delivery's subscriber upsert preserves the base invariant.
LEMMA UpsertSubscriberFirstStep ==
    ASSUME BaseInv, NEW w \in Workers, UpsertSubscriberFirst(w)
    PROVE  BaseInv'
<1>0. Msisdn(w) \in Subscribers /\ pc[w] = "upsertSubscriber"
  BY LoanJobKey DEF UpsertSubscriberFirst, LoanSteps
<1>1. TypeOK'
  BY <1>0 DEF BaseInv, TypeOK, UpsertSubscriberFirst, Goto, txData, StepUnchanged, dbVars, envVars,
     Step, LoanSteps
<1>2. OthersUntouched(w, job[w])
  BY <1>0 DEF OthersUntouched, BaseInv, TypeOK, UpsertSubscriberFirst, Goto, txData,
     StepUnchanged, dbVars, envVars, OneWorkerPerJob, SameLocals, LoansStay
<1>3. JobOK(w)' /\ CreditOK(w)' /\ CommittedOK(w)'
  BY <1>0 DEF BaseInv, TypeOK, UpsertSubscriberFirst, Goto, txData, StepUnchanged, envVars, JobOK,
     CreditOK, CommittedOK, LoanSteps, RecoverySteps, AfterCommit
<1>4. \A s \in Subscribers : lockFeat'[s] # w
  BY <1>0 DEF BaseInv, FeatLockOK, UpsertSubscriberFirst, RecoverySteps
<1>5. QED
  BY <1>0, <1>1, <1>2, <1>3, <1>4, WorkerFrame DEF UpsertSubscriberFirst, txData

\* A replay's COMMIT preserves the base invariant.
LEMMA UpsertSubscriberReplayStep ==
    ASSUME BaseInv, NEW w \in Workers, UpsertSubscriberReplay(w)
    PROVE  BaseInv'
<1>0. /\ Msisdn(w) \in Subscribers /\ Key(w) \in Loans /\ job[w] \in LoanJob
      /\ pc[w] = "upsertSubscriber" /\ pc[w] \in LoanSteps \cup RecoverySteps
  BY LoanJobKey DEF UpsertSubscriberReplay, LoanSteps
<1>1. ReleaseLocks(w) /\ TypeOK /\ loan' = View(w) /\ LoansStay
  BY <1>0, ViewType DEF UpsertSubscriberReplay, BaseInv, LoansStay
<1>2. pc' = [pc EXCEPT ![w] = AfterLoanCommit(w)] /\ pc'[w] \in AfterCommit
  BY DEF UpsertSubscriberReplay, Goto, AfterLoanCommit, AfterCommit, BaseInv, TypeOK
<1>3. TypeOK'
  <2>1. sub' \in [Subscribers -> SubscriberRow]
    BY <1>0, SubscriberRowType DEF UpsertSubscriberReplay, BaseInv, TypeOK
  <2>2. loan' \in [Loans -> LoanRow]
    BY <1>0, <1>1, ViewType
  <2>3. QED
    BY <1>1, <1>2, <2>1, <2>2, ReleaseType DEF TypeOK, UpsertSubscriberReplay, txData,
       StepUnchanged, envVars, Step
<1>4. OthersUntouched(w, job[w])
  BY <1>0, <1>1, <1>2, ReleaseType DEF OthersUntouched, BaseInv, UpsertSubscriberReplay, txData,
     StepUnchanged, envVars, OneWorkerPerJob, SameLocals
<1>5. JobOK(w)' /\ CreditOK(w)'
  BY <1>0, <1>2 DEF BaseInv, UpsertSubscriberReplay, txData, StepUnchanged, JobOK, CreditOK,
     LoanSteps, RecoverySteps, AfterCommit
<1>6. CommittedOK(w)'
  BY <1>0, <1>1, ViewType DEF CommittedOK, UpsertSubscriberReplay, txData, Key
<1>7. \A s \in Subscribers : lockFeat'[s] # w
  BY <1>1, ReleaseType
<1>8. QED
  BY <1>3, <1>4, <1>5, <1>6, <1>7, WorkerFrame DEF UpsertSubscriberReplay, txData

\* onLoanIssued and the Redis write preserve the base invariant.
LEMMA FeatureRowIssuedStep ==
    ASSUME BaseInv, NEW w \in Workers, FeatureRowIssued(w)
    PROVE  BaseInv'
<1>0. /\ Msisdn(w) \in Subscribers /\ Key(w) \in Loans /\ job[w] \in LoanJob
      /\ pc[w] = "featureRow" /\ Msisdn(w)' = Msisdn(w)
  BY LoanJobKey DEF FeatureRowIssued, LoanSteps, txData, Msisdn, Key
<1>1. TypeOK'
  BY <1>0 DEF BaseInv, TypeOK, FeatureRowIssued, recordDisbursement, MayFault, Goto, txData, envVars, Step, LoanSteps
<1>2. OthersUntouched(w, job[w])
  BY <1>0, ConstantsAssumption DEF OthersUntouched, BaseInv, TypeOK, FeatureRowIssued, recordDisbursement, Goto, txData,
     envVars, Available, OneWorkerPerJob, SameLocals, LoansStay
<1>3. JobOK(w)' /\ CreditOK(w)' /\ CommittedOK(w)'
  BY <1>0 DEF BaseInv, TypeOK, FeatureRowIssued, recordDisbursement, Goto, txData, envVars, JobOK, CreditOK,
     CommittedOK, LoanSteps, RecoverySteps, AfterCommit
<1>4. \A s \in Subscribers : lockFeat'[s] = w => pc'[w] = "commitLoan" /\ s = Msisdn(w)'
  BY <1>0 DEF BaseInv, TypeOK, FeatLockOK, FeatureRowIssued, recordDisbursement, Goto, RecoverySteps
<1>5. QED
  BY <1>0, <1>1, <1>2, <1>3, <1>4, WorkerFrame DEF FeatureRowIssued, recordDisbursement, txData

\* The COMMIT of a first delivery preserves the base invariant.
LEMMA CommitLoanStep ==
    ASSUME BaseInv, NEW w \in Workers, CommitLoan(w)
    PROVE  BaseInv'
<1>0. /\ Msisdn(w) \in Subscribers /\ Key(w) \in Loans /\ job[w] \in LoanJob
      /\ pc[w] = "commitLoan" /\ pc[w] \in LoanSteps \cup RecoverySteps
      /\ lockFeat[Msisdn(w)] = w
  BY LoanJobKey DEF CommitLoan, LoanSteps, BaseInv, CreditOK
<1>1. ReleaseLocks(w) /\ TypeOK /\ loan' = View(w) /\ LoansStay
  BY <1>0, ViewType DEF CommitLoan, BaseInv, LoansStay
<1>2. pc' = [pc EXCEPT ![w] = AfterLoanCommit(w)] /\ pc'[w] \in AfterCommit
  BY DEF CommitLoan, Goto, AfterLoanCommit, AfterCommit, BaseInv, TypeOK
<1>3. TypeOK'
  <2>1. sub' \in [Subscribers -> SubscriberRow]
    BY <1>0, SubscriberRowType DEF CommitLoan, BaseInv, TypeOK
  <2>2. loan' \in [Loans -> LoanRow]
    BY <1>0, <1>1, ViewType
  <2>3. feat' \in [Subscribers -> FeatureRow]
    BY <1>0, FeatureRowType DEF CommitLoan, BaseInv, TypeOK
  <2>4. QED
    BY <1>1, <1>2, <2>1, <2>2, <2>3, ReleaseType DEF TypeOK, CommitLoan, txData,
       StepUnchanged, envVars, Step
<1>4. OthersUntouched(w, job[w])
  BY <1>0, <1>1, <1>2, ReleaseType DEF OthersUntouched, BaseInv, TypeOK, CommitLoan, txData,
     StepUnchanged, envVars, OneWorkerPerJob, SameLocals
<1>5. JobOK(w)' /\ CreditOK(w)'
  BY <1>0, <1>2 DEF BaseInv, CommitLoan, txData, StepUnchanged, JobOK, CreditOK,
     LoanSteps, RecoverySteps, AfterCommit
<1>6. CommittedOK(w)'
  BY <1>0, <1>1, ViewType DEF CommittedOK, CommitLoan, txData, Key
<1>7. \A s \in Subscribers : lockFeat'[s] # w
  BY <1>1, ReleaseType
<1>8. QED
  BY <1>3, <1>4, <1>5, <1>6, <1>7, WorkerFrame DEF CommitLoan, txData

\* The snapshot after COMMIT preserves the base invariant.
LEMMA SnapshotLoanStep ==
    ASSUME BaseInv, NEW w \in Workers, SnapshotLoan(w)
    PROVE  BaseInv'
<1>0. Key(w) \in Loans /\ pc[w] = "snapshot"
  BY LoanJobKey DEF SnapshotLoan, snapshotLoan
<1>1. TypeOK'
  BY <1>0 DEF BaseInv, TypeOK, SnapshotLoan, snapshotLoan, MayFault, Goto, txData, envVars, locks, Step,
     AfterCommit
<1>2. OthersUntouched(w, job[w])
  BY <1>0 DEF OthersUntouched, BaseInv, TypeOK, SnapshotLoan, snapshotLoan, Goto, txData, envVars, locks,
     OneWorkerPerJob, SameLocals, LoansStay
<1>3. JobOK(w)' /\ CreditOK(w)' /\ CommittedOK(w)'
  BY <1>0 DEF BaseInv, TypeOK, SnapshotLoan, snapshotLoan, Goto, txData, JobOK, CreditOK, CommittedOK, Key,
     LoanSteps, RecoverySteps, AfterCommit
<1>4. \A s \in Subscribers : lockFeat'[s] # w
  BY <1>0 DEF BaseInv, FeatLockOK, SnapshotLoan, snapshotLoan, RecoverySteps, locks
<1>5. QED
  BY <1>0, <1>1, <1>2, <1>3, <1>4, WorkerFrame DEF SnapshotLoan, snapshotLoan, txData

\* Completing a job preserves the base invariant.
LEMMA AcknowledgeStep ==
    ASSUME BaseInv, NEW w \in Workers, Acknowledge(w)
    PROVE  BaseInv'
<1>0. pc[w] = "ack"
  BY DEF Acknowledge
<1>1. TypeOK'
  BY <1>0 DEF BaseInv, TypeOK, Acknowledge, EndJob, Goto, dbVars, envVars, locks, Step
<1>2. OthersUntouched(w, job[w])
  BY <1>0 DEF OthersUntouched, BaseInv, TypeOK, Acknowledge, EndJob, Goto, dbVars, envVars, locks,
     OneWorkerPerJob, SameLocals, LoansStay
<1>3. pc'[w] = "idle" /\ newly'[w] = {}
  BY DEF BaseInv, TypeOK, Acknowledge, EndJob, Goto
<1>4. JobOK(w)' /\ CreditOK(w)' /\ CommittedOK(w)'
  BY <1>3 DEF JobOK, CreditOK, CommittedOK, LoanSteps, RecoverySteps, AfterCommit
<1>5. \A s \in Subscribers : lockFeat'[s] # w
  BY <1>0 DEF BaseInv, FeatLockOK, Acknowledge, RecoverySteps, locks
<1>6. QED
  BY <1>1, <1>2, <1>3, <1>4, <1>5, WorkerFrame

\* The insert of csdp_recovery preserves the base invariant.
LEMMA InsertRecoveryStep ==
    ASSUME BaseInv, NEW w \in Workers, InsertRecovery(w)
    PROVE  BaseInv'
<1>0. Key(w) \in Recoveries /\ pc[w] = "insertRecovery" /\ Msisdn(w) \in Subscribers
  BY RecoveryJobKey DEF InsertRecovery, RecoverySteps
<1>1. TypeOK'
  BY <1>0 DEF BaseInv, TypeOK, InsertRecovery, Goto, StepUnchanged, dbVars, envVars, Step,
     RecoverySteps
<1>2. OthersUntouched(w, job[w])
  BY <1>0 DEF OthersUntouched, BaseInv, TypeOK, InsertRecovery, Goto, StepUnchanged, dbVars,
     envVars, OneWorkerPerJob, SameLocals, LoansStay
<1>3. newly'[w] = {} /\ pc'[w] = "item" /\ job'[w] = job[w] /\ pos'[w] = 1
      /\ lockFeat' = lockFeat /\ queue' = queue
  BY <1>0 DEF BaseInv, CreditOK, TypeOK, InsertRecovery, Goto, StepUnchanged
<1>4. \A s \in Subscribers : lockFeat'[s] # w
  BY <1>0, <1>3 DEF BaseInv, FeatLockOK, CreditOK
<1>5. JobOK(w)'
  BY <1>0, <1>3 DEF BaseInv, JobOK, LoanSteps, RecoverySteps
<1>6. Msisdn(w)' = Msisdn(w)
  BY <1>3 DEF Msisdn, Key
<1>7. CreditOK(w)' /\ CommittedOK(w)'
  BY <1>0, <1>3, <1>4, <1>6 DEF CreditOK, CommittedOK, Credited, AfterCommit
<1>8. QED
  BY <1>1, <1>2, <1>3, <1>4, <1>5, <1>7, WorkerFrame

\* A step of the item loop that recovers nothing.
LEMMA SkipItem ==
    ASSUME BaseInv, NEW w \in Workers, ItemUnknownLoan(w) \/ ItemAlreadyRecovered(w)
    PROVE  BaseInv'
<1>0. /\ Key(w) \in Recoveries /\ pc[w] = "item" /\ pos[w] \in Nat /\ pos[w] > 0
      /\ pos[w] <= Len(Items[Key(w)])
  BY RecoveryJobKey DEF ItemUnknownLoan, ItemAlreadyRecovered, MoreItems, RecoverySteps, BaseInv,
     TypeOK, JobOK
<1>1. Item(w) \in Loans
  BY <1>0, ConstantsAssumption DEF Item
<1>2. TypeOK'
  <2>1. CASE ItemUnknownLoan(w)
    BY <1>0, <2>1 DEF BaseInv, TypeOK, ItemUnknownLoan, StepUnchanged, dbVars, envVars, locks
  <2>2. CASE ItemAlreadyRecovered(w)
    BY <1>0, <1>1, <2>2 DEF BaseInv, TypeOK, ItemAlreadyRecovered, StepUnchanged, dbVars, envVars
  <2>3. QED BY <2>1, <2>2
<1>3. OthersUntouched(w, job[w])
  BY <1>0 DEF OthersUntouched, BaseInv, TypeOK, ItemUnknownLoan, ItemAlreadyRecovered,
     StepUnchanged, dbVars, envVars, locks, OneWorkerPerJob, SameLocals, LoansStay
<1>4. /\ pc' = pc /\ job' = job /\ newly' = newly /\ featTx' = featTx /\ pos'[w] > 0
      /\ lockFeat' = lockFeat /\ feat' = feat /\ queue' = queue
  BY <1>0 DEF ItemUnknownLoan, ItemAlreadyRecovered, StepUnchanged, dbVars, locks, BaseInv, TypeOK
<1>5. JobOK(w)'
  BY <1>0, <1>4 DEF BaseInv, JobOK, LoanSteps, RecoverySteps
<1>6. Msisdn(w)' = Msisdn(w) /\ Credited(w)' = Credited(w)
  BY <1>0, <1>4 DEF Msisdn, Key, Credited
<1>7. CreditOK(w)' /\ CommittedOK(w)'
  BY <1>0, <1>4, <1>6 DEF BaseInv, CreditOK, CommittedOK, AfterCommit
<1>8. \A s \in Subscribers : lockFeat'[s] = w =>
         pc'[w] \in RecoverySteps \cup {"commitLoan"} /\ s = Msisdn(w)'
  BY <1>4, <1>6 DEF BaseInv, FeatLockOK
<1>9. QED
  BY <1>2, <1>3, <1>4, <1>5, <1>7, <1>8, WorkerFrame

\* Recovering a loan item preserves the base invariant.
LEMMA ItemRecoverStep ==
    ASSUME BaseInv, NEW w \in Workers, ItemRecover(w)
    PROVE  BaseInv'
<1>0. /\ Key(w) \in Recoveries /\ pc[w] = "item" /\ pos[w] \in Nat /\ pos[w] > 0
      /\ pos[w] <= Len(Items[Key(w)])
  BY RecoveryJobKey DEF ItemRecover, MoreItems, RecoverySteps, BaseInv, TypeOK, JobOK
<1>1. Item(w) \in Loans /\ Len(Items[Key(w)]) \in Nat
  BY <1>0, ConstantsAssumption DEF Item
<1>2. Item(w) \notin newly[w]
  BY <1>0, <1>1 DEF ItemRecover, View, PaidRow, RecoverySteps
<1>3. TypeOK'
  BY <1>0, <1>1 DEF BaseInv, TypeOK, ItemRecover, Goto, StepUnchanged, dbVars, envVars, Step,
     RecoverySteps, LoanRow
<1>4. OthersUntouched(w, job[w])
  BY <1>0 DEF OthersUntouched, BaseInv, TypeOK, ItemRecover, Goto, StepUnchanged, dbVars, envVars,
     OneWorkerPerJob, SameLocals, LoansStay
<1>5. /\ pc'[w] = "creditFeature" /\ job' = job /\ pos' = pos /\ featTx' = featTx
      /\ newly'[w] = newly[w] \cup {Item(w)}
      /\ lockFeat' = lockFeat /\ feat' = feat /\ queue' = queue
  BY <1>0 DEF ItemRecover, Goto, StepUnchanged, dbVars, BaseInv, TypeOK
<1>6. Msisdn(w)' = Msisdn(w) /\ Key(w)' = Key(w) /\ Item(w)' = Item(w)
  BY <1>5 DEF Msisdn, Key, Item
<1>7. Credited(w)' = Credited(w)
  BY <1>0, <1>2, <1>5, <1>6 DEF Credited
<1>8. JobOK(w)'
  BY <1>0, <1>1, <1>5, <1>6 DEF BaseInv, JobOK, LoanSteps, RecoverySteps
<1>9. CreditOK(w)' /\ CommittedOK(w)'
  BY <1>0, <1>5, <1>6, <1>7 DEF BaseInv, CreditOK, CommittedOK, AfterCommit, RecoverySteps
<1>10. \A s \in Subscribers : lockFeat'[s] = w =>
          pc'[w] \in RecoverySteps \cup {"commitLoan"} /\ s = Msisdn(w)'
  BY <1>5, <1>6 DEF BaseInv, FeatLockOK, RecoverySteps
<1>11. QED
  BY <1>3, <1>4, <1>5, <1>8, <1>9, <1>10, WorkerFrame

\* Crediting the feature row preserves the base invariant: the heart of CreditOK.
LEMMA CreditFeatureStep ==
    ASSUME BaseInv, NEW w \in Workers, CreditFeature(w)
    PROVE  BaseInv'
<1> DEFINE s == Msisdn(w)
           row == IF lockFeat[s] = w THEN featTx[w] ELSE feat[s]
<1>0. /\ Key(w) \in Recoveries /\ pc[w] = "creditFeature" /\ pos[w] \in 1..Len(Items[Key(w)])
      /\ s \in Subscribers /\ Item(w) \in newly[w]
  BY RecoveryJobKey DEF CreditFeature, RecoverySteps, BaseInv, JobOK
<1>1. Item(w) \in Loans /\ newly[w] \in SUBSET Loans
  BY <1>0, ConstantsAssumption DEF Item, BaseInv, TypeOK
<1>2. /\ row \in FeatureRow
      /\ row.taken = feat[s].taken
      /\ row.recovered = Bump(feat[s].recovered, Credited(w))
      /\ feat[s].recovered \in [Loans -> Nat]
  <2>1. feat[s] \in FeatureRow /\ feat[s].recovered \in [Loans -> Nat]
    BY <1>0 DEF BaseInv, TypeOK, FeatureRow
  <2>2. CASE lockFeat[s] = w
    BY <1>0, <2>1, <2>2 DEF BaseInv, CreditOK, RecoverySteps
  <2>3. CASE lockFeat[s] # w
    <3>1. Credited(w) = {}
      BY <1>0, <2>3 DEF BaseInv, CreditOK, RecoverySteps
    <3>2. QED BY <2>1, <2>3, <3>1, BumpEmpty
  <2>4. QED BY <2>2, <2>3
<1>3. /\ featTx' = [featTx EXCEPT ![w] = onLoanRecovered(row, Item(w), prior[w] = "DEFAULTED",
                                                      View(w))]
      /\ pos' = [pos EXCEPT ![w] = @ + 1] /\ pc' = [pc EXCEPT ![w] = "item"]
      /\ lockFeat' = [lockFeat EXCEPT ![s] = w]
      /\ lockFeat[s] \in {None, w}
      /\ UNCHANGED <<job, prior, issuedSum, newly, dbVars, lockLoan, lockSub, lockRec, envVars,
                     queue, attempts, faults, mat>>
  BY DEF CreditFeature, Goto, StepUnchanged, Available
<1>4. onLoanRecovered(row, Item(w), prior[w] = "DEFAULTED", View(w)) \in FeatureRow
  BY <1>1, <1>2, FeatureRowType
<1> HIDE DEF s, row
<1>5. TypeOK'
  BY <1>0, <1>3, <1>4 DEF BaseInv, TypeOK, dbVars, envVars, Step, RecoverySteps
<1>6. OthersUntouched(w, job[w])
  BY <1>0, <1>3, ConstantsAssumption DEF OthersUntouched, BaseInv, TypeOK, dbVars, envVars,
     OneWorkerPerJob, SameLocals, LoansStay
<1>7. /\ pc'[w] = "item" /\ pos'[w] > 0 /\ lockFeat'[s] = w
      /\ featTx'[w] = onLoanRecovered(row, Item(w), prior[w] = "DEFAULTED", View(w))
      /\ feat' = feat /\ newly' = newly /\ queue' = queue /\ job' = job
  BY <1>0, <1>3 DEF BaseInv, TypeOK, dbVars
<1>8. Msisdn(w)' = s
  BY <1>7 DEF s, Msisdn, Key
<1>9. JobOK(w)'
  BY <1>0, <1>7 DEF BaseInv, JobOK, LoanSteps, RecoverySteps
<1>10. featTx'[w].taken = feat[s].taken /\ featTx'[w].recovered = Bump(feat[s].recovered, newly[w])
  <2>1. featTx'[w].taken = row.taken /\ featTx'[w].recovered = Bump(row.recovered, {Item(w)})
    BY <1>7 DEF onLoanRecovered
  <2>2. Item(w) \notin Credited(w) /\ Credited(w) \cup {Item(w)} = newly[w]
        /\ Credited(w) \in SUBSET Loans
    BY <1>0, <1>1 DEF Credited
  <2>3. Bump(Bump(feat[s].recovered, Credited(w)), {Item(w)}) = Bump(feat[s].recovered, newly[w])
    BY <1>1, <1>2, <2>2, BumpOnce
  <2>4. QED BY <1>2, <2>1, <2>3
<1>11. Credited(w)' = newly[w]
  BY <1>7 DEF Credited
<1>12. CreditOK(w)' /\ CommittedOK(w)'
  BY <1>4, <1>7, <1>8, <1>10, <1>11 DEF CreditOK, CommittedOK, AfterCommit
<1>13. \A x \in Subscribers : lockFeat'[x] = w =>
          pc'[w] \in RecoverySteps \cup {"commitLoan"} /\ x = Msisdn(w)'
  BY <1>0, <1>3, <1>7, <1>8 DEF BaseInv, TypeOK, FeatLockOK, RecoverySteps, s
<1>14. QED
  BY <1>5, <1>6, <1>7, <1>9, <1>12, <1>13, WorkerFrame

\* The SUM after the item loop preserves the base invariant.
LEMMA RecomputeStep ==
    ASSUME BaseInv, NEW w \in Workers, Recompute(w)
    PROVE  BaseInv'
<1>0. Key(w) \in Recoveries /\ pc[w] = "item"
  BY RecoveryJobKey DEF Recompute, RecoverySteps
<1>1. TypeOK'
  BY <1>0 DEF BaseInv, TypeOK, Recompute, Goto, StepUnchanged, dbVars, envVars, locks, Step,
     RecoverySteps, IssuedLoans
<1>2. OthersUntouched(w, job[w])
  BY <1>0 DEF OthersUntouched, BaseInv, TypeOK, Recompute, Goto, StepUnchanged, dbVars, envVars,
     locks, OneWorkerPerJob, SameLocals, LoansStay
<1>3. /\ pc'[w] = "countRecovered" /\ job' = job /\ newly' = newly /\ featTx' = featTx
      /\ lockFeat' = lockFeat /\ feat' = feat /\ queue' = queue
  BY <1>0 DEF Recompute, Goto, StepUnchanged, dbVars, locks, BaseInv, TypeOK
<1>4. Msisdn(w)' = Msisdn(w) /\ Credited(w)' = Credited(w)
  BY <1>0, <1>3 DEF Msisdn, Key, Credited
<1>5. JobOK(w)'
  BY <1>0, <1>3 DEF BaseInv, JobOK, LoanSteps, RecoverySteps
<1>6. CreditOK(w)' /\ CommittedOK(w)'
  BY <1>0, <1>3, <1>4 DEF BaseInv, CreditOK, CommittedOK, AfterCommit, RecoverySteps
<1>7. \A s \in Subscribers : lockFeat'[s] = w =>
         pc'[w] \in RecoverySteps \cup {"commitLoan"} /\ s = Msisdn(w)'
  BY <1>3, <1>4 DEF BaseInv, FeatLockOK, RecoverySteps
<1>8. QED
  BY <1>1, <1>2, <1>3, <1>5, <1>6, <1>7, WorkerFrame

\* The COMMIT of a recovery preserves the base invariant.
LEMMA CommitRecoveryStep ==
    ASSUME BaseInv, NEW w \in Workers, CommitRecovery(w)
    PROVE  BaseInv'
<1>0. /\ Msisdn(w) \in Subscribers /\ Key(w) \in Recoveries /\ job[w] \in RecoveryJob
      /\ pc[w] = "countRecovered" /\ pc[w] \in LoanSteps \cup RecoverySteps
  BY RecoveryJobKey DEF CommitRecovery, RecoverySteps
<1>1. ReleaseLocks(w) /\ TypeOK /\ loan' = View(w) /\ LoansStay
  BY <1>0, ViewType DEF CommitRecovery, BaseInv, LoansStay
<1>2. pc' = [pc EXCEPT ![w] = "ack"] /\ pc'[w] = "ack" /\ job' = job /\ queue' = queue
  BY DEF CommitRecovery, Goto, BaseInv, TypeOK, txData, StepUnchanged
<1>3. TypeOK'
  <2>1. sub' \in [Subscribers -> SubscriberRow]
    BY <1>0, SubscriberRowType DEF CommitRecovery, BaseInv, TypeOK
  <2>2. loan' \in [Loans -> LoanRow]
    BY <1>0, <1>1, ViewType
  <2>3. feat' \in [Subscribers -> FeatureRow]
    <3>1. lockFeat[Msisdn(w)] = w => featTx[w] \in FeatureRow
      BY <1>0 DEF BaseInv, CreditOK, RecoverySteps
    <3>2. QED BY <1>0, <3>1 DEF CommitRecovery, BaseInv, TypeOK
  <2>4. items' \subseteq Recoveries \X Loans
    <3>1. \A i \in 1..Len(Items[Key(w)]) : Items[Key(w)][i] \in Loans
      BY <1>0, ConstantsAssumption
    <3>2. QED BY <1>0, <3>1 DEF CommitRecovery, BaseInv, TypeOK
  <2>5. recoveries' \subseteq Recoveries
    BY <1>0 DEF CommitRecovery, BaseInv, TypeOK
  <2>6. QED
    BY <1>1, <1>2, <2>1, <2>2, <2>3, <2>4, <2>5, ReleaseType DEF TypeOK, CommitRecovery, txData,
       StepUnchanged, envVars, Step, AfterCommit
<1>4. OthersUntouched(w, job[w])
  BY <1>0, <1>1, <1>2, ReleaseType DEF OthersUntouched, BaseInv, TypeOK, CommitRecovery, txData,
     StepUnchanged, envVars, OneWorkerPerJob, SameLocals
<1>5. job[w] \notin LoanJob
  BY <1>0 DEF LoanJob, RecoveryJob
<1>6. JobOK(w)' /\ CreditOK(w)' /\ CommittedOK(w)'
  BY <1>0, <1>2, <1>5 DEF BaseInv, JobOK, CreditOK, CommittedOK, LoanSteps, RecoverySteps
<1>7. \A s \in Subscribers : lockFeat'[s] # w
  BY <1>1, ReleaseType
<1>8. QED
  BY <1>2, <1>3, <1>4, <1>6, <1>7, WorkerFrame

\* A step outside the workers.
LEMMA OutsideFrame ==
    ASSUME BaseInv, TypeOK', UNCHANGED <<txVars, lockFeat>>, LoansStay,
           \A w \in Workers : pc[w] # "idle" => queue'[job[w]] = queue[job[w]],
           \A w \in Workers : pc[w] \in LoanSteps => payload'[job[w]] = payload[job[w]],
           \A s \in Subscribers : lockFeat[s] # None => feat'[s] = feat[s]
    PROVE  BaseInv'
<1>1. \A w \in Workers : SameLocals(w)
  BY DEF txVars, txData, SameLocals
<1>2. ASSUME NEW w \in Workers PROVE JobOK(w)' /\ CreditOK(w)' /\ CommittedOK(w)'
  <2>1. JobOK(w)'
    BY <1>1, <1>2, JobFrame DEF BaseInv
  <2>2. CreditOK(w)'
    <3>1. CASE pc[w] = "idle"
      BY <3>1 DEF txVars, CreditOK, RecoverySteps
    <3>2. CASE pc[w] # "idle"
      <4>1. Msisdn(w) \in Subscribers
        BY <1>2, <3>2, MsisdnType
      <4>2. lockFeat[Msisdn(w)] = w => feat'[Msisdn(w)] = feat[Msisdn(w)]
        BY <1>2, <4>1, ConstantsAssumption
      <4>3. QED BY <1>1, <1>2, <4>2, CreditFrame DEF BaseInv
    <3>3. QED BY <3>1, <3>2
  <2>3. CommittedOK(w)'
    BY <1>1, <1>2, SameKey DEF BaseInv, CommittedOK, LoansStay, SameLocals, Key, LoanJob
  <2>4. QED BY <2>1, <2>2, <2>3
<1>3. OneWorkerPerJob'
  BY <1>1 DEF BaseInv, OneWorkerPerJob, SameLocals
<1>4. FeatLockOK'
  BY <1>1, SameKey DEF BaseInv, FeatLockOK, SameLocals
<1>5. QED BY <1>2, <1>3, <1>4 DEF BaseInv

\* Accepting a webhook preserves the base invariant.
LEMMA WebhookStep ==
    ASSUME BaseInv, Webhook
    PROVE  BaseInv'
<1>1. PICK j \in Job : Enqueue(j)
  BY DEF Webhook, AirtelLoan, InternalLoan, AirtelRecovery, InternalRecovery, SendRecovery, Job
<1>2. /\ payload' \in [LoanJob -> [status : DtoStatus, recoveredAt : RecoveredAt]]
      /\ paidLate' \in [Recoveries -> SUBSET Loans]
      /\ \A i \in LoanJob : queue[i] # "unsent" => payload'[i] = payload[i]
  <2>1. CASE \E i \in LoanJob : AirtelLoan(i)
    BY <2>1 DEF AirtelLoan, mapLoan, Enqueue, Sendable, BaseInv, TypeOK, DtoStatus, RecoveredAt
  <2>2. CASE \E i \in LoanJob : InternalLoan(i)
    BY <2>2, ConstantsAssumption DEF InternalLoan, Enqueue, Sendable, BaseInv, TypeOK, DtoStatus,
       RecoveredAt, RecoveredClass
  <2>3. CASE \E i \in RecoveryJob : SendRecovery(i)
    <3>1. payload' = payload /\ \E i \in RecoveryJob :
              paidLate' = paidLate \/ paidLate' = [paidLate EXCEPT ![i[2]] = aged]
      BY <2>3 DEF SendRecovery
    <3>2. /\ payload \in [LoanJob -> [status : DtoStatus, recoveredAt : RecoveredAt]]
          /\ paidLate \in [Recoveries -> SUBSET Loans] /\ aged \in SUBSET Loans
      BY DEF BaseInv, TypeOK
    <3>3. QED BY <3>1, <3>2
  <2>4. QED
    BY <2>1, <2>2, <2>3 DEF Webhook, AirtelRecovery, InternalRecovery
<1>3. inbound' \subseteq Loans \cup Recoveries
  <2>1. j[2] \in Loans \cup Recoveries
    BY DEF Job, LoanJob, RecoveryJob
  <2>2. QED BY <1>1, <2>1 DEF Enqueue, BaseInv, TypeOK
<1>4. TypeOK'
  BY <1>1, <1>2, <1>3 DEF BaseInv, TypeOK, Enqueue, dbVars, txVars, txData, locks
<1>5. \A w \in Workers : pc[w] # "idle" => job[w] # j /\ queue[job[w]] # "unsent"
  BY <1>1 DEF Enqueue, Sendable, BaseInv, JobOK
<1>6. \A w \in Workers : pc[w] # "idle" => queue'[job[w]] = queue[job[w]]
  BY <1>1, <1>5 DEF Enqueue, BaseInv, TypeOK, JobOK
<1>7. \A w \in Workers : pc[w] \in LoanSteps => payload'[job[w]] = payload[job[w]]
  BY <1>2, <1>5, LoanJobKey DEF LoanSteps
<1>8. QED
  BY <1>1, <1>4, <1>6, <1>7, OutsideFrame DEF Enqueue, dbVars, locks, LoansStay

\* The passing of time preserves the base invariant.
LEMMA AgeStep ==
    ASSUME BaseInv, NEW l \in Loans, Age(l)
    PROVE  BaseInv'
<1>1. TypeOK'
  BY DEF BaseInv, TypeOK, Age, dbVars, txVars, txData, locks
<1>2. QED
  BY <1>1, OutsideFrame DEF Age, dbVars, locks, LoansStay

\* The aging transaction preserves the base invariant.
LEMMA RunAgingStep ==
    ASSUME BaseInv, RunAging
    PROVE  BaseInv'
<1>1. loan' \in [Loans -> LoanRow] /\ LoansStay
  BY DEF RunAging, BaseInv, TypeOK, LoanRow, LoanStatus, RecoveredAt, RecoveredClass, Overdue,
     Converging, LoansStay
<1>2. feat' = feat
  BY DEF RunAging, BaseInv, TypeOK, AffectedMsisdns
<1>3. TypeOK'
  BY <1>1, <1>2 DEF BaseInv, TypeOK, RunAging, envVars, txVars, txData, locks
<1>4. QED
  BY <1>1, <1>2, <1>3, OutsideFrame DEF RunAging, envVars, locks

\* The materializer computes well-typed feature rows.
LEMMA ComputedType ==
    ASSUME NEW s \in Subscribers, NEW rows
    PROVE  Computed(rows, s) \in FeatureRow
<1>1. Zero \in [Loans -> Nat]
  BY DEF Zero
<1>2. HasDefault(rows, s) \in BOOLEAN
  BY DEF HasDefault
<1>3. ASSUME NEW S \in SUBSET Loans PROVE 100 * SumRepayable[S] \in Nat
  <2>1. SumRepayable[S] \in Nat
    BY <1>3, ConstantsAssumption
  <2>2. QED BY <2>1
<1>4. QED
  BY <1>1, <1>2, <1>3, BumpType DEF Computed, FeatureRow

\* The materializer preserves the base invariant: it waits for row locks.
LEMMA MaterializeStep ==
    ASSUME BaseInv, Materialize
    PROVE  BaseInv'
<1>1. CASE MaterializeBegin
  <2>1. mat' \in [ActiveSubscribers -> FeatureRow] /\ ActiveSubscribers \in SUBSET Subscribers
    BY <1>1, ComputedType DEF MaterializeBegin, ActiveSubscribers
  <2>2. TypeOK'
    BY <1>1, <2>1 DEF BaseInv, TypeOK, MaterializeBegin, dbVars, envVars, txVars, txData, locks
  <2>3. QED
    BY <1>1, <2>2, OutsideFrame DEF MaterializeBegin, dbVars, envVars, locks, LoansStay
<1>2. CASE MaterializeWrite
  <2>1. PICK D \in SUBSET Subscribers : mat \in [D -> FeatureRow]
    BY <1>2 DEF MaterializeWrite, BaseInv, TypeOK
  <2>2. feat' \in [Subscribers -> FeatureRow]
    BY <1>2, <2>1 DEF MaterializeWrite, BaseInv, TypeOK
  <2>3. \A s \in Subscribers : lockFeat[s] # None => feat'[s] = feat[s]
    BY <1>2, <2>1 DEF MaterializeWrite
  <2>4. TypeOK'
    BY <1>2, <2>2 DEF BaseInv, TypeOK, MaterializeWrite, envVars, txVars, txData, locks
  <2>5. QED
    BY <1>2, <2>3, <2>4, OutsideFrame DEF MaterializeWrite, envVars, locks, LoansStay
<1>3. QED BY <1>1, <1>2 DEF Materialize

\* Stuttering preserves the base invariant.
LEMMA StutterStep ==
    ASSUME BaseInv, UNCHANGED vars
    PROVE  BaseInv'
<1>1. TypeOK'
  BY DEF BaseInv, TypeOK, vars, dbVars, envVars, txVars, txData, locks
<1>2. QED
  BY <1>1, OutsideFrame DEF vars, dbVars, envVars, locks, LoansStay

\* Every step, the materializer's included, preserves the base invariant.
LEMMA BaseInvStep ==
    ASSUME BaseInv, [Next]_vars
    PROVE  BaseInv'
<1>1. ASSUME NEW w \in Workers, WorkerStep(w) PROVE BaseInv'
  BY <1>1, StartStep, SelectLoanStep, UpsertLoanStep, FailureSteps, UpsertSubscriberFirstStep,
     UpsertSubscriberReplayStep, FeatureRowIssuedStep, CommitLoanStep, SnapshotLoanStep,
     AcknowledgeStep, InsertRecoveryStep, SkipItem, ItemRecoverStep, CreditFeatureStep,
     RecomputeStep, CommitRecoveryStep DEF WorkerStep
<1>2. CASE Fault
  BY <1>2, FailureSteps DEF Fault
<1>3. CASE \E l \in Loans : Age(l)
  BY <1>3, AgeStep
<1>4. CASE RunAging
  BY <1>4, RunAgingStep
<1>5. CASE Webhook
  BY <1>5, WebhookStep
<1>6. CASE Materialize
  BY <1>6, MaterializeStep
<1>7. CASE UNCHANGED vars
  BY <1>7, StutterStep
<1>8. QED BY <1>1, <1>2, <1>3, <1>4, <1>5, <1>6, <1>7 DEF Next, LiveNext

\* The base invariant holds initially.
LEMMA BaseInvInit ==
    ASSUME Init
    PROVE  BaseInv
<1>1. Zero \in [Loans -> Nat]
  BY DEF Zero
<1>2. TypeOK
  BY <1>1, ConstantsAssumption DEF Init, TypeOK, LoanRow, RecoveredAt, SubscriberRow, FeatureRow,
     DtoStatus, Step
<1>3. \A w \in Workers : JobOK(w) /\ CreditOK(w) /\ CommittedOK(w)
  BY DEF Init, JobOK, CreditOK, CommittedOK, LoanSteps, RecoverySteps, AfterCommit
<1>4. OneWorkerPerJob
  BY DEF Init, OneWorkerPerJob
<1>5. FeatLockOK
  BY ConstantsAssumption DEF Init, FeatLockOK
<1>6. QED BY <1>2, <1>3, <1>4, <1>5 DEF BaseInv

\* The base invariant holds in every behaviour of the full system.
THEOREM BaseInvariant == Spec => []BaseInv
<1>1. Init => BaseInv
  BY BaseInvInit
<1>2. BaseInv /\ [Next]_vars => BaseInv'
  BY BaseInvStep
<1>3. QED BY <1>1, <1>2, PTL DEF Spec

\* Type correctness, for every set of loans, workers and deliveries.
THEOREM TypeCorrect == Spec => []TypeOK
<1>1. BaseInv => TypeOK
  BY DEF BaseInv
<1>2. QED BY <1>1, BaseInvariant, PTL

-----------------------------------------------------------------------------
(* The two aggregates agree                                                *)

\* The COMMIT of a first delivery counts the loan in both aggregates.
LEMMA CommitLoanAgrees ==
    ASSUME LedgerInv, NEW w \in Workers, CommitLoan(w)
    PROVE  CountersAgree'
<1>1. Msisdn(w) \in Subscribers
  BY LoanJobKey DEF LedgerInv, CommitLoan, LoanSteps
<1>2. /\ sub' = [sub EXCEPT ![Msisdn(w)] = CountTaken(sub[Msisdn(w)], Key(w), issuedSum[w])]
      /\ feat' = [feat EXCEPT ![Msisdn(w)] = onLoanIssued(feat[Msisdn(w)], Key(w))]
  BY DEF CommitLoan
<1>3. QED
  BY <1>1, <1>2 DEF LedgerInv, BaseInv, TypeOK, CountersAgree, CountTaken, onLoanIssued

\* The COMMIT of a recovery counts the same loans in both aggregates.
LEMMA CommitRecoveryAgrees ==
    ASSUME LedgerInv, NEW w \in Workers, CommitRecovery(w)
    PROVE  CountersAgree'
<1> DEFINE s == Msisdn(w)
<1>0. BaseInv /\ pc[w] = "countRecovered" /\ pc[w] \in RecoverySteps
  BY DEF LedgerInv, CommitRecovery, RecoverySteps
<1>1. s \in Subscribers /\ Credited(w) = newly[w]
  BY <1>0, RecoveryJobKey DEF Credited
<1>2. feat[s].recovered \in [Loans -> Nat]
  BY <1>0, <1>1 DEF BaseInv, TypeOK, FeatureRow
<1>3. sub' = [sub EXCEPT ![s] = CountRecovered(sub[s], newly[w], issuedSum[w])]
      /\ feat' = IF lockFeat[s] = w THEN [feat EXCEPT ![s] = featTx[w]] ELSE feat
  BY DEF CommitRecovery
<1>4. feat'[s].taken = feat[s].taken /\ feat'[s].recovered = Bump(feat[s].recovered, newly[w])
  <2>1. CASE lockFeat[s] = w
    BY <1>0, <1>1, <1>3, <2>1 DEF BaseInv, TypeOK, CreditOK
  <2>2. CASE lockFeat[s] # w
    <3>1. newly[w] = {}
      BY <1>0, <1>1, <2>2 DEF BaseInv, CreditOK
    <3>2. QED BY <1>2, <1>3, <2>2, <3>1, BumpEmpty
  <2>3. QED BY <2>1, <2>2
<1>5. sub'[s].taken = sub[s].taken /\ sub'[s].recovered = Bump(sub[s].recovered, newly[w])
  BY <1>0, <1>1, <1>3 DEF BaseInv, TypeOK, CountRecovered
<1>6. \A x \in Subscribers : x # s => sub'[x] = sub[x] /\ feat'[x] = feat[x]
  BY <1>0, <1>1, <1>3 DEF BaseInv, TypeOK
<1> HIDE DEF s
<1>7. QED
  BY <1>1, <1>4, <1>5, <1>6 DEF LedgerInv, CountersAgree

\* A replay touches no counter.
LEMMA UpsertSubscriberReplayAgrees ==
    ASSUME LedgerInv, NEW w \in Workers, UpsertSubscriberReplay(w)
    PROVE  CountersAgree'
<1>1. Msisdn(w) \in Subscribers
  BY LoanJobKey DEF LedgerInv, UpsertSubscriberReplay, LoanSteps
<1>2. /\ sub' = [sub EXCEPT ![Msisdn(w)] = SyncOutstanding(sub[Msisdn(w)], issuedSum[w])]
      /\ feat' = feat
  BY DEF UpsertSubscriberReplay
<1>3. QED
  BY <1>1, <1>2 DEF LedgerInv, BaseInv, TypeOK, CountersAgree, SyncOutstanding

\* Every step but a COMMIT of the processors leaves both aggregates alone.
LEMMA CountersStep ==
    ASSUME LedgerInv, [LiveNext]_vars
    PROVE  CountersAgree'
<1>1. ASSUME UNCHANGED <<sub, feat>> PROVE CountersAgree'
  BY <1>1 DEF LedgerInv, CountersAgree
<1>2. ASSUME NEW w \in Workers, WorkerStep(w) PROVE CountersAgree'
  <2>1. CASE CommitLoan(w) \/ CommitRecovery(w) \/ UpsertSubscriberReplay(w)
    BY <2>1, CommitLoanAgrees, CommitRecoveryAgrees, UpsertSubscriberReplayAgrees
  <2>2. CASE (\E j \in Job : Start(w, j)) \/ SelectLoan(w) \/ UpsertLoan(w)
             \/ UpsertSubscriberFirst(w) \/ FeatureRowIssued(w) \/ SnapshotLoan(w)
             \/ Acknowledge(w) \/ InsertRecovery(w) \/ ItemUnknownLoan(w)
    BY <1>1, <2>2 DEF dbVars, Start, SelectLoan, UpsertLoan, UpsertSubscriberFirst,
       FeatureRowIssued, SnapshotLoan, snapshotLoan, Acknowledge, InsertRecovery, ItemUnknownLoan
  <2>3. CASE ItemAlreadyRecovered(w) \/ ItemRecover(w) \/ CreditFeature(w) \/ Recompute(w)
             \/ UpsertLoanRefused(w) \/ DeadlockAbort(w)
    BY <1>1, <2>3 DEF dbVars, ItemAlreadyRecovered, ItemRecover, CreditFeature, Recompute,
       UpsertLoanRefused, DeadlockAbort, FailAttempt
  <2>4. QED BY <1>2, <2>1, <2>2, <2>3 DEF WorkerStep
<1>3. CASE Fault
  BY <1>1, <1>3 DEF Fault, StatementError, WorkerCrash, FailAttempt, dbVars
<1>4. CASE Webhook
  BY <1>1, <1>4 DEF Webhook, AirtelLoan, InternalLoan, AirtelRecovery, InternalRecovery,
     SendRecovery, Enqueue, dbVars
<1>5. CASE \E l \in Loans : Age(l)
  BY <1>1, <1>5 DEF Age, dbVars
<1>6. CASE RunAging
  <2>1. feat' = feat
    BY <1>6 DEF RunAging, LedgerInv, BaseInv, TypeOK, AffectedMsisdns
  <2>2. QED BY <1>1, <1>6, <2>1 DEF RunAging
<1>7. CASE UNCHANGED vars
  BY <1>1, <1>7 DEF vars, dbVars
<1>8. QED BY <1>2, <1>3, <1>4, <1>5, <1>6, <1>7 DEF LiveNext

\* Between two nightly recomputations csdp_subscriber and
\* csdp_subscriber_feature_row count the same loans as taken and as recovered,
\* however many webhooks, workers, retries, crashes and deadlocks there are.
THEOREM CountersAlwaysAgree == LiveSpec => []CountersAgree
<1>1. Init => LedgerInv
  BY BaseInvInit DEF LedgerInv, CountersAgree, Init
<1>2. LedgerInv /\ [LiveNext]_vars => LedgerInv'
  <2>1. [LiveNext]_vars => [Next]_vars
    BY DEF Next
  <2>2. QED BY <2>1, BaseInvStep, CountersStep DEF LedgerInv
<1>3. LedgerInv => CountersAgree
  BY DEF LedgerInv
<1>4. QED BY <1>1, <1>2, <1>3, PTL DEF LiveSpec

-----------------------------------------------------------------------------
(* No completed job leaves a phantom in the Redis disbursement set         *)

\* A job of l that is not over.
Pending(l) == \E j \in LoanJob : j[2] = l /\ queue[j] \in {"waiting", "active", "failed"}

\* What a step must do for a member of the disbursed set.
LEMMA PhantomFrame ==
    ASSUME NoPhantomDisbursement, TypeOK, LoansStay,
           \A l \in disbursed' \ disbursed : Pending(l)',
           \A j \in LoanJob :
               queue[j] \in {"waiting", "active", "failed"} =>
                   \/ queue'[j] \in {"waiting", "active", "failed"}
                   \/ loan[j[2]].status # "ABSENT"
    PROVE  NoPhantomDisbursement'
<1>1. SUFFICES ASSUME NEW l \in disbursed', loan'[l].status = "ABSENT"
               PROVE  Pending(l)'
  BY DEF NoPhantomDisbursement, Pending
<1>2. CASE l \notin disbursed
  BY <1>2
<1>3. CASE l \in disbursed
  <2>1. l \in Loans /\ loan[l].status = "ABSENT"
    BY <1>1, <1>3 DEF TypeOK, LoansStay
  <2>2. PICK j \in LoanJob : j[2] = l /\ queue[j] \in {"waiting", "active", "failed"}
    BY <1>3, <2>1 DEF NoPhantomDisbursement
  <2>3. QED BY <2>1, <2>2 DEF Pending
<1>4. QED BY <1>2, <1>3

\* Every worker step keeps a retry for a disbursed loan without a row.
LEMMA PhantomWorkerStep ==
    ASSUME BaseInv, NoPhantomDisbursement, NEW w \in Workers, WorkerStep(w)
    PROVE  NoPhantomDisbursement'
<1>0. TypeOK
  BY DEF BaseInv
<1>1. CASE \E j \in Job : Start(w, j)
  <2>1. LoansStay /\ disbursed' = disbursed
    BY <1>1 DEF Start, dbVars, LoansStay
  <2>2. \A j \in LoanJob : queue[j] \in {"waiting", "active", "failed"} =>
                              queue'[j] \in {"waiting", "active", "failed"}
    BY <1>0, <1>1 DEF Start, TypeOK, Job
  <2>3. QED BY <1>0, <2>1, <2>2, PhantomFrame
<1>2. CASE SelectLoan(w) \/ UpsertLoan(w) \/ UpsertSubscriberFirst(w) \/ InsertRecovery(w)
           \/ ItemUnknownLoan(w) \/ ItemAlreadyRecovered(w) \/ ItemRecover(w)
           \/ CreditFeature(w) \/ Recompute(w)
  <2>1. UNCHANGED <<dbVars, queue>>
    BY <1>2 DEF SelectLoan, UpsertLoan, UpsertSubscriberFirst, InsertRecovery, ItemUnknownLoan,
       ItemAlreadyRecovered, ItemRecover, CreditFeature, Recompute, StepUnchanged
  <2>2. QED BY <1>0, <2>1, PhantomFrame DEF dbVars, LoansStay
<1>3. CASE UpsertSubscriberReplay(w) \/ CommitLoan(w) \/ CommitRecovery(w)
  <2>1. pc[w] \in LoanSteps \cup RecoverySteps /\ loan' = View(w)
    BY <1>3 DEF UpsertSubscriberReplay, CommitLoan, CommitRecovery, LoanSteps, RecoverySteps
  <2>2. LoansStay
    BY <2>1, ViewType DEF LoansStay
  <2>3. disbursed' = disbursed /\ queue' = queue
    BY <1>3 DEF UpsertSubscriberReplay, CommitLoan, CommitRecovery, StepUnchanged
  <2>4. QED BY <1>0, <2>2, <2>3, PhantomFrame
<1>4. CASE FeatureRowIssued(w)
  <2>1. job[w] \in LoanJob /\ queue[job[w]] = "active" /\ job[w][2] = Key(w)
    BY <1>4, LoanJobKey DEF FeatureRowIssued, recordDisbursement, LoanSteps, BaseInv, JobOK, Key
  <2>2. LoansStay /\ queue' = queue /\ disbursed' \subseteq disbursed \cup {Key(w)}
    BY <1>4 DEF FeatureRowIssued, recordDisbursement, LoansStay
  <2>3. \A l \in disbursed' \ disbursed : Pending(l)'
    BY <2>1, <2>2 DEF Pending
  <2>4. QED BY <1>0, <2>2, <2>3, PhantomFrame
<1>5. CASE SnapshotLoan(w)
  BY <1>0, <1>5, PhantomFrame DEF SnapshotLoan, snapshotLoan, LoansStay
<1>6. CASE Acknowledge(w)
  <2>1. pc[w] \in AfterCommit /\ LoansStay /\ disbursed' = disbursed
        /\ queue' = [queue EXCEPT ![job[w]] = "done"]
    BY <1>6 DEF Acknowledge, AfterCommit, dbVars, LoansStay
  <2>2. \A j \in LoanJob : j = job[w] => loan[j[2]].status # "ABSENT"
    BY <2>1 DEF BaseInv, CommittedOK, Key
  <2>3. \A j \in LoanJob : j # job[w] => queue'[j] = queue[j]
    BY <1>0, <2>1 DEF TypeOK, Job
  <2>4. QED BY <1>0, <2>1, <2>2, <2>3, PhantomFrame
<1>7. CASE UpsertLoanRefused(w) \/ DeadlockAbort(w)
  <2>1. LoansStay /\ disbursed' = disbursed
    BY <1>7 DEF UpsertLoanRefused, DeadlockAbort, FailAttempt, dbVars, LoansStay
  <2>2. \A j \in LoanJob : queue[j] \in {"waiting", "active", "failed"} =>
                              queue'[j] \in {"waiting", "active", "failed"}
    BY <1>0, <1>7 DEF UpsertLoanRefused, DeadlockAbort, FailAttempt, TypeOK, Job
  <2>3. QED BY <1>0, <2>1, <2>2, PhantomFrame
<1>8. QED
  BY <1>1, <1>2, <1>3, <1>4, <1>5, <1>6, <1>7 DEF WorkerStep

\* Every step keeps a retry for a disbursed loan without a row.
LEMMA PhantomStep ==
    ASSUME BaseInv, NoPhantomDisbursement, [Next]_vars
    PROVE  NoPhantomDisbursement'
<1>0. TypeOK
  BY DEF BaseInv
<1>1. CASE \E w \in Workers : WorkerStep(w)
  BY <1>1, PhantomWorkerStep
<1>2. CASE Fault
  <2>1. LoansStay /\ disbursed' = disbursed
    BY <1>2 DEF Fault, StatementError, WorkerCrash, FailAttempt, dbVars, LoansStay
  <2>2. \A j \in LoanJob : queue[j] \in {"waiting", "active", "failed"} =>
                              queue'[j] \in {"waiting", "active", "failed"}
    BY <1>0, <1>2 DEF Fault, StatementError, WorkerCrash, FailAttempt, TypeOK, Job
  <2>3. QED BY <1>0, <2>1, <2>2, PhantomFrame
<1>3. CASE Webhook
  <2>1. PICK j \in Job : Enqueue(j)
    BY <1>3 DEF Webhook, AirtelLoan, InternalLoan, AirtelRecovery, InternalRecovery,
       SendRecovery, Job
  <2>2. LoansStay /\ disbursed' = disbursed
    BY <2>1 DEF Enqueue, dbVars, LoansStay
  <2>3. \A i \in LoanJob : queue[i] \in {"waiting", "active", "failed"} =>
                              queue'[i] \in {"waiting", "active", "failed"}
    BY <1>0, <2>1 DEF Enqueue, Sendable, TypeOK, Job
  <2>4. QED BY <1>0, <2>2, <2>3, PhantomFrame
<1>4. CASE RunAging
  <2>1. LoansStay
    BY <1>0, <1>4 DEF RunAging, TypeOK, Overdue, Converging, LoansStay
  <2>2. QED BY <1>0, <1>4, <2>1, PhantomFrame DEF RunAging
<1>5. CASE (\E l \in Loans : Age(l)) \/ Materialize \/ UNCHANGED vars
  <2>1. UNCHANGED <<loan, disbursed, queue>>
    BY <1>5 DEF Age, Materialize, MaterializeBegin, MaterializeWrite, vars, dbVars
  <2>2. QED BY <1>0, <2>1, PhantomFrame DEF LoansStay
<1>6. QED
  BY <1>1, <1>2, <1>3, <1>4, <1>5 DEF Next, LiveNext

\* When the Redis disbursed-24h set names a loan that has no row, a job of
\* that loan is still waiting, running or kept as failed.
THEOREM NoPhantomDisbursements == Spec => []NoPhantomDisbursement
<1>1. Init => BaseInv /\ NoPhantomDisbursement
  BY BaseInvInit DEF Init, NoPhantomDisbursement
<1>2. (BaseInv /\ NoPhantomDisbursement) /\ [Next]_vars
         => (BaseInv /\ NoPhantomDisbursement)'
  BY BaseInvStep, PhantomStep
<1>3. QED BY <1>1, <1>2, PTL DEF Spec
-----------------------------------------------------------------------------
(* A fulfilment that is sent once is counted once                          *)

\* At most one webhook of loan l has arrived.
SentOnce(l) == \A j \in LoanJob : j[2] = l /\ j[3] # 1 => queue[j] = "unsent"

\* The steps of a loan job at which its transaction has written the loan.
Writing == {"upsertSubscriber", "featureRow", "commitLoan"}

\* A row that a transaction has written is locked by it; a row it has
\* recovered is still open for everybody else.
LoanLockOK(w) ==
    /\ pc[w] \in Writing => lockLoan[Key(w)] = w
    /\ pc[w] \in RecoverySteps =>
          \A l \in newly[w] : lockLoan[l] = w /\ loan[l].status \notin {"ABSENT", "RECOVERED"}

\* What the transaction's first SELECT found is still so when it commits: a
\* loan it did not find is not there yet.
FirstReadOK(w) ==
    /\ pc[w] \in {"featureRow", "commitLoan"} => FirstIssue(w)
    /\ pc[w] \in Writing \cup {"upsertLoan"} /\ prior[w] = "ABSENT" /\ SentOnce(Key(w))
          => loan[Key(w)].status = "ABSENT"

\* A loan without a row is not counted, a loan with one at most once.
TakenOK ==
    \A l \in Loans : SentOnce(l) =>
        \A s \in Subscribers : sub[s].taken[l] <= (IF loan[l].status = "ABSENT" THEN 0 ELSE 1)

OnceInv ==
    /\ BaseInv
    /\ \A w \in Workers : LoanLockOK(w) /\ FirstReadOK(w)
    /\ TakenOK

\* A webhook once sent stays sent.
LEMMA SentStays ==
    ASSUME TypeOK, [Next]_vars, NEW l
    PROVE  SentOnce(l)' => SentOnce(l)
<1>1. SUFFICES \A j \in Job : queue'[j] = "unsent" => queue[j] = "unsent"
  BY DEF SentOnce, Job
<1>2. ASSUME NEW w \in Workers, FailAttempt(w) \/ WorkerCrash(w)
      PROVE  \A j \in Job : queue'[j] = "unsent" => queue[j] = "unsent"
  BY <1>2 DEF FailAttempt, WorkerCrash, TypeOK
<1>3. ASSUME NEW w \in Workers, WorkerStep(w)
      PROVE  \A j \in Job : queue'[j] = "unsent" => queue[j] = "unsent"
  <2>1. CASE \E j \in Job : Start(w, j)
    BY <2>1 DEF Start, TypeOK
  <2>2. CASE Acknowledge(w)
    BY <2>2 DEF Acknowledge, TypeOK
  <2>3. CASE UpsertLoanRefused(w) \/ DeadlockAbort(w)
    BY <1>2, <2>3 DEF UpsertLoanRefused, DeadlockAbort
  <2>4. CASE SelectLoan(w) \/ UpsertLoan(w) \/ UpsertSubscriberFirst(w)
             \/ UpsertSubscriberReplay(w) \/ FeatureRowIssued(w) \/ CommitLoan(w)
             \/ SnapshotLoan(w) \/ InsertRecovery(w) \/ ItemUnknownLoan(w)
             \/ ItemAlreadyRecovered(w) \/ ItemRecover(w) \/ CreditFeature(w) \/ Recompute(w)
             \/ CommitRecovery(w)
    BY <2>4 DEF SelectLoan, UpsertLoan, UpsertSubscriberFirst, UpsertSubscriberReplay,
       FeatureRowIssued, CommitLoan, SnapshotLoan, InsertRecovery, ItemUnknownLoan,
       ItemAlreadyRecovered, ItemRecover, CreditFeature, Recompute, CommitRecovery, StepUnchanged
  <2>5. QED BY <1>3, <2>1, <2>2, <2>3, <2>4 DEF WorkerStep
<1>4. CASE Fault
  BY <1>2, <1>4 DEF Fault, StatementError
<1>5. CASE Webhook
  BY <1>5 DEF Webhook, AirtelLoan, InternalLoan, AirtelRecovery, InternalRecovery, SendRecovery,
     Enqueue, TypeOK
<1>6. CASE (\E i \in Loans : Age(i)) \/ RunAging \/ Materialize \/ UNCHANGED vars
  BY <1>6 DEF Age, RunAging, Materialize, MaterializeBegin, MaterializeWrite, vars
<1>7. QED BY <1>3, <1>4, <1>5, <1>6 DEF Next, LiveNext

\* The job of a loan that was sent once is its first delivery, and one worker
\* at most is writing that loan.
LEMMA OneWriter ==
    ASSUME BaseInv, NEW w \in Workers, pc[w] \in LoanSteps, SentOnce(Key(w))
    PROVE  /\ job[w][3] = 1
           /\ \A v \in Workers \ {w} : pc[v] \in LoanSteps => Key(v) # Key(w)
<1>1. ASSUME NEW v \in Workers, pc[v] \in LoanSteps, Key(v) = Key(w)
      PROVE  job[v] \in LoanJob /\ job[v] = <<"loan", Key(w), 1>>
  <2>1. job[v] \in LoanJob /\ queue[job[v]] = "active"
    BY <1>1, LoanJobKey DEF BaseInv, JobOK, LoanSteps
  <2>2. job[v][3] = 1
    BY <1>1, <2>1 DEF SentOnce, Key
  <2>3. QED BY <1>1, <2>1, <2>2 DEF LoanJob, Key
<1>2. \A v \in Workers \ {w} : pc[v] \in LoanSteps => job[v] # job[w]
  BY DEF BaseInv, OneWorkerPerJob, LoanSteps
<1>3. QED BY <1>1, <1>2

\* What a step of worker w leaves to the others: their locals, the rows they
\* have locked and their locks.
RowsGuarded(w) ==
    \A v \in Workers \ {w} :
        /\ pc'[v] = pc[v] /\ job'[v] = job[v] /\ prior'[v] = prior[v] /\ newly'[v] = newly[v]
        /\ \A l \in Loans : lockLoan[l] = v => lockLoan'[l] = v /\ loan'[l] = loan[l]

\* A transaction's own view differs from the table in rows it has locked, and
\* only a loan job adds a row: its own.
LEMMA ViewLocked ==
    ASSUME BaseInv, NEW w \in Workers, LoanLockOK(w), pc[w] \in LoanSteps \cup RecoverySteps,
           NEW l \in Loans
    PROVE  /\ View(w)[l] # loan[l] => lockLoan[l] = w
           /\ loan[l].status = "ABSENT" /\ View(w)[l].status # "ABSENT" =>
                 pc[w] \in Writing /\ l = Key(w)
           /\ loan[l].status # "ABSENT" => View(w)[l].status # "ABSENT"
<1>1. loan[l].status # "ABSENT" => View(w)[l].status # "ABSENT"
  BY ViewType
<1>2. QED BY <1>1 DEF View, LoanLockOK, Writing

\* A step of worker w keeps the invariant when it does so for w itself.
LEMMA OnceFrame ==
    ASSUME OnceInv, BaseInv', [Next]_vars, NEW w \in Workers, RowsGuarded(w), payload' = payload,
           LoanLockOK(w)', FirstReadOK(w)', TakenOK',
           \A l \in Loans : loan[l].status = "ABSENT" /\ loan'[l].status # "ABSENT" =>
               pc[w] \in Writing /\ l = Key(w)
    PROVE  OnceInv'
<1> SUFFICES ASSUME NEW v \in Workers, v # w
             PROVE  LoanLockOK(v)' /\ FirstReadOK(v)'
  BY DEF OnceInv
<1>1. /\ pc'[v] = pc[v] /\ job'[v] = job[v] /\ prior'[v] = prior[v] /\ newly'[v] = newly[v]
      /\ Key(v)' = Key(v)
      /\ \A l \in Loans : lockLoan[l] = v => lockLoan'[l] = v /\ loan'[l] = loan[l]
  BY DEF RowsGuarded, Key
<1>2. pc[v] \in Writing \cup {"upsertLoan"} => Key(v) \in Loans /\ pc[v] \in LoanSteps
  BY LoanJobKey DEF OnceInv, Writing, LoanSteps
<1>3. LoanLockOK(v)'
  <2>1. pc[v] \in Writing => lockLoan'[Key(v)] = v
    BY <1>1, <1>2 DEF OnceInv, LoanLockOK
  <2>2. newly[v] \subseteq Loans
    BY DEF OnceInv, BaseInv, TypeOK
  <2>3. QED BY <1>1, <2>1, <2>2 DEF OnceInv, LoanLockOK
<1>4. FirstReadOK(v)'
  <2>1. pc'[v] \in {"featureRow", "commitLoan"} => FirstIssue(v)'
    BY <1>1 DEF OnceInv, FirstReadOK, FirstIssue
  <2>2. ASSUME pc[v] \in Writing \cup {"upsertLoan"}, prior[v] = "ABSENT", SentOnce(Key(v))'
        PROVE  loan'[Key(v)].status = "ABSENT"
    <3>1. SentOnce(Key(v))
      BY <1>1, <2>2, SentStays DEF SentOnce, OnceInv, BaseInv
    <3>2. loan[Key(v)].status = "ABSENT"
      BY <2>2, <3>1 DEF OnceInv, FirstReadOK
    <3>3. ~(pc[w] \in Writing /\ Key(v) = Key(w))
      BY <1>2, <2>2, <3>1, OneWriter DEF OnceInv, Writing, LoanSteps
    <3>4. QED BY <1>2, <2>2, <3>2, <3>3
  <2>3. QED BY <1>1, <2>1, <2>2 DEF FirstReadOK
<1>5. QED BY <1>3, <1>4

\* Without a COMMIT the counters stay right.
LEMMA TakenFrame ==
    ASSUME OnceInv, [Next]_vars, loan' = loan, sub' = sub
    PROVE  TakenOK'
BY SentStays DEF OnceInv, BaseInv, TakenOK

\* Taking a free lock, or one's own again, leaves the locks of the others.
LEMMA LockTaken ==
    ASSUME TypeOK, NEW w \in Workers, NEW x,
           \/ lockLoan' = lockLoan
           \/ lockLoan[x] \in {None, w} /\ lockLoan' = [lockLoan EXCEPT ![x] = w]
    PROVE  \A v \in Workers \ {w}, l \in Loans : lockLoan[l] = v => lockLoan'[l] = v
BY ConstantsAssumption DEF TypeOK

\* The statements of a loan transaction before its COMMIT.
LEMMA LoanStatementsOnce ==
    ASSUME OnceInv, BaseInv', NEW w \in Workers, WorkerStep(w),
           SelectLoan(w) \/ UpsertLoan(w) \/ UpsertSubscriberFirst(w) \/ FeatureRowIssued(w)
    PROVE  OnceInv'
<1>0. /\ [Next]_vars /\ TypeOK /\ BaseInv /\ loan' = loan /\ sub' = sub /\ payload' = payload
      /\ job' = job /\ newly' = newly
  BY DEF Next, LiveNext, OnceInv, BaseInv, SelectLoan, UpsertLoan, UpsertSubscriberFirst,
     FeatureRowIssued, StepUnchanged, dbVars, envVars, txData
<1>1. Key(w) \in Loans /\ Key(w)' = Key(w) /\ pc[w] \in LoanSteps
  BY <1>0, LoanJobKey DEF SelectLoan, UpsertLoan, UpsertSubscriberFirst, FeatureRowIssued,
     LoanSteps, Key
<1>2. RowsGuarded(w)
  <2>1. \A v \in Workers \ {w} : pc'[v] = pc[v] /\ prior'[v] = prior[v]
    BY <1>0 DEF TypeOK, SelectLoan, UpsertLoan, UpsertSubscriberFirst, FeatureRowIssued, Goto,
       txData
  <2>2. \/ lockLoan' = lockLoan
        \/ lockLoan[Key(w)] \in {None, w} /\ lockLoan' = [lockLoan EXCEPT ![Key(w)] = w]
    BY DEF SelectLoan, UpsertLoan, UpsertSubscriberFirst, FeatureRowIssued, Available
  <2>3. QED BY <1>0, <2>1, <2>2, LockTaken DEF RowsGuarded
<1>3. pc'[w] \in Writing \cup {"upsertLoan"}
  BY <1>0 DEF TypeOK, SelectLoan, UpsertLoan, UpsertSubscriberFirst, FeatureRowIssued, Goto,
     Writing
<1>4. LoanLockOK(w)'
  <2>1. pc'[w] \in Writing => lockLoan'[Key(w)] = w
    BY <1>0, <1>1 DEF OnceInv, LoanLockOK, TypeOK, SelectLoan, UpsertLoan, UpsertSubscriberFirst,
       FeatureRowIssued, Goto, Writing
  <2>2. QED BY <1>1, <1>3, <2>1 DEF LoanLockOK, Writing, RecoverySteps
<1>5. FirstReadOK(w)'
  <2>1. CASE SelectLoan(w)
    BY <1>0, <1>1, <2>1 DEF FirstReadOK, SelectLoan, TypeOK, Goto
  <2>2. CASE ~SelectLoan(w)
    <3>1. prior' = prior /\ pc[w] \in Writing \cup {"upsertLoan"}
          /\ (pc'[w] \in {"featureRow", "commitLoan"} => FirstIssue(w))
      BY <1>0, <2>2 DEF UpsertLoan, UpsertSubscriberFirst, FeatureRowIssued, Goto, txData, TypeOK,
         Writing, OnceInv, FirstReadOK
    <3>2. SentOnce(Key(w))' => SentOnce(Key(w))
      BY <1>0, <1>1, SentStays DEF SentOnce
    <3>3. (FirstIssue(w) <=> FirstIssue(w)')
      BY <1>0, <3>1 DEF FirstIssue
    <3>4. QED BY <1>0, <1>1, <3>1, <3>2, <3>3 DEF OnceInv, FirstReadOK
  <2>3. QED BY <2>1, <2>2
<1>6. QED BY <1>0, <1>2, <1>4, <1>5, TakenFrame, OnceFrame

\* The statements of a recovery transaction before its COMMIT.
LEMMA RecoveryStatementsOnce ==
    ASSUME OnceInv, BaseInv', NEW w \in Workers, WorkerStep(w),
           InsertRecovery(w) \/ ItemUnknownLoan(w) \/ ItemAlreadyRecovered(w) \/ ItemRecover(w)
           \/ CreditFeature(w) \/ Recompute(w)
    PROVE  OnceInv'
<1>0. /\ [Next]_vars /\ TypeOK /\ BaseInv /\ loan' = loan /\ sub' = sub /\ payload' = payload
      /\ job' = job
  BY DEF Next, LiveNext, OnceInv, BaseInv, InsertRecovery, ItemUnknownLoan, ItemAlreadyRecovered,
     ItemRecover, CreditFeature, Recompute, StepUnchanged, dbVars, envVars
<1>1. pc[w] \in RecoverySteps /\ pc'[w] \in RecoverySteps
  BY <1>0 DEF TypeOK, InsertRecovery, ItemUnknownLoan, ItemAlreadyRecovered, ItemRecover,
     CreditFeature, Recompute, MoreItems, Goto, RecoverySteps
<1>2. RowsGuarded(w)
  <2>1. \A v \in Workers \ {w} :
           pc'[v] = pc[v] /\ prior'[v] = prior[v] /\ newly'[v] = newly[v]
    BY <1>0 DEF TypeOK, InsertRecovery, ItemUnknownLoan, ItemAlreadyRecovered, ItemRecover,
       CreditFeature, Recompute, Goto
  <2>2. \/ lockLoan' = lockLoan
        \/ lockLoan[Item(w)] \in {None, w} /\ lockLoan' = [lockLoan EXCEPT ![Item(w)] = w]
    BY DEF InsertRecovery, ItemUnknownLoan, ItemAlreadyRecovered, ItemRecover, CreditFeature,
       Recompute, locks, Available
  <2>3. QED BY <1>0, <2>1, <2>2, LockTaken DEF RowsGuarded
<1>3. LoanLockOK(w)'
  <2>1. \A l \in newly'[w] : lockLoan'[l] = w /\ loan'[l].status \notin {"ABSENT", "RECOVERED"}
    <3>1. CASE InsertRecovery(w) \/ ItemUnknownLoan(w) \/ CreditFeature(w) \/ Recompute(w)
      BY <1>0, <1>1, <3>1 DEF OnceInv, LoanLockOK, InsertRecovery, ItemUnknownLoan, CreditFeature,
         Recompute, locks
    <3>2. CASE ItemAlreadyRecovered(w)
      BY <1>0, <1>1, <3>2 DEF OnceInv, LoanLockOK, ItemAlreadyRecovered, TypeOK
    <3>3. CASE ItemRecover(w)
      <4>1. /\ newly'[w] = newly[w] \cup {Item(w)}
            /\ lockLoan' = [lockLoan EXCEPT ![Item(w)] = w]
            /\ View(w)[Item(w)].status \notin {"ABSENT", "RECOVERED"}
            /\ Item(w) \in Loans /\ newly[w] \subseteq Loans
        <5>1. Item(w) \in Loans
          <6>1. Key(w) \in Recoveries /\ pos[w] \in 1..Len(Items[Key(w)])
            BY <1>0, <1>1, <3>3, RecoveryJobKey DEF ItemRecover, MoreItems, BaseInv, TypeOK, JobOK
          <6>2. QED BY <6>1, ConstantsAssumption DEF Item
        <5>2. QED BY <1>0, <3>3, <5>1 DEF ItemRecover, TypeOK
      <4>2. Item(w) \in newly[w] \/ View(w)[Item(w)] = loan[Item(w)]
        BY <1>1, <4>1 DEF View, RecoverySteps
      <4>3. QED BY <1>0, <1>1, <4>1, <4>2 DEF OnceInv, LoanLockOK, TypeOK
    <3>4. QED BY <3>1, <3>2, <3>3
  <2>2. QED BY <1>1, <2>1 DEF LoanLockOK, Writing, RecoverySteps
<1>4. FirstReadOK(w)'
  BY <1>1 DEF FirstReadOK, Writing, RecoverySteps
<1>5. QED BY <1>0, <1>2, <1>3, <1>4, TakenFrame, OnceFrame

\* Taking a job, ending one and losing one.
LEMMA JobStepsOnce ==
    ASSUME OnceInv, BaseInv', [Next]_vars, NEW w \in Workers,
           \/ \E j \in Job : Start(w, j)
           \/ SnapshotLoan(w) \/ Acknowledge(w) \/ UpsertLoanRefused(w) \/ DeadlockAbort(w)
           \/ StatementError(w) \/ WorkerCrash(w)
    PROVE  OnceInv'
<1>0. TypeOK /\ BaseInv /\ loan' = loan /\ sub' = sub /\ payload' = payload
  BY DEF OnceInv, BaseInv, Start, SnapshotLoan, Acknowledge, UpsertLoanRefused, DeadlockAbort,
     StatementError, WorkerCrash, FailAttempt, dbVars, envVars
<1>1. RowsGuarded(w)
  <2>1. CASE (\E j \in Job : Start(w, j)) \/ SnapshotLoan(w) \/ Acknowledge(w)
    BY <1>0, <2>1 DEF RowsGuarded, TypeOK, Start, SnapshotLoan, Acknowledge, Goto, EndJob, locks,
       txData
  <2>2. CASE UpsertLoanRefused(w) \/ DeadlockAbort(w) \/ StatementError(w) \/ WorkerCrash(w)
    <3>1. EndJob(w) /\ ReleaseLocks(w)
      BY <2>2 DEF UpsertLoanRefused, DeadlockAbort, StatementError, WorkerCrash, FailAttempt
    <3>2. QED
      BY <1>0, <3>1 DEF RowsGuarded, TypeOK, EndJob, Goto, ReleaseLocks, Freed
  <2>3. QED BY <2>1, <2>2
<1>2. pc'[w] \in {"idle", "selectLoan", "insertRecovery", "ack"}
  BY <1>0 DEF TypeOK, Start, SnapshotLoan, Acknowledge, UpsertLoanRefused, DeadlockAbort,
     StatementError, WorkerCrash, FailAttempt, EndJob, Goto
<1>3. LoanLockOK(w)'
  <2>1. pc'[w] = "insertRecovery" => newly'[w] = {}
    BY <1>2 DEF BaseInv, CreditOK
  <2>2. QED BY <1>2, <2>1 DEF LoanLockOK, Writing, RecoverySteps
<1>4. FirstReadOK(w)'
  BY <1>2 DEF FirstReadOK, Writing
<1>5. QED BY <1>0, <1>1, <1>3, <1>4, TakenFrame, OnceFrame

\* The COMMIT of worker w: what the other transactions hold is not touched.
LEMMA CommitGuards ==
    ASSUME OnceInv, NEW w \in Workers,
           CommitLoan(w) \/ UpsertSubscriberReplay(w) \/ CommitRecovery(w)
    PROVE  /\ RowsGuarded(w) /\ payload' = payload /\ pc'[w] \in AfterCommit
           /\ LoanLockOK(w)' /\ FirstReadOK(w)' /\ LoansStay
           /\ \A l \in Loans : loan[l].status = "ABSENT" /\ loan'[l].status # "ABSENT" =>
                 pc[w] \in Writing /\ l = Key(w)
<1>0. /\ TypeOK /\ BaseInv /\ LoanLockOK(w) /\ loan' = View(w) /\ ReleaseLocks(w)
      /\ payload' = payload /\ txData' = txData
      /\ pc[w] \in LoanSteps \cup RecoverySteps /\ pc'[w] \in AfterCommit
      /\ \A v \in Workers \ {w} : pc'[v] = pc[v]
  BY DEF OnceInv, BaseInv, TypeOK, CommitLoan, UpsertSubscriberReplay, CommitRecovery,
     StepUnchanged, envVars, Goto, AfterLoanCommit, AfterCommit, LoanSteps, RecoverySteps
<1>1. RowsGuarded(w)
  <2>1. \A l \in Loans, v \in Workers \ {w} : lockLoan[l] = v => lockLoan'[l] = v
    BY <1>0 DEF ReleaseLocks, Freed, TypeOK
  <2>2. QED BY <1>0, <2>1, ViewLocked DEF RowsGuarded, txData
<1>2. LoanLockOK(w)' /\ FirstReadOK(w)'
  BY <1>0 DEF LoanLockOK, FirstReadOK, Writing, RecoverySteps, AfterCommit
<1>3. QED BY <1>0, <1>1, <1>2, ViewLocked DEF LoansStay

\* The COMMIT of a first delivery counts a loan that was not counted.
LEMMA CommitLoanOnce ==
    ASSUME OnceInv, BaseInv', NEW w \in Workers, WorkerStep(w), CommitLoan(w)
    PROVE  OnceInv'
<1> DEFINE l == Key(w)
           s == Msisdn(w)
<1>0. [Next]_vars /\ TypeOK /\ BaseInv
  BY DEF Next, LiveNext, OnceInv, BaseInv
<1>1. l \in Loans /\ s \in Subscribers /\ pc[w] = "commitLoan" /\ pc[w] \in LoanSteps
  BY <1>0, LoanJobKey DEF CommitLoan, LoanSteps
<1>2. loan'[l].status # "ABSENT"
  BY <1>0, <1>1, ViewType DEF CommitLoan
<1>3. SentOnce(l) => loan[l].status = "ABSENT"
  BY <1>1 DEF OnceInv, FirstReadOK, FirstIssue, Writing
<1>4. \A x \in Subscribers, k \in Loans : sub'[x].taken[k] =
         sub[x].taken[k] + (IF x = s /\ k = l THEN 1 ELSE 0)
  <2>1. sub[s].taken \in [Loans -> Nat] /\ \A x \in Subscribers : sub[x].taken \in [Loans -> Nat]
    BY <1>0, <1>1 DEF TypeOK, SubscriberRow
  <2>2. sub' = [sub EXCEPT ![s] = CountTaken(sub[s], l, issuedSum[w])]
    BY DEF CommitLoan
  <2>3. \A x \in Subscribers : sub'[x] = IF x = s THEN CountTaken(sub[s], l, issuedSum[w]) ELSE sub[x]
    BY <1>0, <1>1, <2>2 DEF TypeOK
  <2>4. \A k \in Loans : CountTaken(sub[s], l, issuedSum[w]).taken[k] =
                           sub[s].taken[k] + (IF k = l THEN 1 ELSE 0)
    BY DEF CountTaken, Bump
  <2> HIDE DEF l, s
  <2>5. \A x \in Subscribers, k \in Loans : sub[x].taken[k] + 0 = sub[x].taken[k]
    BY <2>1
  <2>6. QED BY <1>1, <2>3, <2>4, <2>5
<1>5. TakenOK'
  <2> SUFFICES ASSUME NEW k \in Loans, SentOnce(k)', NEW x \in Subscribers
               PROVE  sub'[x].taken[k] <= (IF loan'[k].status = "ABSENT" THEN 0 ELSE 1)
    BY DEF TakenOK
  <2>1. SentOnce(k)
    BY <1>0, SentStays
  <2>2. sub[x].taken[k] \in Nat
    BY <1>0 DEF TypeOK, SubscriberRow
  <2>3. sub[x].taken[k] <= (IF loan[k].status = "ABSENT" THEN 0 ELSE 1)
    BY <2>1 DEF OnceInv, TakenOK
  <2>4. loan[k].status # "ABSENT" => loan'[k].status # "ABSENT"
    BY CommitGuards DEF LoansStay
  <2> HIDE DEF l, s
  <2>5. QED BY <1>1, <1>2, <1>3, <1>4, <2>1, <2>2, <2>3, <2>4
<1>6. QED BY <1>0, <1>5, CommitGuards, OnceFrame

\* The other two COMMITs count no loan as taken.
LEMMA OtherCommitsOnce ==
    ASSUME OnceInv, BaseInv', NEW w \in Workers, WorkerStep(w),
           UpsertSubscriberReplay(w) \/ CommitRecovery(w)
    PROVE  OnceInv'
<1>0. [Next]_vars /\ TypeOK /\ BaseInv
  BY DEF Next, LiveNext, OnceInv, BaseInv
<1>1. Msisdn(w) \in Subscribers
  BY <1>0, LoanJobKey, RecoveryJobKey DEF UpsertSubscriberReplay, CommitRecovery, LoanSteps,
     RecoverySteps
<1>2. \A x \in Subscribers : sub'[x].taken = sub[x].taken
  <2>1. \E row : row.taken = sub[Msisdn(w)].taken /\ sub' = [sub EXCEPT ![Msisdn(w)] = row]
    BY DEF UpsertSubscriberReplay, CommitRecovery, SyncOutstanding, CountRecovered
  <2>2. QED BY <1>0, <1>1, <2>1 DEF TypeOK
<1>3. TakenOK'
  <2> SUFFICES ASSUME NEW k \in Loans, SentOnce(k)', NEW x \in Subscribers
               PROVE  sub'[x].taken[k] <= (IF loan'[k].status = "ABSENT" THEN 0 ELSE 1)
    BY DEF TakenOK
  <2>1. SentOnce(k) /\ sub[x].taken[k] \in Nat
    BY <1>0, SentStays DEF TypeOK, SubscriberRow
  <2>2. sub[x].taken[k] <= (IF loan[k].status = "ABSENT" THEN 0 ELSE 1)
    BY <2>1 DEF OnceInv, TakenOK
  <2>3. loan[k].status # "ABSENT" => loan'[k].status # "ABSENT"
    BY CommitGuards DEF LoansStay
  <2>4. QED BY <1>2, <2>1, <2>2, <2>3
<1>4. QED BY <1>0, <1>3, CommitGuards, OnceFrame

\* Steps of nobody's transaction: webhooks, time, aging, the recompute.
LEMMA SystemStepsOnce ==
    ASSUME OnceInv, BaseInv', [Next]_vars,
           \/ Webhook \/ (\E l \in Loans : Age(l)) \/ RunAging \/ Materialize \/ UNCHANGED vars
    PROVE  OnceInv'
<1>0. TypeOK /\ BaseInv
  BY DEF OnceInv, BaseInv
<1>1. /\ sub' = sub /\ pc' = pc /\ job' = job /\ prior' = prior /\ newly' = newly
      /\ lockLoan' = lockLoan
  BY DEF Webhook, AirtelLoan, InternalLoan, AirtelRecovery, InternalRecovery, SendRecovery,
     Enqueue, Age, RunAging, Materialize, MaterializeBegin, MaterializeWrite, vars, dbVars,
     txVars, txData, locks
<1>2. \A l \in Loans : /\ lockLoan[l] \in Workers => loan'[l] = loan[l]
                       /\ loan'[l].status = "ABSENT" <=> loan[l].status = "ABSENT"
  <2>1. CASE RunAging
    <3>1. \A l \in Loans : lockLoan[l] # None => l \notin Overdue \cup Converging
      BY <2>1 DEF RunAging
    <3>2. \A l \in Loans : l \notin Overdue \cup Converging => loan'[l] = loan[l]
      BY <2>1 DEF RunAging
    <3>3. \A l \in Loans : loan'[l].status = "ABSENT" <=> loan[l].status = "ABSENT"
      BY <1>0, <2>1 DEF RunAging, Overdue, Converging, TypeOK, LoanRow
    <3>4. QED BY <3>1, <3>2, <3>3, ConstantsAssumption
  <2>2. CASE ~RunAging
    <3>1. loan' = loan
      BY <2>2 DEF Webhook, AirtelLoan, InternalLoan, AirtelRecovery, InternalRecovery,
         SendRecovery, Enqueue, Age, Materialize, MaterializeBegin, MaterializeWrite, vars, dbVars
    <3>2. QED BY <3>1
  <2>3. QED BY <2>1, <2>2
<1>3. \A j \in LoanJob : queue[j] = "active" => payload'[j] = payload[j]
  <2>1. CASE \E j \in LoanJob : AirtelLoan(j) \/ InternalLoan(j)
    BY <1>0, <2>1 DEF AirtelLoan, InternalLoan, Enqueue, Sendable, TypeOK
  <2>2. CASE ~(\E j \in LoanJob : AirtelLoan(j) \/ InternalLoan(j))
    BY <2>2 DEF Webhook, AirtelRecovery, InternalRecovery, SendRecovery, Enqueue, Age,
       RunAging, Materialize, MaterializeBegin, MaterializeWrite, vars, envVars
  <2>3. QED BY <2>1, <2>2
<1>4. TakenOK'
  <2> SUFFICES ASSUME NEW k \in Loans, SentOnce(k)', NEW x \in Subscribers
               PROVE  sub'[x].taken[k] <= (IF loan'[k].status = "ABSENT" THEN 0 ELSE 1)
    BY DEF TakenOK
  <2>1. SentOnce(k)
    BY <1>0, SentStays
  <2>2. QED BY <1>1, <1>2, <2>1 DEF OnceInv, TakenOK
<1>5. ASSUME NEW v \in Workers
      PROVE  LoanLockOK(v)' /\ FirstReadOK(v)'
  <2>1. pc[v] \in LoanSteps => Key(v) \in Loans /\ job[v] \in LoanJob /\ queue[job[v]] = "active"
    BY <1>0, LoanJobKey DEF BaseInv, JobOK, LoanSteps
  <2>2. Key(v)' = Key(v) /\ newly[v] \subseteq Loans
    BY <1>0, <1>1 DEF Key, TypeOK
  <2>3. LoanLockOK(v)'
    BY <1>1, <1>2, <2>2 DEF OnceInv, LoanLockOK
  <2>4. pc[v] \in {"featureRow", "commitLoan"} => FirstIssue(v)'
    BY <1>1, <1>3, <2>1 DEF OnceInv, FirstReadOK, FirstIssue, LoanSteps
  <2>5. pc[v] \in LoanSteps /\ SentOnce(Key(v))' => SentOnce(Key(v))
    BY <1>0, <2>1, <2>2, SentStays DEF SentOnce
  <2>6. QED
    BY <1>1, <1>2, <2>1, <2>2, <2>3, <2>4, <2>5 DEF OnceInv, FirstReadOK, Writing, LoanSteps
<1>6. QED BY <1>4, <1>5 DEF OnceInv

\* Every step preserves the invariant.
LEMMA OnceInvStep ==
    ASSUME OnceInv, [Next]_vars
    PROVE  OnceInv'
<1>1. BaseInv'
  BY BaseInvStep DEF OnceInv
<1>2. ASSUME NEW w \in Workers, WorkerStep(w)
      PROVE  OnceInv'
  <2>1. CASE \/ \E j \in Job : Start(w, j)
             \/ SnapshotLoan(w) \/ Acknowledge(w) \/ UpsertLoanRefused(w) \/ DeadlockAbort(w)
    BY <1>1, <2>1, JobStepsOnce
  <2>2. QED
    BY <1>1, <1>2, <2>1, LoanStatementsOnce, RecoveryStatementsOnce, CommitLoanOnce,
       OtherCommitsOnce DEF WorkerStep
<1>3. CASE Fault
  BY <1>1, <1>3, JobStepsOnce DEF Fault
<1>4. CASE Webhook \/ (\E l \in Loans : Age(l)) \/ RunAging \/ Materialize \/ UNCHANGED vars
  BY <1>1, <1>4, SystemStepsOnce
<1>5. QED BY <1>2, <1>3, <1>4 DEF Next, LiveNext

LEMMA OnceInvInit ==
    ASSUME Init
    PROVE  OnceInv
<1>1. BaseInv
  BY BaseInvInit
<1>2. \A w \in Workers : LoanLockOK(w) /\ FirstReadOK(w)
  BY DEF Init, LoanLockOK, FirstReadOK, Writing, RecoverySteps
<1>3. TakenOK
  BY DEF Init, TakenOK, Zero
<1>4. QED BY <1>1, <1>2, <1>3 DEF OnceInv

\* A loan whose fulfilment webhook arrived once is counted as taken at most
\* once, whatever is retried, aborted or redelivered elsewhere.
THEOREM SentOnceIsCountedOnce == Spec => []TakenOK
<1>1. OnceInv => TakenOK
  BY DEF OnceInv
<1>2. QED BY <1>1, OnceInvInit, OnceInvStep, PTL DEF Spec

\* Where every fulfilment is delivered once, no loan is counted twice.
THEOREM TakenAtMostOnce ==
    ASSUME LoanDeliveries = 1
    PROVE  Spec => []TakenOnce
<1>1. OnceInv => TakenOnce
  <2>1. \A l \in Loans : SentOnce(l)
    BY DEF SentOnce, LoanJob
  <2>2. OnceInv => \A s \in Subscribers, l \in Loans : sub[s].taken[l] \in Nat
    BY DEF OnceInv, BaseInv, TypeOK, SubscriberRow
  <2>3. QED BY <2>1, <2>2 DEF OnceInv, TakenOK, TakenOnce
<1>2. QED BY <1>1, OnceInvInit, OnceInvStep, PTL DEF Spec

-----------------------------------------------------------------------------
(* A repaid loan stays repaid and is counted as repaid once                *)

\* A process dies between the COMMIT of a loan job and its acknowledgement:
\* BullMQ will run the job again, and it writes the loan once more.
LateCrash == \E w \in Workers : job[w] \in LoanJob /\ pc[w] \in AfterCommit /\ WorkerCrash(w)

\* A loan that was sent once and has its row: its job will not run again.
WrittenOK(l) ==
    SentOnce(l) /\ loan[l].status # "ABSENT" =>
        /\ \A j \in LoanJob : j[2] = l /\ j[3] = 1 => queue[j] \notin {"unsent", "waiting"}
        /\ \A w \in Workers : pc[w] \in LoanSteps => Key(w) # l

\* Only a RECOVERED loan is counted as recovered, and once.
RecoveredOK ==
    \A l \in Loans : SentOnce(l) =>
        \A s \in Subscribers :
            sub[s].recovered[l] <= (IF loan[l].status = "RECOVERED" THEN 1 ELSE 0)

SettledInv ==
    /\ OnceInv
    /\ \A l \in Loans : WrittenOK(l)
    /\ RecoveredOK

\* A worker whose attempt fails without a late crash is inside its transaction.
LEMMA FailsInTx ==
    ASSUME BaseInv, NEW w \in Workers, job[w] \in LoanJob, ~LateCrash,
           UpsertLoanRefused(w) \/ DeadlockAbort(w) \/ StatementError(w) \/ WorkerCrash(w)
    PROVE  pc[w] \in LoanSteps
<1>1. pc[w] \notin RecoverySteps
  BY DEF BaseInv, JobOK, LoanJob, RecoveryJob
<1>2. pc[w] # "idle" /\ pc[w] \notin AfterCommit
  <2>1. CASE DeadlockAbort(w)
    <3>1. WaitsFor(w) # None
      BY <2>1, ConstantsAssumption DEF DeadlockAbort
    <3>2. pc[w] = "idle" \/ pc[w] \in AfterCommit => WaitsFor(w) = None
      BY DEF WaitsFor, MoreItems, AfterCommit
    <3>3. QED BY <3>1, <3>2
  <2>2. CASE UpsertLoanRefused(w)
    BY <2>2 DEF UpsertLoanRefused, AfterCommit
  <2>3. CASE StatementError(w)
    BY <2>3 DEF StatementError, InTx, AfterCommit, LoanSteps, RecoverySteps
  <2>4. CASE WorkerCrash(w)
    BY <2>4 DEF WorkerCrash, MayFault, LateCrash
  <2>5. QED BY <2>1, <2>2, <2>3, <2>4
<1>3. QED BY <1>1, <1>2 DEF BaseInv, TypeOK, Step

\* A step that takes no job, ends none and adds no loan keeps the written ones.
LEMMA WrittenFrame ==
    ASSUME SettledInv, [Next]_vars, NEW l \in Loans, SentOnce(l)', loan[l].status # "ABSENT",
           \A j \in LoanJob : queue'[j] \in {"unsent", "waiting"} =>
               queue[j] \in {"unsent", "waiting"},
           \A w \in Workers : pc'[w] \in LoanSteps /\ Key(w)' = l =>
               pc[w] \in LoanSteps /\ Key(w) = l
    PROVE  WrittenOK(l)'
<1>1. SentOnce(l) /\ WrittenOK(l)
  BY SentStays DEF SettledInv, OnceInv, BaseInv
<1>2. QED BY <1>1 DEF WrittenOK

\* A worker's step keeps a written loan written.
LEMMA WrittenWorkerStep ==
    ASSUME SettledInv, [Next]_vars, ~LateCrash, NEW w \in Workers,
           WorkerStep(w) \/ StatementError(w) \/ WorkerCrash(w),
           NEW l \in Loans, SentOnce(l)', loan[l].status # "ABSENT"
    PROVE  WrittenOK(l)'
<1>0. TypeOK /\ BaseInv /\ SentOnce(l) /\ WrittenOK(l)
  BY SentStays DEF SettledInv, OnceInv, BaseInv
<1>1. CASE \E j \in Job : Start(w, j)
  <2>1. PICK i \in Job : Start(w, i)
    BY <1>1
  <2>2. i \in LoanJob => i[2] # l
    <3>1. queue[i] = "waiting"
      BY <2>1 DEF Start
    <3>2. QED BY <1>0, <3>1 DEF SentOnce, WrittenOK
  <2>3. \A j \in LoanJob : queue'[j] \in {"unsent", "waiting"} => queue[j] \in {"unsent", "waiting"}
    BY <1>0, <2>1 DEF Start, TypeOK, Job
  <2>4. pc'[w] \in LoanSteps => i \in LoanJob
    BY <1>0, <2>1 DEF Start, TypeOK, Goto, LoanSteps, Job, LoanJob, RecoveryJob
  <2>5. job'[w] = i /\ \A v \in Workers \ {w} : pc'[v] = pc[v] /\ job'[v] = job[v]
    BY <1>0, <2>1 DEF Start, TypeOK, Goto
  <2>6. \A v \in Workers : pc'[v] \in LoanSteps /\ Key(v)' = l => pc[v] \in LoanSteps /\ Key(v) = l
    BY <2>2, <2>4, <2>5 DEF Key
  <2>7. QED BY <2>3, <2>6, WrittenFrame
<1>2. CASE UpsertLoanRefused(w) \/ DeadlockAbort(w) \/ StatementError(w) \/ WorkerCrash(w)
  <2>1. \A j \in LoanJob : j[2] = l => queue'[j] = queue[j]
    <3>1. \A j \in Job : j # job[w] => queue'[j] = queue[j]
      BY <1>0, <1>2 DEF UpsertLoanRefused, DeadlockAbort, StatementError, WorkerCrash, FailAttempt,
         TypeOK
    <3>2. job[w] \in LoanJob => Key(w) # l
      BY <1>0, <1>2, FailsInTx DEF WrittenOK
    <3>3. QED BY <3>1, <3>2 DEF Job, Key
  <2>2. EndJob(w)
    BY <1>2 DEF UpsertLoanRefused, DeadlockAbort, StatementError, WorkerCrash, FailAttempt
  <2>3. \A v \in Workers : pc'[v] \in LoanSteps => v # w /\ pc'[v] = pc[v] /\ job'[v] = job[v]
    BY <1>0, <2>2 DEF EndJob, Goto, TypeOK, LoanSteps
  <2>4. QED BY <1>0, <2>1, <2>3 DEF WrittenOK, Key
<1>3. CASE Acknowledge(w)
  <2>1. \A j \in LoanJob : queue'[j] \in {"unsent", "waiting"} => queue[j] \in {"unsent", "waiting"}
    BY <1>0, <1>3 DEF Acknowledge, TypeOK, Job
  <2>2. \A v \in Workers : pc'[v] \in LoanSteps => v # w /\ pc'[v] = pc[v] /\ job'[v] = job[v]
    BY <1>0, <1>3 DEF Acknowledge, EndJob, Goto, TypeOK, LoanSteps
  <2>3. QED BY <2>1, <2>2, WrittenFrame DEF Key
<1>4. CASE SelectLoan(w) \/ UpsertLoan(w) \/ UpsertSubscriberFirst(w)
           \/ UpsertSubscriberReplay(w) \/ FeatureRowIssued(w) \/ CommitLoan(w)
           \/ SnapshotLoan(w) \/ InsertRecovery(w) \/ ItemUnknownLoan(w)
           \/ ItemAlreadyRecovered(w) \/ ItemRecover(w) \/ CreditFeature(w) \/ Recompute(w)
           \/ CommitRecovery(w)
  <2>1. queue' = queue /\ job' = job
    BY <1>4 DEF SelectLoan, UpsertLoan, UpsertSubscriberFirst, UpsertSubscriberReplay,
       FeatureRowIssued, CommitLoan, SnapshotLoan, InsertRecovery, ItemUnknownLoan,
       ItemAlreadyRecovered, ItemRecover, CreditFeature, Recompute, CommitRecovery, StepUnchanged,
       txData
  <2>2. \A v \in Workers : pc'[v] \in LoanSteps => pc[v] \in LoanSteps
    <3>1. \A v \in Workers \ {w} : pc'[v] = pc[v]
      BY <1>0, <1>4 DEF SelectLoan, UpsertLoan, UpsertSubscriberFirst, UpsertSubscriberReplay,
         FeatureRowIssued, CommitLoan, SnapshotLoan, InsertRecovery, ItemUnknownLoan,
         ItemAlreadyRecovered, ItemRecover, CreditFeature, Recompute, CommitRecovery, Goto, TypeOK
    <3>2. pc[w] \in LoanSteps \/ pc'[w] \notin LoanSteps
      BY <1>0, <1>4 DEF SelectLoan, UpsertLoan, UpsertSubscriberFirst, UpsertSubscriberReplay,
         FeatureRowIssued, CommitLoan, SnapshotLoan, InsertRecovery, ItemUnknownLoan,
         ItemAlreadyRecovered, ItemRecover, CreditFeature, Recompute, CommitRecovery, MoreItems,
         Goto, TypeOK, LoanSteps
    <3>3. QED BY <3>1, <3>2
  <2>3. QED BY <2>1, <2>2, WrittenFrame DEF Key
<1>5. QED BY <1>1, <1>2, <1>3, <1>4 DEF WorkerStep

\* Every step keeps a written loan written.
LEMMA WrittenStep ==
    ASSUME SettledInv, [Next]_vars, ~LateCrash, NEW l \in Loans, SentOnce(l)',
           loan[l].status # "ABSENT"
    PROVE  WrittenOK(l)'
<1>0. TypeOK
  BY DEF SettledInv, OnceInv, BaseInv
<1>1. CASE (\E w \in Workers : WorkerStep(w)) \/ Fault
  BY <1>1, WrittenWorkerStep DEF Fault
<1>2. CASE Webhook \/ (\E i \in Loans : Age(i)) \/ RunAging \/ Materialize \/ UNCHANGED vars
  <2>1. pc' = pc /\ job' = job
    BY <1>2 DEF Webhook, AirtelLoan, InternalLoan, AirtelRecovery, InternalRecovery, SendRecovery,
       Enqueue, Age, RunAging, Materialize, MaterializeBegin, MaterializeWrite, vars, txVars, txData
  <2>2. \A j \in LoanJob : queue'[j] \in {"unsent", "waiting"} => queue[j] \in {"unsent", "waiting"}
    <3>1. CASE Webhook
      BY <1>0, <3>1 DEF Webhook, AirtelLoan, InternalLoan, AirtelRecovery, InternalRecovery,
         SendRecovery, Enqueue, Sendable, TypeOK, Job
    <3>2. CASE ~Webhook
      BY <1>2, <3>2 DEF Age, RunAging, Materialize, MaterializeBegin, MaterializeWrite, vars
    <3>3. QED BY <3>1, <3>2
  <2>3. QED BY <2>1, <2>2, WrittenFrame DEF Key
<1>3. QED BY <1>1, <1>2 DEF Next, LiveNext

\* A row that appears was written by the job of its only webhook, which has
\* committed.
LEMMA NewRowStep ==
    ASSUME SettledInv, [Next]_vars, NEW l \in Loans, SentOnce(l)', loan[l].status = "ABSENT",
           loan'[l].status # "ABSENT"
    PROVE  WrittenOK(l)'
<1>0. TypeOK /\ BaseInv /\ OnceInv /\ SentOnce(l)
  BY SentStays DEF SettledInv, OnceInv, BaseInv
<1>1. PICK w \in Workers : CommitLoan(w) \/ UpsertSubscriberReplay(w) \/ CommitRecovery(w)
  <2>1. ~(Webhook \/ (\E i \in Loans : Age(i)) \/ RunAging \/ Materialize \/ UNCHANGED vars)
    BY <1>0 DEF Webhook, AirtelLoan, InternalLoan, AirtelRecovery, InternalRecovery, SendRecovery,
       Enqueue, Age, RunAging, Overdue, Converging, Materialize, MaterializeBegin,
       MaterializeWrite, vars, dbVars, TypeOK, LoanRow
  <2>2. ~Fault
    BY DEF Fault, StatementError, WorkerCrash, FailAttempt, dbVars
  <2>3. PICK w \in Workers : WorkerStep(w)
    BY <2>1, <2>2 DEF Next, LiveNext
  <2>4. CASE \/ \E j \in Job : Start(w, j)
             \/ SelectLoan(w) \/ UpsertLoan(w) \/ UpsertLoanRefused(w) \/ UpsertSubscriberFirst(w)
             \/ FeatureRowIssued(w) \/ SnapshotLoan(w) \/ Acknowledge(w) \/ InsertRecovery(w)
             \/ ItemUnknownLoan(w) \/ ItemAlreadyRecovered(w) \/ ItemRecover(w)
             \/ CreditFeature(w) \/ Recompute(w) \/ DeadlockAbort(w)
    BY <2>4 DEF Start, SelectLoan, UpsertLoan, UpsertLoanRefused, UpsertSubscriberFirst,
       FeatureRowIssued, SnapshotLoan, Acknowledge, InsertRecovery, ItemUnknownLoan,
       ItemAlreadyRecovered, ItemRecover, CreditFeature, Recompute, DeadlockAbort, FailAttempt,
       dbVars
  <2>5. QED BY <2>3, <2>4 DEF WorkerStep
<1>2. pc[w] \in Writing /\ l = Key(w) /\ pc'[w] \in AfterCommit /\ RowsGuarded(w)
  BY <1>0, <1>1, CommitGuards
<1>3. pc[w] \in LoanSteps /\ job[w] \in LoanJob /\ job[w][3] = 1 /\ queue[job[w]] = "active"
      /\ \A v \in Workers \ {w} : pc[v] \in LoanSteps => Key(v) # l
  BY <1>0, <1>2, OneWriter, LoanJobKey DEF Writing, LoanSteps, BaseInv, JobOK
<1>4. queue' = queue /\ job' = job
  BY <1>1 DEF CommitLoan, UpsertSubscriberReplay, CommitRecovery, StepUnchanged, txData
<1>5. \A j \in LoanJob : j[2] = l /\ j[3] = 1 => j = job[w]
  BY <1>2, <1>3 DEF LoanJob, Key
<1>6. QED
  BY <1>2, <1>3, <1>4, <1>5 DEF WrittenOK, RowsGuarded, AfterCommit, LoanSteps, Key

\* A worker writing a loan that was sent once finds no row.
LEMMA FirstWrite ==
    ASSUME SettledInv, NEW w \in Workers, pc[w] \in LoanSteps, SentOnce(Key(w))
    PROVE  Key(w) \in Loans /\ loan[Key(w)].status = "ABSENT"
<1>1. Key(w) \in Loans
  BY LoanJobKey DEF SettledInv, OnceInv
<1>2. QED BY <1>1 DEF SettledInv, WrittenOK

\* A step rewrites no RECOVERED loan that was sent once.
LEMMA RecoveredStays ==
    ASSUME SettledInv, [Next]_vars, NEW l \in Loans, SentOnce(l),
           loan[l].status = "RECOVERED"
    PROVE  loan'[l].status = "RECOVERED"
<1>0. TypeOK /\ BaseInv
  BY DEF SettledInv, OnceInv, BaseInv
<1>1. ASSUME NEW w \in Workers, CommitLoan(w) \/ UpsertSubscriberReplay(w) \/ CommitRecovery(w)
      PROVE  loan'[l].status = "RECOVERED"
  <2>1. loan' = View(w) /\ pc[w] \in LoanSteps \cup RecoverySteps
    BY <1>1 DEF CommitLoan, UpsertSubscriberReplay, CommitRecovery, LoanSteps, RecoverySteps
  <2>2. pc[w] \in LoanSteps => l # Key(w)
    BY FirstWrite
  <2>3. View(w)[l] = loan[l] \/ View(w)[l].status = "RECOVERED"
    BY <2>1, <2>2 DEF View, LoanSteps, PaidRow
  <2>4. QED BY <2>1, <2>3
<1>2. CASE RunAging
  BY <1>0, <1>2 DEF RunAging, Overdue, Converging, TypeOK
<1>3. CASE loan' = loan
  BY <1>3
<1>4. CASE \E w \in Workers : WorkerStep(w)
  <2>1. PICK w \in Workers : WorkerStep(w)
    BY <1>4
  <2>2. CASE \/ \E j \in Job : Start(w, j)
             \/ SelectLoan(w) \/ UpsertLoan(w) \/ UpsertLoanRefused(w) \/ UpsertSubscriberFirst(w)
             \/ FeatureRowIssued(w) \/ SnapshotLoan(w) \/ Acknowledge(w) \/ InsertRecovery(w)
             \/ ItemUnknownLoan(w) \/ ItemAlreadyRecovered(w) \/ ItemRecover(w)
             \/ CreditFeature(w) \/ Recompute(w) \/ DeadlockAbort(w)
    BY <1>3, <2>2 DEF Start, SelectLoan, UpsertLoan, UpsertLoanRefused, UpsertSubscriberFirst,
       FeatureRowIssued, SnapshotLoan, Acknowledge, InsertRecovery, ItemUnknownLoan,
       ItemAlreadyRecovered, ItemRecover, CreditFeature, Recompute, DeadlockAbort, FailAttempt,
       dbVars
  <2>3. QED BY <1>1, <2>1, <2>2 DEF WorkerStep
<1>5. CASE Fault \/ Webhook \/ (\E i \in Loans : Age(i)) \/ Materialize \/ UNCHANGED vars
  BY <1>3, <1>5 DEF Fault, StatementError, WorkerCrash, FailAttempt, Webhook, AirtelLoan,
     InternalLoan, AirtelRecovery, InternalRecovery, SendRecovery, Enqueue, Age, Materialize,
     MaterializeBegin, MaterializeWrite, vars, dbVars
<1>6. QED BY <1>2, <1>4, <1>5 DEF Next, LiveNext

\* A recovery's COMMIT counts loans that are not counted as recovered and are
\* RECOVERED from then on.
LEMMA CommitRecoveryOnce ==
    ASSUME SettledInv, NEW w \in Workers, CommitRecovery(w), NEW l \in Loans, SentOnce(l),
           NEW s \in Subscribers
    PROVE  sub'[s].recovered[l] <= (IF loan'[l].status = "RECOVERED" THEN 1 ELSE 0)
<1>0. TypeOK /\ BaseInv /\ pc[w] = "countRecovered" /\ LoanLockOK(w)
  BY DEF SettledInv, OnceInv, BaseInv, CommitRecovery
<1>1. Msisdn(w) \in Subscribers /\ newly[w] \subseteq Loans
  BY <1>0, RecoveryJobKey DEF TypeOK, RecoverySteps
<1>2. sub[s].recovered \in [Loans -> Nat]
      /\ sub[s].recovered[l] <= (IF loan[l].status = "RECOVERED" THEN 1 ELSE 0)
  BY <1>0 DEF SettledInv, RecoveredOK, TypeOK, SubscriberRow
<1>3. sub'[s].recovered = sub[s].recovered \/ sub'[s].recovered = Bump(sub[s].recovered, newly[w])
  BY <1>0, <1>1 DEF CommitRecovery, CountRecovered, TypeOK
<1>4. l \notin newly[w] => loan'[l] = loan[l]
  BY <1>0 DEF CommitRecovery, View, RecoverySteps
<1>5. l \in newly[w] => loan'[l].status = "RECOVERED" /\ loan[l].status # "RECOVERED"
  BY <1>0 DEF CommitRecovery, View, RecoverySteps, PaidRow, LoanLockOK
<1>6. sub'[s].recovered[l] \in {sub[s].recovered[l],
                               sub[s].recovered[l] + (IF l \in newly[w] THEN 1 ELSE 0)}
  BY <1>3 DEF Bump
<1>7. sub[s].recovered[l] \in Nat
  BY <1>2
<1>8. CASE l \in newly[w]
  BY <1>2, <1>5, <1>6, <1>7, <1>8
<1>9. CASE l \notin newly[w]
  BY <1>2, <1>4, <1>6, <1>7, <1>9
<1>10. QED BY <1>8, <1>9

\* Every step preserves the invariant, unless a process dies late.
LEMMA RecoveredOKStep ==
    ASSUME SettledInv, [Next]_vars
    PROVE  RecoveredOK'
<1> SUFFICES ASSUME NEW l \in Loans, SentOnce(l)', NEW s \in Subscribers
             PROVE  sub'[s].recovered[l] <= (IF loan'[l].status = "RECOVERED" THEN 1 ELSE 0)
  BY DEF RecoveredOK
<1>0. TypeOK /\ BaseInv /\ SentOnce(l)
  BY SentStays DEF SettledInv, OnceInv, BaseInv
<1>1. CASE \E w \in Workers : CommitRecovery(w)
  BY <1>0, <1>1, CommitRecoveryOnce
<1>2. CASE ~(\E w \in Workers : CommitRecovery(w))
  <2>1. sub'[s].recovered = sub[s].recovered
    <3>1. ASSUME NEW w \in Workers, CommitLoan(w) \/ UpsertSubscriberReplay(w)
          PROVE  sub'[s].recovered = sub[s].recovered
      BY <1>0, <3>1 DEF CommitLoan, UpsertSubscriberReplay, TypeOK, CountTaken, SyncOutstanding
    <3>2. ASSUME NEW w \in Workers, WorkerStep(w)
          PROVE  sub'[s].recovered = sub[s].recovered
      <4>1. CASE \/ \E j \in Job : Start(w, j)
                 \/ SelectLoan(w) \/ UpsertLoan(w) \/ UpsertLoanRefused(w)
                 \/ UpsertSubscriberFirst(w) \/ FeatureRowIssued(w) \/ SnapshotLoan(w)
                 \/ Acknowledge(w) \/ InsertRecovery(w) \/ ItemUnknownLoan(w)
                 \/ ItemAlreadyRecovered(w) \/ ItemRecover(w) \/ CreditFeature(w) \/ Recompute(w)
                 \/ DeadlockAbort(w)
        BY <4>1 DEF Start, SelectLoan, UpsertLoan, UpsertLoanRefused, UpsertSubscriberFirst,
           FeatureRowIssued, SnapshotLoan, Acknowledge, InsertRecovery, ItemUnknownLoan,
           ItemAlreadyRecovered, ItemRecover, CreditFeature, Recompute, DeadlockAbort,
           FailAttempt, dbVars
      <4>2. QED BY <1>2, <3>1, <3>2, <4>1 DEF WorkerStep
    <3>3. CASE Fault \/ Webhook \/ (\E i \in Loans : Age(i)) \/ RunAging \/ Materialize
               \/ UNCHANGED vars
      BY <3>3 DEF Fault, StatementError, WorkerCrash, FailAttempt, Webhook, AirtelLoan,
         InternalLoan, AirtelRecovery, InternalRecovery, SendRecovery, Enqueue, Age, RunAging,
         Materialize, MaterializeBegin, MaterializeWrite, vars, dbVars
    <3>4. QED BY <3>2, <3>3 DEF Next, LiveNext
  <2>2. loan[l].status = "RECOVERED" => loan'[l].status = "RECOVERED"
    BY <1>0, RecoveredStays
  <2>3. sub[s].recovered[l] \in Nat
        /\ sub[s].recovered[l] <= (IF loan[l].status = "RECOVERED" THEN 1 ELSE 0)
    BY <1>0 DEF SettledInv, RecoveredOK, TypeOK, SubscriberRow
  <2>4. QED BY <2>1, <2>2, <2>3
<1>3. QED BY <1>1, <1>2

LEMMA SettledInvStep ==
    ASSUME SettledInv, [Next]_vars, ~LateCrash
    PROVE  SettledInv'
<1>1. OnceInv'
  BY OnceInvStep DEF SettledInv
<1>2. ASSUME NEW l \in Loans
      PROVE  WrittenOK(l)'
  BY WrittenStep, NewRowStep DEF WrittenOK
<1>3. QED BY <1>1, <1>2, RecoveredOKStep DEF SettledInv

LEMMA SettledInvInit ==
    ASSUME Init
    PROVE  SettledInv
<1>1. \A l \in Loans : WrittenOK(l)
  BY DEF Init, WrittenOK
<1>2. RecoveredOK
  BY DEF Init, RecoveredOK, Zero
<1>3. QED BY <1>1, <1>2, OnceInvInit DEF SettledInv

\* The steps of a system in which no process dies late.
LEMMA SettledInvSafe ==
    ASSUME SettledInv, [Next]_vars, [~LateCrash]_vars
    PROVE  SettledInv'
<1>1. ~LateCrash
  <2>1. LateCrash => faults' = faults + 1 /\ faults \in Nat
    BY DEF LateCrash, WorkerCrash, MayFault, SettledInv, OnceInv, BaseInv, TypeOK
  <2>2. UNCHANGED vars => faults' = faults
    BY DEF vars
  <2>3. QED BY <2>1, <2>2
<1>2. QED BY <1>1, SettledInvStep

\* Where every fulfilment is delivered once and no process dies between the
\* COMMIT of a loan job and its acknowledgement, a loan is counted as
\* recovered at most once: however often its recoveries are redelivered,
\* retried or run beside each other.
THEOREM RecoveredAtMostOnce ==
    ASSUME LoanDeliveries = 1
    PROVE  Spec /\ [][~LateCrash]_vars => []RecoveredOnce
<1>1. SettledInv => RecoveredOnce
  <2>1. \A l \in Loans : SentOnce(l)
    BY DEF SentOnce, LoanJob
  <2>2. SettledInv => \A s \in Subscribers, l \in Loans : sub[s].recovered[l] \in Nat
    BY DEF SettledInv, OnceInv, BaseInv, TypeOK, SubscriberRow
  <2>3. QED BY <2>1, <2>2 DEF SettledInv, RecoveredOK, RecoveredOnce
<1>2. QED BY <1>1, SettledInvInit, SettledInvSafe, PTL DEF Spec

\* Under the same conditions a RECOVERED loan is never reopened, by the
\* repeated steps of its own job, by recoveries or by the aging job.
THEOREM RecoveredNeverReopens ==
    ASSUME LoanDeliveries = 1
    PROVE  Spec /\ [][~LateCrash]_vars => RecoveredIsFinal
<1>1. SettledInv /\ [Next]_vars =>
         [\A l \in Loans : loan[l].status = "RECOVERED" => loan'[l].status = "RECOVERED"]_vars
  <2>1. \A l \in Loans : SentOnce(l)
    BY DEF SentOnce, LoanJob
  <2>2. QED BY <2>1, RecoveredStays
<1>2. QED BY <1>1, SettledInvInit, SettledInvSafe, PTL DEF Spec, RecoveredIsFinal

\* No loan job meets a fault: then none dies late either.
THEOREM NoLateCrash ==
    ASSUME "loan" \notin FaultyKinds
    PROVE  [][~LateCrash]_vars
<1>1. [~LateCrash]_vars
  BY DEF LateCrash, WorkerCrash, MayFault, LoanJob
<1>2. QED BY <1>1, PTL

-----------------------------------------------------------------------------
(* The running total of the feature row                                    *)

\* No webhook brings a loan that is in default from the start.
PayloadOK == \A j \in LoanJob : payload[j].status # "DEFAULTED"

\* A loan job under way found no row.
PriorOK(w) == pc[w] \in Writing \cup {"upsertLoan"} => prior[w] = "ABSENT"

\* A loan that is open was counted as taken.
OpenTaken ==
    \A l \in Loans : loan[l].status \notin {"ABSENT", "RECOVERED"} => feat[Owner[l]].taken[l] > 0

\* The loans that feature row counts as taken and not as recovered.
Owing(s) == {l \in Loans : feat[s].taken[l] > 0 /\ feat[s].recovered[l] = 0}

\* The committed total is what is owing; that of an open recovery is what will
\* be owing once its credits are committed.
KoboOK(s) == IsFiniteSet(Owing(s)) /\ feat[s].kobo = 100 * SumRepayable[Owing(s)]
KoboTxOK(w) ==
    pc[w] \in RecoverySteps /\ lockFeat[Msisdn(w)] = w =>
        featTx[w].kobo = 100 * SumRepayable[Owing(Msisdn(w)) \ Credited(w)]

KoboInv ==
    /\ SettledInv /\ CountersAgree
    /\ PayloadOK /\ OpenTaken
    /\ \A w \in Workers : PriorOK(w) /\ KoboTxOK(w)
    /\ \A s \in Subscribers : KoboOK(s)

\* A sum without one of its members.
LEMMA SumWithout ==
    ASSUME NEW S \in SUBSET Loans, IsFiniteSet(S), NEW l \in S
    PROVE  /\ SumRepayable[S] = SumRepayable[S \ {l}] + Repayable[l]
           /\ SumRepayable[S \ {l}] \in Nat /\ Repayable[l] \in Nat
<1>1. PICK T \in SUBSET Loans : T = S \ {l}
  OBVIOUS
<1>2. IsFiniteSet(T) /\ l \in Loans /\ l \notin T /\ S = T \cup {l}
  BY <1>1, FS_Subset
<1>3. SumRepayable[T \cup {l}] = SumRepayable[T] + Repayable[l]
  BY <1>2, SumAssumption
<1>4. SumRepayable[T] \in Nat /\ Repayable[l] \in Nat
  BY <1>2, ConstantsAssumption
<1>5. QED BY <1>1, <1>2, <1>3, <1>4

\* A sum with one member more.
LEMMA SumWith ==
    ASSUME NEW S \in SUBSET Loans, IsFiniteSet(S), NEW l \in Loans, l \notin S
    PROVE  /\ SumRepayable[S \cup {l}] = SumRepayable[S] + Repayable[l]
           /\ SumRepayable[S] \in Nat /\ Repayable[l] \in Nat
           /\ IsFiniteSet(S \cup {l})
BY FS_AddElement, SumAssumption, ConstantsAssumption

\* What worker w's step leaves to the others' feature rows.
FeatGuarded(w) ==
    \A v \in Workers \ {w} :
        /\ SameLocals(v)
        /\ \A s \in Subscribers : lockFeat'[s] = v => lockFeat[s] = v
        /\ \A s \in Subscribers : lockFeat[s] = v => feat'[s] = feat[s]

\* The rows of a transaction that is not taking a step stay right.
LEMMA KoboTxFrame ==
    ASSUME KoboInv, NEW v \in Workers, SameLocals(v),
           lockFeat'[Msisdn(v)] = v => lockFeat[Msisdn(v)] = v,
           lockFeat[Msisdn(v)] = v => feat'[Msisdn(v)] = feat[Msisdn(v)]
    PROVE  KoboTxOK(v)'
<1>1. Msisdn(v)' = Msisdn(v) /\ Credited(v)' = Credited(v) /\ pc'[v] = pc[v]
      /\ featTx'[v] = featTx[v]
  BY SameKey DEF SameLocals
<1>2. lockFeat[Msisdn(v)] = v => Owing(Msisdn(v))' = Owing(Msisdn(v))
  BY <1>1 DEF Owing
<1>3. KoboTxOK(v)
  BY DEF KoboInv
<1>4. QED BY <1>1, <1>2, <1>3 DEF KoboTxOK

\* A step that writes no feature row leaves the totals right.
LEMMA KoboFrame ==
    ASSUME KoboInv, feat' = feat
    PROVE  \A s \in Subscribers : KoboOK(s)'
BY DEF KoboInv, KoboOK, Owing

\* A worker's step leaves the others' feature rows alone.
LEMMA FeatGuards ==
    ASSUME BaseInv, NEW w \in Workers, WorkerStep(w) \/ StatementError(w) \/ WorkerCrash(w)
    PROVE  FeatGuarded(w)
<1>0. TypeOK /\ None \notin Workers
  BY ConstantsAssumption DEF BaseInv
<1>1. CASE (\E j \in Job : Start(w, j)) \/ SelectLoan(w) \/ UpsertLoan(w)
           \/ UpsertSubscriberFirst(w) \/ SnapshotLoan(w) \/ Acknowledge(w)
           \/ InsertRecovery(w) \/ ItemUnknownLoan(w)
  BY <1>0, <1>1 DEF FeatGuarded, SameLocals, TypeOK, Start, SelectLoan, UpsertLoan,
     UpsertSubscriberFirst, SnapshotLoan, Acknowledge, InsertRecovery, ItemUnknownLoan, Goto,
     EndJob, txData, dbVars, locks
<1>2. CASE ItemAlreadyRecovered(w) \/ ItemRecover(w) \/ Recompute(w)
  BY <1>0, <1>2 DEF FeatGuarded, SameLocals, TypeOK, ItemAlreadyRecovered, ItemRecover, Recompute,
     Goto, dbVars, locks
<1>3. CASE FeatureRowIssued(w) \/ CreditFeature(w)
  <2>1. feat' = feat /\ \E s : lockFeat' = [lockFeat EXCEPT ![s] = w]
    BY <1>3 DEF FeatureRowIssued, CreditFeature, dbVars
  <2>2. \A v \in Workers \ {w} : SameLocals(v)
    BY <1>0, <1>3 DEF FeatureRowIssued, CreditFeature, SameLocals, TypeOK, Goto, txData
  <2>3. QED BY <1>0, <2>1, <2>2 DEF FeatGuarded, TypeOK
<1>4. CASE UpsertLoanRefused(w) \/ DeadlockAbort(w) \/ StatementError(w) \/ WorkerCrash(w)
  <2>1. EndJob(w) /\ ReleaseLocks(w) /\ feat' = feat
    BY <1>4 DEF UpsertLoanRefused, DeadlockAbort, StatementError, WorkerCrash, FailAttempt, dbVars
  <2>2. QED BY <1>0, <2>1, ReleaseType DEF FeatGuarded, SameLocals, EndJob, Goto, TypeOK
<1>5. CASE UpsertSubscriberReplay(w)
  BY <1>0, <1>5, ReleaseType DEF FeatGuarded, SameLocals, TypeOK, UpsertSubscriberReplay, Goto,
     txData
<1>6. CASE CommitLoan(w)
  <2>1. lockFeat[Msisdn(w)] = w /\ feat' = [feat EXCEPT ![Msisdn(w)] = onLoanIssued(@, Key(w))]
    BY <1>6 DEF CommitLoan, BaseInv, CreditOK
  <2>2. \A v \in Workers \ {w} : SameLocals(v)
    BY <1>0, <1>6 DEF CommitLoan, SameLocals, TypeOK, Goto, txData
  <2>3. ReleaseLocks(w)
    BY <1>6 DEF CommitLoan
  <2>4. QED BY <1>0, <2>1, <2>2, <2>3, ReleaseType DEF FeatGuarded, TypeOK
<1>7. CASE CommitRecovery(w)
  <2>1. feat' = IF lockFeat[Msisdn(w)] = w THEN [feat EXCEPT ![Msisdn(w)] = featTx[w]] ELSE feat
    BY <1>7 DEF CommitRecovery
  <2>2. \A v \in Workers \ {w} : SameLocals(v)
    BY <1>0, <1>7 DEF CommitRecovery, SameLocals, TypeOK, Goto, txData
  <2>3. ReleaseLocks(w)
    BY <1>7 DEF CommitRecovery
  <2>4. QED BY <1>0, <2>1, <2>2, <2>3, ReleaseType DEF FeatGuarded, TypeOK
<1>8. QED BY <1>1, <1>2, <1>3, <1>4, <1>5, <1>6, <1>7 DEF WorkerStep

\* Hence their totals stay right.
LEMMA OthersKobo ==
    ASSUME KoboInv, NEW w \in Workers, WorkerStep(w) \/ StatementError(w) \/ WorkerCrash(w),
           NEW v \in Workers, v # w
    PROVE  KoboTxOK(v)'
<1>1. BaseInv /\ FeatGuarded(w)
  BY FeatGuards DEF KoboInv, SettledInv, OnceInv
<1>2. CASE pc[v] = "idle"
  BY <1>1, <1>2 DEF FeatGuarded, SameLocals, KoboTxOK, RecoverySteps
<1>3. CASE pc[v] # "idle"
  <2>1. Msisdn(v) \in Subscribers
    BY <1>1, <1>3, MsisdnType
  <2>2. QED BY <1>1, <2>1, KoboTxFrame DEF FeatGuarded
<1>4. QED BY <1>2, <1>3

\* A worker's own transaction, where it writes no total.
LEMMA OwnKobo ==
    ASSUME KoboInv, NEW w \in Workers, WorkerStep(w) \/ StatementError(w) \/ WorkerCrash(w),
           ~CreditFeature(w)
    PROVE  KoboTxOK(w)'
<1>0. TypeOK /\ BaseInv /\ KoboTxOK(w) /\ JobOK(w) /\ CreditOK(w) /\ FeatLockOK
  BY DEF KoboInv, SettledInv, OnceInv, BaseInv
<1>1. CASE \E j \in Job : Start(w, j)
  <2>1. pc[w] = "idle" /\ lockFeat' = lockFeat
    BY <1>1 DEF Start, locks
  <2>2. \A s \in Subscribers : lockFeat'[s] # w
    BY <1>0, <2>1 DEF FeatLockOK, RecoverySteps
  <2>3. pc'[w] \in RecoverySteps => job'[w] \in RecoveryJob
    BY <1>0, <1>1, StartStep DEF BaseInv, JobOK
  <2>4. pc'[w] \in RecoverySteps => Msisdn(w)' \in Subscribers
    BY <2>3, ConstantsAssumption DEF Msisdn, Key, RecoveryJob
  <2>5. QED BY <2>2, <2>4 DEF KoboTxOK
<1>2. CASE InsertRecovery(w)
  BY <1>0, <1>2 DEF InsertRecovery, CreditOK, KoboTxOK, Msisdn, Key
<1>3. CASE ItemUnknownLoan(w) \/ ItemAlreadyRecovered(w) \/ Recompute(w)
  <2>1. /\ pc[w] = "item" /\ pc'[w] \in {"item", "countRecovered"}
        /\ UNCHANGED <<job, newly, featTx, lockFeat, feat>>
    BY <1>0, <1>3 DEF ItemUnknownLoan, ItemAlreadyRecovered, Recompute, MoreItems, Goto, TypeOK,
       dbVars, locks
  <2>2. Msisdn(w)' = Msisdn(w) /\ Credited(w)' = Credited(w) /\ Owing(Msisdn(w))' = Owing(Msisdn(w))
    BY <2>1 DEF Msisdn, Key, Credited, Owing
  <2>3. QED BY <1>0, <2>1, <2>2 DEF KoboTxOK, RecoverySteps
<1>4. CASE ItemRecover(w)
  <2>1. /\ pc[w] = "item" /\ pc'[w] = "creditFeature"
        /\ UNCHANGED <<job, pos, featTx, lockFeat, feat>>
        /\ newly'[w] = newly[w] \cup {Item(w)}
        /\ View(w)[Item(w)].status # "RECOVERED"
    BY <1>0, <1>4 DEF ItemRecover, MoreItems, Goto, TypeOK, dbVars
  <2>2. Item(w) \in Loans
    <3>1. Key(w) \in Recoveries /\ pos[w] \in 1..Len(Items[Key(w)])
      BY <1>0, <1>4, RecoveryJobKey DEF ItemRecover, MoreItems, RecoverySteps, TypeOK, JobOK
    <3>2. QED BY <3>1, ConstantsAssumption DEF Item
  <2>3. Item(w) \notin newly[w]
    BY <2>1, <2>2 DEF View, PaidRow, RecoverySteps
  <2>4. /\ Msisdn(w)' = Msisdn(w) /\ Item(w)' = Item(w)
        /\ Owing(Msisdn(w))' = Owing(Msisdn(w))
    BY <2>1 DEF Msisdn, Key, Item, Owing
  <2>5. Credited(w)' = Credited(w)
    BY <2>1, <2>3, <2>4 DEF Credited
  <2>6. QED BY <1>0, <2>1, <2>4, <2>5 DEF KoboTxOK, RecoverySteps
<1>5. CASE SelectLoan(w) \/ UpsertLoan(w) \/ UpsertSubscriberFirst(w)
           \/ UpsertSubscriberReplay(w) \/ FeatureRowIssued(w) \/ CommitLoan(w)
           \/ SnapshotLoan(w) \/ Acknowledge(w) \/ CommitRecovery(w) \/ UpsertLoanRefused(w)
           \/ DeadlockAbort(w) \/ StatementError(w) \/ WorkerCrash(w)
  <2>1. pc'[w] \notin RecoverySteps
    BY <1>0, <1>5 DEF SelectLoan, UpsertLoan, UpsertSubscriberFirst, UpsertSubscriberReplay,
       FeatureRowIssued, CommitLoan, SnapshotLoan, Acknowledge, CommitRecovery, UpsertLoanRefused,
       DeadlockAbort, StatementError, WorkerCrash, FailAttempt, EndJob, AfterLoanCommit, Goto,
       TypeOK, RecoverySteps
  <2>2. QED BY <2>1 DEF KoboTxOK
<1>6. QED BY <1>1, <1>2, <1>3, <1>4, <1>5 DEF WorkerStep

\* A loan that a recovery is about to credit is owing, and not yet credited.
LEMMA ItemIsOwing ==
    ASSUME KoboInv, LoanDeliveries = 1, NEW w \in Workers, CreditFeature(w)
    PROVE  /\ Msisdn(w) \in Subscribers
           /\ Item(w) \in Owing(Msisdn(w)) \ Credited(w)
           /\ newly[w] = Credited(w) \cup {Item(w)}
<1>0. TypeOK /\ BaseInv /\ LoanLockOK(w) /\ JobOK(w)
  BY DEF KoboInv, SettledInv, OnceInv, BaseInv
<1>1. /\ pc[w] = "creditFeature" /\ Key(w) \in Recoveries /\ pos[w] \in 1..Len(Items[Key(w)])
      /\ Item(w) \in newly[w] /\ Msisdn(w) \in Subscribers /\ Msisdn(w) = Payer[Key(w)]
  BY <1>0, RecoveryJobKey DEF CreditFeature, JobOK, RecoverySteps
<1>2. Item(w) \in Loans /\ Owner[Item(w)] = Msisdn(w)
  BY <1>1, ConstantsAssumption DEF Item
<1>3. loan[Item(w)].status \notin {"ABSENT", "RECOVERED"}
  BY <1>0, <1>1 DEF LoanLockOK, RecoverySteps
<1>4. feat[Msisdn(w)].taken[Item(w)] > 0
  BY <1>2, <1>3 DEF KoboInv, OpenTaken
<1>5. feat[Msisdn(w)].recovered[Item(w)] = 0
  <2>1. SentOnce(Item(w))
    BY DEF SentOnce, LoanJob
  <2>2. sub[Msisdn(w)].recovered[Item(w)] \in Nat
    BY <1>0, <1>1, <1>2 DEF TypeOK, SubscriberRow
  <2>3. sub[Msisdn(w)].recovered[Item(w)] <= 0
    BY <1>1, <1>2, <1>3, <2>1 DEF KoboInv, SettledInv, RecoveredOK
  <2>4. QED BY <1>1, <2>2, <2>3 DEF KoboInv, CountersAgree
<1>6. QED BY <1>1, <1>2, <1>4, <1>5 DEF Owing, Credited

\* Crediting a loan takes exactly its amount off the total: the clamp at zero
\* never swallows a part of it.
LEMMA CreditKobo ==
    ASSUME KoboInv, LoanDeliveries = 1, NEW w \in Workers, CreditFeature(w)
    PROVE  KoboTxOK(w)'
<1> DEFINE s == Msisdn(w)
           l == Item(w)
           row == IF lockFeat[s] = w THEN featTx[w] ELSE feat[s]
           S == Owing(s) \ Credited(w)
<1>0. TypeOK /\ BaseInv /\ KoboTxOK(w) /\ CreditOK(w)
  BY DEF KoboInv, SettledInv, OnceInv, BaseInv
<1>1. /\ s \in Subscribers /\ l \in S /\ newly[w] = Credited(w) \cup {l} /\ l \in Loans
      /\ S \in SUBSET Loans
  BY ItemIsOwing DEF Owing
<1>2. IsFiniteSet(S) /\ feat[s].kobo = 100 * SumRepayable[Owing(s)]
  BY <1>1, FS_Subset DEF KoboInv, KoboOK
<1>3. row.kobo = 100 * SumRepayable[S]
  <2>1. pc[w] \in RecoverySteps
    BY DEF CreditFeature, RecoverySteps
  <2>2. CASE lockFeat[s] = w
    BY <1>0, <2>1, <2>2 DEF KoboTxOK
  <2>3. CASE lockFeat[s] # w
    <3>1. Credited(w) = {}
      BY <1>0, <2>1, <2>3 DEF CreditOK
    <3>2. QED BY <1>2, <2>3, <3>1
  <2>4. QED BY <2>2, <2>3
<1>4. /\ SumRepayable[S] = SumRepayable[S \ {l}] + Repayable[l]
      /\ SumRepayable[S \ {l}] \in Nat /\ Repayable[l] \in Nat
  BY <1>1, <1>2, SumWithout
<1>5. (IF row.kobo > 100 * Repayable[l] THEN row.kobo - 100 * Repayable[l] ELSE 0)
         = 100 * SumRepayable[S \ {l}]
  <2> HIDE DEF row, S, l
  <2>1. row.kobo = 100 * SumRepayable[S \ {l}] + 100 * Repayable[l]
    BY <1>3, <1>4
  <2>2. QED BY <1>4, <2>1
<1>6. /\ pc'[w] = "item" /\ feat' = feat /\ newly' = newly /\ job' = job
      /\ featTx'[w] = onLoanRecovered(row, l, prior[w] = "DEFAULTED", View(w))
  BY <1>0 DEF CreditFeature, Goto, TypeOK, dbVars
<1>7. featTx'[w].kobo = 100 * SumRepayable[S \ {l}]
  BY <1>5, <1>6 DEF onLoanRecovered
<1>8. Msisdn(w)' = s /\ Owing(s)' = Owing(s)
  BY <1>6 DEF Msisdn, Key, Owing
<1>9. Credited(w)' = Credited(w) \cup {l}
  BY <1>1, <1>6 DEF Credited
<1>10. Owing(Msisdn(w))' = Owing(s)
  BY <1>6, <1>8 DEF Owing
<1>11. S \ {l} = Owing(Msisdn(w))' \ Credited(w)'
  BY <1>9, <1>10
<1>12. QED BY <1>7, <1>11 DEF KoboTxOK

\* A recovery's COMMIT leaves the total of what is still owing.
LEMMA CommitRecoveryKobo ==
    ASSUME KoboInv, NEW w \in Workers, CommitRecovery(w), NEW x \in Subscribers
    PROVE  KoboOK(x)'
<1> DEFINE s == Msisdn(w)
<1>0. /\ TypeOK /\ BaseInv /\ KoboTxOK(w) /\ CreditOK(w) /\ KoboOK(x)
      /\ pc[w] = "countRecovered" /\ pc[w] \in RecoverySteps
  BY DEF KoboInv, SettledInv, OnceInv, BaseInv, CommitRecovery, RecoverySteps
<1>1. s \in Subscribers /\ Credited(w) = newly[w]
  BY <1>0, RecoveryJobKey DEF Credited
<1>2. feat' = IF lockFeat[s] = w THEN [feat EXCEPT ![s] = featTx[w]] ELSE feat
  BY DEF CommitRecovery
<1>3. CASE x = s /\ lockFeat[s] = w
  <2>1. /\ feat'[s] = featTx[w] /\ featTx[w].taken = feat[s].taken
        /\ featTx[w].recovered = Bump(feat[s].recovered, newly[w])
        /\ featTx[w].kobo = 100 * SumRepayable[Owing(s) \ newly[w]]
    BY <1>0, <1>1, <1>2, <1>3 DEF TypeOK, CreditOK, KoboTxOK
  <2>2. \A l \in Loans : feat[s].recovered[l] \in Nat
    BY <1>0, <1>1 DEF TypeOK, FeatureRow
  <2>3. \A l \in Loans : Bump(feat[s].recovered, newly[w])[l] = 0 <=>
                            feat[s].recovered[l] = 0 /\ l \notin newly[w]
    BY <2>2 DEF Bump
  <2>4. Owing(x)' = Owing(s) \ newly[w]
    <3>1. \A l \in Loans : feat'[x].taken[l] = feat[s].taken[l]
             /\ (feat'[x].recovered[l] = 0 <=> feat[s].recovered[l] = 0 /\ l \notin newly[w])
      BY <1>3, <2>1, <2>3
    <3>2. {l \in Loans : feat'[x].taken[l] > 0 /\ feat'[x].recovered[l] = 0}
             = {l \in Loans : feat[s].taken[l] > 0 /\ feat[s].recovered[l] = 0} \ newly[w]
      BY <3>1
    <3>3. QED BY <3>2 DEF Owing
  <2>5. IsFiniteSet(Owing(s) \ newly[w])
    BY <1>0, <1>3, FS_Subset DEF KoboOK
  <2>6. QED BY <1>3, <2>1, <2>4, <2>5 DEF KoboOK
<1>4. CASE ~(x = s /\ lockFeat[s] = w)
  <2>1. feat'[x] = feat[x]
    BY <1>0, <1>1, <1>2, <1>4 DEF TypeOK
  <2>2. QED BY <1>0, <2>1 DEF KoboOK, Owing
<1>5. QED BY <1>3, <1>4

\* The COMMIT of a first delivery adds the loan to what is owing.
LEMMA CommitLoanKobo ==
    ASSUME KoboInv, LoanDeliveries = 1, NEW w \in Workers, CommitLoan(w), NEW x \in Subscribers
    PROVE  KoboOK(x)'
<1> DEFINE s == Msisdn(w)
           l == Key(w)
<1>0. TypeOK /\ BaseInv /\ KoboOK(x) /\ pc[w] \in LoanSteps /\ SentOnce(l)
  BY DEF KoboInv, SettledInv, OnceInv, BaseInv, CommitLoan, LoanSteps, SentOnce, LoanJob
<1>1. s \in Subscribers /\ l \in Loans /\ loan[l].status = "ABSENT"
  BY <1>0, LoanJobKey, FirstWrite DEF KoboInv
<1>2. feat' = [feat EXCEPT ![s] = onLoanIssued(feat[s], l)]
  BY DEF CommitLoan
<1>3. CASE x = s
  <2>1. feat[s].taken[l] = 0 /\ feat[s].recovered[l] = 0
    <3>1. sub[s].taken[l] \in Nat /\ sub[s].recovered[l] \in Nat
      BY <1>0, <1>1 DEF TypeOK, SubscriberRow
    <3>2. sub[s].taken[l] <= 0 /\ sub[s].recovered[l] <= 0
      BY <1>0, <1>1 DEF KoboInv, SettledInv, OnceInv, TakenOK, RecoveredOK
    <3>3. QED BY <1>1, <3>1, <3>2 DEF KoboInv, CountersAgree
  <2>2. \A k \in Loans : feat[s].taken[k] \in Nat
    BY <1>0, <1>1 DEF TypeOK, FeatureRow
  <2>3. /\ feat'[x] = onLoanIssued(feat[s], l)
        /\ \A k \in Loans : feat'[x].taken[k] = feat[s].taken[k] + (IF k = l THEN 1 ELSE 0)
        /\ feat'[x].recovered = feat[s].recovered
        /\ feat'[x].kobo = feat[s].kobo + 100 * Repayable[l]
    BY <1>0, <1>1, <1>2, <1>3 DEF TypeOK, onLoanIssued, Bump
  <2>4. {k \in Loans : feat'[x].taken[k] > 0 /\ feat'[x].recovered[k] = 0}
           = {k \in Loans : feat[s].taken[k] > 0 /\ feat[s].recovered[k] = 0} \cup {l}
    <3>1. \A k \in Loans : feat'[x].taken[k] > 0 /\ feat'[x].recovered[k] = 0 <=>
                              k = l \/ (feat[s].taken[k] > 0 /\ feat[s].recovered[k] = 0)
      BY <2>1, <2>2, <2>3
    <3> HIDE DEF l, s
    <3>2. QED BY <1>1, <3>1
  <2>5. Owing(x)' = Owing(s) \cup {l} /\ l \notin Owing(s) /\ Owing(s) \in SUBSET Loans
    BY <2>1, <2>4 DEF Owing
  <2>6. IsFiniteSet(Owing(s)) /\ feat[s].kobo = 100 * SumRepayable[Owing(s)]
    BY <1>0, <1>3 DEF KoboOK
  <2>7. /\ SumRepayable[Owing(s) \cup {l}] = SumRepayable[Owing(s)] + Repayable[l]
        /\ SumRepayable[Owing(s)] \in Nat /\ Repayable[l] \in Nat
        /\ IsFiniteSet(Owing(s) \cup {l})
    BY <1>1, <2>5, <2>6, SumWith
  <2> HIDE DEF s, l
  <2>8. feat'[x].kobo = 100 * SumRepayable[Owing(s) \cup {l}]
    BY <2>3, <2>6, <2>7
  <2>9. QED BY <2>5, <2>7, <2>8 DEF KoboOK
<1>4. CASE x # s
  <2>1. feat'[x] = feat[x]
    BY <1>0, <1>1, <1>2, <1>4 DEF TypeOK
  <2>2. QED BY <1>0, <2>1 DEF KoboOK, Owing
<1>5. QED BY <1>3, <1>4

\* Every step leaves the committed totals right.
LEMMA KoboStep ==
    ASSUME KoboInv, LoanDeliveries = 1, [LiveNext]_vars, NEW s \in Subscribers
    PROVE  KoboOK(s)'
<1>1. CASE \E w \in Workers : CommitLoan(w) \/ CommitRecovery(w)
  BY <1>1, CommitLoanKobo, CommitRecoveryKobo
<1>2. CASE ~(\E w \in Workers : CommitLoan(w) \/ CommitRecovery(w))
  <2>1. feat' = feat
    <3>1. ASSUME NEW w \in Workers, WorkerStep(w)
          PROVE  feat' = feat
      <4>1. CASE \/ \E j \in Job : Start(w, j)
                 \/ SelectLoan(w) \/ UpsertLoan(w) \/ UpsertLoanRefused(w)
                 \/ UpsertSubscriberFirst(w) \/ UpsertSubscriberReplay(w) \/ FeatureRowIssued(w)
                 \/ SnapshotLoan(w) \/ Acknowledge(w)
        BY <4>1 DEF Start, SelectLoan, UpsertLoan, UpsertLoanRefused, UpsertSubscriberFirst,
           UpsertSubscriberReplay, FeatureRowIssued, SnapshotLoan, Acknowledge, FailAttempt, dbVars
      <4>2. CASE InsertRecovery(w) \/ ItemUnknownLoan(w) \/ ItemAlreadyRecovered(w)
                 \/ ItemRecover(w) \/ CreditFeature(w) \/ Recompute(w) \/ DeadlockAbort(w)
        BY <4>2 DEF InsertRecovery, ItemUnknownLoan, ItemAlreadyRecovered, ItemRecover,
           CreditFeature, Recompute, DeadlockAbort, FailAttempt, dbVars
      <4>3. QED BY <1>2, <3>1, <4>1, <4>2 DEF WorkerStep
    <3>2. CASE RunAging
      BY <3>2 DEF RunAging, AffectedMsisdns, KoboInv, SettledInv, OnceInv, BaseInv, TypeOK
    <3>3. CASE Fault \/ Webhook \/ (\E l \in Loans : Age(l)) \/ UNCHANGED vars
      BY <3>3 DEF Fault, StatementError, WorkerCrash, FailAttempt, Webhook, AirtelLoan,
         InternalLoan, AirtelRecovery, InternalRecovery, SendRecovery, Enqueue, Age, vars, dbVars
    <3>4. QED BY <3>1, <3>2, <3>3 DEF LiveNext
  <2>2. QED BY <2>1, KoboFrame
<1>3. QED BY <1>1, <1>2

\* Every step leaves the totals of open transactions right.
LEMMA KoboTxStep ==
    ASSUME KoboInv, LoanDeliveries = 1, [LiveNext]_vars, NEW v \in Workers
    PROVE  KoboTxOK(v)'
<1>1. ASSUME NEW w \in Workers, WorkerStep(w) \/ StatementError(w) \/ WorkerCrash(w)
      PROVE  KoboTxOK(v)'
  BY <1>1, OthersKobo, OwnKobo, CreditKobo
<1>2. CASE Webhook \/ (\E l \in Loans : Age(l)) \/ RunAging \/ UNCHANGED vars
  <2>1. pc' = pc /\ job' = job /\ pos' = pos /\ newly' = newly /\ featTx' = featTx
        /\ lockFeat' = lockFeat
    BY <1>2 DEF Webhook, AirtelLoan, InternalLoan, AirtelRecovery, InternalRecovery, SendRecovery,
       Enqueue, Age, RunAging, vars, txVars, txData, locks
  <2>2. feat' = feat
    <3>1. CASE RunAging
      BY <3>1 DEF RunAging, AffectedMsisdns, KoboInv, SettledInv, OnceInv, BaseInv, TypeOK
    <3>2. CASE ~RunAging
      BY <1>2, <3>2 DEF Webhook, AirtelLoan, InternalLoan, AirtelRecovery, InternalRecovery,
         SendRecovery, Enqueue, Age, vars, dbVars
    <3>3. QED BY <3>1, <3>2
  <2>3. QED BY <2>1, <2>2, KoboTxFrame DEF SameLocals
<1>3. QED BY <1>1, <1>2 DEF LiveNext, Fault

\* A worker that has read finds what FirstWrite says.
LEMMA PriorStep ==
    ASSUME KoboInv, LoanDeliveries = 1, [LiveNext]_vars, NEW v \in Workers
    PROVE  PriorOK(v)'
<1>0. TypeOK /\ BaseInv /\ PriorOK(v)
  BY DEF KoboInv, SettledInv, OnceInv, BaseInv
<1>1. CASE SelectLoan(v)
  <2>1. loan[Key(v)].status = "ABSENT"
    BY <1>1, FirstWrite DEF KoboInv, SelectLoan, LoanSteps, SentOnce, LoanJob
  <2>2. QED BY <1>0, <1>1, <2>1 DEF PriorOK, SelectLoan, TypeOK
<1>2. ASSUME NEW w \in Workers, WorkerStep(w) \/ StatementError(w) \/ WorkerCrash(w),
             ~(SelectLoan(w) /\ w = v)
      PROVE  PriorOK(v)'
  <2>1. CASE SelectLoan(w)
    BY <1>0, <1>2, <2>1 DEF SelectLoan, PriorOK, TypeOK, Goto
  <2>2. CASE UpsertLoan(w) \/ UpsertSubscriberFirst(w) \/ FeatureRowIssued(w)
    BY <1>0, <2>2 DEF UpsertLoan, UpsertSubscriberFirst, FeatureRowIssued, PriorOK, TypeOK, Goto,
       txData, Writing
  <2>3. CASE UpsertSubscriberReplay(w) \/ CommitLoan(w) \/ SnapshotLoan(w)
    BY <1>0, <2>3 DEF UpsertSubscriberReplay, CommitLoan, SnapshotLoan, AfterLoanCommit, PriorOK,
       TypeOK, Goto, txData, Writing
  <2>4. CASE (\E j \in Job : Start(w, j)) \/ InsertRecovery(w) \/ ItemUnknownLoan(w)
             \/ ItemAlreadyRecovered(w) \/ Recompute(w) \/ CommitRecovery(w)
    BY <1>0, <2>4 DEF Start, InsertRecovery, ItemUnknownLoan, ItemAlreadyRecovered, Recompute,
       CommitRecovery, PriorOK, TypeOK, Goto, txData, Writing
  <2>5. CASE ItemRecover(w) \/ CreditFeature(w)
    BY <1>0, <2>5 DEF ItemRecover, CreditFeature, MoreItems, PriorOK, TypeOK, Goto, Writing
  <2>6. CASE Acknowledge(w) \/ UpsertLoanRefused(w) \/ DeadlockAbort(w) \/ StatementError(w)
             \/ WorkerCrash(w)
    <3>1. EndJob(w)
      BY <2>6 DEF Acknowledge, UpsertLoanRefused, DeadlockAbort, StatementError, WorkerCrash,
         FailAttempt
    <3>2. QED BY <1>0, <3>1 DEF EndJob, Goto, PriorOK, TypeOK, Writing
  <2>7. QED BY <1>2, <2>1, <2>2, <2>3, <2>4, <2>5, <2>6 DEF WorkerStep
<1>3. CASE Webhook \/ (\E l \in Loans : Age(l)) \/ RunAging \/ UNCHANGED vars
  <2>1. pc' = pc /\ prior' = prior
    BY <1>3 DEF Webhook, AirtelLoan, InternalLoan, AirtelRecovery, InternalRecovery, SendRecovery,
       Enqueue, Age, RunAging, vars, txVars, txData
  <2>2. QED BY <1>0, <2>1 DEF PriorOK
<1>4. QED BY <1>1, <1>2, <1>3 DEF LiveNext, Fault

\* What the webhooks bring.
LEMMA PayloadStep ==
    ASSUME KoboInv, "DEFAULTED" \notin InternalStatuses, [LiveNext]_vars
    PROVE  PayloadOK'
<1>0. TypeOK /\ PayloadOK
  BY DEF KoboInv, SettledInv, OnceInv, BaseInv
<1>1. CASE \E j \in LoanJob : AirtelLoan(j) \/ InternalLoan(j)
  BY <1>0, <1>1 DEF AirtelLoan, InternalLoan, mapLoan, PayloadOK, TypeOK
<1>2. CASE payload' = payload
  BY <1>0, <1>2 DEF PayloadOK
<1>3. CASE \E w \in Workers : WorkerStep(w)
  <2>1. PICK w \in Workers : WorkerStep(w)
    BY <1>3
  <2>2. CASE (\E j \in Job : Start(w, j)) \/ SelectLoan(w) \/ UpsertLoan(w)
             \/ UpsertLoanRefused(w) \/ UpsertSubscriberFirst(w) \/ UpsertSubscriberReplay(w)
             \/ FeatureRowIssued(w) \/ CommitLoan(w) \/ SnapshotLoan(w) \/ Acknowledge(w)
    BY <1>2, <2>2 DEF Start, SelectLoan, UpsertLoan, UpsertLoanRefused, UpsertSubscriberFirst,
       UpsertSubscriberReplay, FeatureRowIssued, CommitLoan, SnapshotLoan, Acknowledge,
       FailAttempt, StepUnchanged, envVars
  <2>3. CASE InsertRecovery(w) \/ ItemUnknownLoan(w) \/ ItemAlreadyRecovered(w) \/ ItemRecover(w)
             \/ CreditFeature(w) \/ Recompute(w) \/ CommitRecovery(w) \/ DeadlockAbort(w)
    BY <1>2, <2>3 DEF InsertRecovery, ItemUnknownLoan, ItemAlreadyRecovered, ItemRecover,
       CreditFeature, Recompute, CommitRecovery, DeadlockAbort, FailAttempt, StepUnchanged, envVars
  <2>4. QED BY <2>1, <2>2, <2>3 DEF WorkerStep
<1>4. CASE Fault \/ (\E j \in RecoveryJob : AirtelRecovery(j) \/ InternalRecovery(j))
           \/ (\E l \in Loans : Age(l)) \/ RunAging \/ UNCHANGED vars
  BY <1>2, <1>4 DEF Fault, StatementError, WorkerCrash, FailAttempt, AirtelRecovery,
     InternalRecovery, SendRecovery, Age, RunAging, vars, envVars
<1>5. QED BY <1>1, <1>3, <1>4 DEF LiveNext, Webhook

\* A loan that is opened is counted as taken in the same COMMIT.
LEMMA OpenTakenStep ==
    ASSUME KoboInv, LoanDeliveries = 1, [LiveNext]_vars
    PROVE  OpenTaken'
<1> SUFFICES ASSUME NEW l \in Loans, loan'[l].status \notin {"ABSENT", "RECOVERED"}
             PROVE  feat'[Owner[l]].taken[l] > 0
  BY DEF OpenTaken
<1>0. /\ TypeOK /\ BaseInv /\ Owner[l] \in Subscribers
      /\ loan[l].status \notin {"ABSENT", "RECOVERED"} => feat[Owner[l]].taken[l] > 0
      /\ \A s \in Subscribers, k \in Loans : feat[s].taken[k] \in Nat
  <2>1. TypeOK /\ BaseInv /\ OpenTaken /\ Owner[l] \in Subscribers
    BY ConstantsAssumption DEF KoboInv, SettledInv, OnceInv, BaseInv
  <2>2. \A s \in Subscribers, k \in Loans : feat[s].taken[k] \in Nat
    BY <2>1 DEF TypeOK, FeatureRow
  <2>3. QED BY <2>1, <2>2 DEF OpenTaken
<1>1. CASE \E w \in Workers : CommitLoan(w)
  <2>1. PICK w \in Workers : CommitLoan(w)
    BY <1>1
  <2>2. pc[w] = "commitLoan" /\ pc[w] \in LoanSteps /\ Msisdn(w) = Owner[Key(w)] /\ Key(w) \in Loans
        /\ Msisdn(w) \in Subscribers
    BY <1>0, <2>1, LoanJobKey DEF CommitLoan, LoanSteps
  <2>3. l # Key(w) => loan'[l] = loan[l]
    BY <2>1, <2>2 DEF CommitLoan, View, RecoverySteps
  <2>4. feat' = [feat EXCEPT ![Msisdn(w)] = onLoanIssued(feat[Msisdn(w)], Key(w))]
    BY <2>1 DEF CommitLoan
  <2>5. /\ feat'[Owner[l]].taken[l] >= feat[Owner[l]].taken[l]
        /\ l = Key(w) => feat'[Owner[l]].taken[l] = feat[Owner[l]].taken[l] + 1
    BY <1>0, <2>2, <2>4 DEF onLoanIssued, Bump, TypeOK
  <2>6. feat[Owner[l]].taken[l] \in Nat /\ feat'[Owner[l]].taken[l] \in Nat
    BY <1>0, <2>2, <2>4 DEF onLoanIssued, Bump, TypeOK
  <2>7. QED BY <1>0, <2>3, <2>5, <2>6
<1>2. CASE \E w \in Workers : UpsertSubscriberReplay(w)
  <2>1. PICK w \in Workers : UpsertSubscriberReplay(w)
    BY <1>2
  <2>2. pc[w] = "upsertSubscriber" /\ pc[w] \in LoanSteps /\ Key(w) \in Loans /\ job[w] \in LoanJob
    BY <1>0, <2>1, LoanJobKey DEF UpsertSubscriberReplay, LoanSteps
  <2>3. l # Key(w) => loan'[l] = loan[l]
    BY <2>1, <2>2 DEF UpsertSubscriberReplay, View, RecoverySteps
  <2>4. l = Key(w) => loan'[l].status = "RECOVERED"
    <3>1. payload[job[w]].status # "ISSUED"
      BY <2>1, <2>2 DEF UpsertSubscriberReplay, FirstIssue, KoboInv, PriorOK, Writing
    <3>2. payload[job[w]].status \in LoanStatus
      BY <1>0, <2>2 DEF BaseInv, JobOK
    <3>3. payload[job[w]].status \in DtoStatus
      BY <1>0, <2>2 DEF TypeOK
    <3>4. payload[job[w]].status # "DEFAULTED"
      BY <2>2 DEF KoboInv, PayloadOK
    <3>5. payload[job[w]].status = "RECOVERED"
      BY <3>1, <3>2, <3>3, <3>4 DEF LoanStatus, DtoStatus
    <3>6. QED BY <2>1, <2>2, <3>5 DEF UpsertSubscriberReplay, View
  <2>5. feat' = feat
    BY <2>1 DEF UpsertSubscriberReplay
  <2>6. QED BY <1>0, <2>3, <2>4, <2>5
<1>3. CASE \E w \in Workers : CommitRecovery(w)
  <2>1. PICK w \in Workers : CommitRecovery(w)
    BY <1>3
  <2>2. pc[w] = "countRecovered" /\ pc[w] \in RecoverySteps /\ Msisdn(w) \in Subscribers
    BY <1>0, <2>1, RecoveryJobKey DEF CommitRecovery, RecoverySteps
  <2>3. loan'[l] = loan[l] \/ loan'[l].status = "RECOVERED"
    BY <2>1, <2>2 DEF CommitRecovery, View, PaidRow
  <2>4. feat'[Owner[l]].taken = feat[Owner[l]].taken
    BY <1>0, <2>1, <2>2 DEF CommitRecovery, TypeOK, BaseInv, CreditOK
  <2>5. QED BY <1>0, <2>3, <2>4
<1>4. CASE RunAging
  <2>1. feat' = feat
    BY <1>0, <1>4 DEF RunAging, AffectedMsisdns, TypeOK
  <2>2. loan[l].status \notin {"ABSENT", "RECOVERED"}
    BY <1>0, <1>4 DEF RunAging, Overdue, Converging, TypeOK, LoanRow
  <2>3. QED BY <1>0, <2>1, <2>2
<1>5. CASE loan' = loan /\ feat' = feat
  BY <1>0, <1>5
<1>6. CASE \E w \in Workers : WorkerStep(w)
  <2>1. PICK w \in Workers : WorkerStep(w)
    BY <1>6
  <2>2. CASE (\E j \in Job : Start(w, j)) \/ SelectLoan(w) \/ UpsertLoan(w)
             \/ UpsertLoanRefused(w) \/ UpsertSubscriberFirst(w) \/ FeatureRowIssued(w)
             \/ SnapshotLoan(w) \/ Acknowledge(w)
    BY <1>5, <2>2 DEF Start, SelectLoan, UpsertLoan, UpsertLoanRefused, UpsertSubscriberFirst,
       FeatureRowIssued, SnapshotLoan, Acknowledge, FailAttempt, dbVars
  <2>3. CASE InsertRecovery(w) \/ ItemUnknownLoan(w) \/ ItemAlreadyRecovered(w) \/ ItemRecover(w)
             \/ CreditFeature(w) \/ Recompute(w) \/ DeadlockAbort(w)
    BY <1>5, <2>3 DEF InsertRecovery, ItemUnknownLoan, ItemAlreadyRecovered, ItemRecover,
       CreditFeature, Recompute, DeadlockAbort, FailAttempt, dbVars
  <2>4. QED BY <1>1, <1>2, <1>3, <2>1, <2>2, <2>3 DEF WorkerStep
<1>7. CASE Fault \/ Webhook \/ (\E k \in Loans : Age(k)) \/ UNCHANGED vars
  BY <1>5, <1>7 DEF Fault, StatementError, WorkerCrash, FailAttempt, Webhook, AirtelLoan,
     InternalLoan, AirtelRecovery, InternalRecovery, SendRecovery, Enqueue, Age, vars, dbVars
<1>8. QED BY <1>4, <1>6, <1>7 DEF LiveNext

LEMMA KoboInvStep ==
    ASSUME KoboInv, LoanDeliveries = 1, "DEFAULTED" \notin InternalStatuses, [LiveNext]_vars,
           [~LateCrash]_vars
    PROVE  KoboInv'
<1>1. SettledInv'
  BY SettledInvSafe DEF KoboInv, Next
<1>2. CountersAgree'
  BY CountersStep DEF KoboInv, LedgerInv, SettledInv, OnceInv
<1>3. QED
  BY <1>1, <1>2, PayloadStep, OpenTakenStep, PriorStep, KoboTxStep, KoboStep DEF KoboInv

LEMMA KoboInvInit ==
    ASSUME Init
    PROVE  KoboInv
<1>1. CountersAgree /\ PayloadOK /\ OpenTaken
  BY DEF Init, CountersAgree, PayloadOK, OpenTaken
<1>2. \A w \in Workers : PriorOK(w) /\ KoboTxOK(w)
  BY DEF Init, PriorOK, KoboTxOK, Writing, RecoverySteps
<1>3. \A s \in Subscribers : KoboOK(s)
  <2>1. \A s \in Subscribers : Owing(s) = {}
    BY DEF Init, Owing, Zero
  <2>2. \A s \in Subscribers : feat[s].kobo = 0
    BY DEF Init
  <2>3. IsFiniteSet({}) /\ SumRepayable[{}] = 0
    BY FS_EmptySet, SumAssumption
  <2>4. QED BY <2>1, <2>2, <2>3 DEF KoboOK
<1>4. QED BY <1>1, <1>2, <1>3, SettledInvInit DEF KoboInv

\* Where every fulfilment is delivered once, no loan is reported in default
\* from the start and no process dies late, the running total of the feature
\* row is what the loans counted as taken and not as recovered add up to: no
\* delta is lost or applied twice, and the clamp at zero swallows nothing.
THEOREM KoboAlwaysMatches ==
    ASSUME LoanDeliveries = 1, "DEFAULTED" \notin InternalStatuses
    PROVE  LiveSpec /\ [][~LateCrash]_vars => []KoboMatchesCounters
<1>1. KoboInv => KoboMatchesCounters
  BY DEF KoboInv, KoboOK, Owing, KoboMatchesCounters
<1>2. KoboInv /\ [LiveNext]_vars /\ [~LateCrash]_vars => KoboInv'
  BY KoboInvStep
<1>3. QED BY <1>1, <1>2, KoboInvInit, PTL DEF LiveSpec
-----------------------------------------------------------------------------
\* Desk: what the requests send, and the invariant.

Actions == Statuses \union {"created", "assigned", "message"}

\* What the requests set in a row, and the statements they send.
Patches ==
    [status : Statuses, dated : BOOLEAN] \union [assignee : People]
    \union [assignee : People, status : Statuses] \union [status : Statuses]
    \union [count : Nat]

Statements ==
    [what : {"updateRow"}, arg : Tickets \X Patches]
    \union [what : {"saveTickets"}, arg : UNION {[ts -> Rows] : ts \in SUBSET Tickets}]
    \union [what : {"insertTicket"}, arg : Tickets \X {r \in Rows : ~r.dated /\ r.count = 0}]
    \union [what : {"readAgent", "saveAgent"}, arg : Agents \X Int]
    \union [what : {"saveMessage"}, arg : Tickets]
    \union [what : {"saveHistory"}, arg : Tickets \X Actions]
    \union [what : {"enqueue"}, arg : SUBSET Notices]

NoticeJobs == [st : Log!JobStates, tries : Nat, data : Notices]
Flushes == [by : Log!Triggers, batch : Seq(Notices)]

DeskTyped ==
    /\ tickets \in [Tickets -> Rows \union {Missing}] /\ load \in [Agents -> Int]
    /\ messages \in [Tickets -> Nat] /\ history \in [Tickets -> SUBSET Actions]
    /\ calls \in [Slots -> Seq(Statements)] /\ overlaps \in Nat /\ failures \in Nat
    /\ asked \in [Notices -> Nat] /\ table \in [Notices -> Nat]
    /\ noticeJob \in [Notices -> NoticeJobs \union {NoJob}]
    /\ buffer \in Seq(Notices) /\ flushing \in Flushes \union {NoFlush}
    /\ closing \in BOOLEAN

\* Tickets that a statement finds.
Finds(d) ==
    CASE d.what = "updateRow" -> {d.arg[1]}
      [] d.what = "saveTickets" -> DOMAIN d.arg
      [] d.what = "saveMessage" -> {d.arg}
      [] OTHER -> {}

Known == {t \in Tickets : Exists(t)}
Finding(s, known) == \A i \in DOMAIN s : Finds(s[i]) \subseteq known

Present ==
    /\ \A t \in Tickets \ Known : messages[t] = 0
    /\ \A c \in Slots : Finding(calls[c], Known)

\* The statement sets the counter.
SetsCount(d) == d.what = "updateRow" /\ d.arg[2] \in [count : Nat]

\* What the statements s write, in their order, is covered by the messages m.
Covered(s, m) ==
    \A i \in DOMAIN s :
        /\ SetsCount(s[i]) =>
              \/ s[i].arg[2].count <= m[s[i].arg[1]]
              \/ /\ s[i].arg[2].count <= m[s[i].arg[1]] + 1
                 /\ \E j \in 1 .. i - 1 : s[j] = Do("saveMessage", s[i].arg[1])
        /\ s[i].what = "saveTickets" => \A t \in DOMAIN s[i].arg : s[i].arg[t].count <= m[t]

NeverTooMany ==
    /\ \A t \in Known : tickets[t].count <= messages[t]
    /\ \A c \in Slots : Covered(calls[c], messages)

\* What s asks for is in the history h, or noted by a statement before.
Noted(s, h) ==
    \A i \in DOMAIN s : s[i].what = "enqueue" =>
        \A n \in s[i].arg :
            \/ n.kind \in h[n.ticket]
            \/ \E j \in 1 .. i - 1 : s[j] = Do("saveHistory", <<n.ticket, n.kind>>)

Told ==
    /\ \A n \in Notices : asked[n] > 0 => n.kind \in history[n.ticket]
    /\ \A c \in Slots : Noted(calls[c], history)

DatedTickets == {t \in Known : tickets[t].dated}

\* The statement writes dates, and the tickets it dates.
SetsDate(d) ==
    \/ d.what = "updateRow" /\ d.arg[2] \in [status : Statuses, dated : BOOLEAN]
    \/ d.what = "saveTickets"

Dates(d) ==
    IF d.what = "saveTickets" THEN {t \in DOMAIN d.arg : d.arg[t].dated}
    ELSE IF SetsDate(d) THEN {t \in {d.arg[1]} : d.arg[2].dated}
    ELSE {}

\* Only the first of s writes dates, and it takes none away; what is recorded
\* as resolved has its date by then.
Dating(s, dated) ==
    \A i \in DOMAIN s :
        /\ SetsDate(s[i]) => i = 1 /\ Finds(s[i]) \intersect dated \subseteq Dates(s[i])
        /\ \A t \in Tickets : s[i] = Do("saveHistory", <<t, "resolved">>) =>
              t \in dated \/ (i > 1 /\ t \in Dates(s[1]))

Alone == \A c, d \in Slots : c = d \/ calls[c] = Idle \/ calls[d] = Idle

DatesKept ==
    overlaps = 0 =>
        /\ Alone
        /\ \A t \in Tickets : "resolved" \in history[t] => t \in DatedTickets
        /\ \A c \in Slots : Dating(calls[c], DatedTickets)

\* The counters of the rows are right, but for those of a set.
Level(rows, m, except) ==
    \A t \in Tickets \ except : rows[t] # Missing => rows[t].count = m[t]

\* The statements leave counters and messages as they are.
LeavesCounts(s, rows) ==
    \A i \in DOMAIN s :
        /\ s[i].what # "saveMessage" /\ ~SetsCount(s[i])
        /\ s[i].what = "saveTickets" =>
              \A t \in DOMAIN s[i].arg : s[i].arg[t].count = rows[t].count

\* The statements of sendMessage, from one of them on.
Counting(t, n) == <<Do("updateRow", <<t, [count |-> n]>>), Do("saveHistory", <<t, "message">>)>>
Sending(t, n) ==
    <<Do("saveMessage", t), Do("updateRow", <<t, [count |-> n]>>),
      Do("saveHistory", <<t, "message">>)>>

\* The one request under way is not about messages, or is sendMessage before
\* or after its message is saved.
Exact(s, rows, m) ==
    \/ Level(rows, m, {}) /\ LeavesCounts(s, rows)
    \/ Level(rows, m, {}) /\ \E t \in Tickets : s = Sending(t, m[t] + 1)
    \/ \E t \in Tickets : Level(rows, m, {t}) /\ s = Counting(t, m[t])

CountsExact ==
    Undisturbed =>
        /\ (\A c \in Slots : calls[c] = Idle) => Level(tickets, messages, {})
        /\ \A c \in Slots : calls[c] # Idle => Exact(calls[c], tickets, messages)

Times(n, batch) == Cardinality({i \in DOMAIN batch : batch[i] = n})
OnItsWay(n) ==
    (IF Log!Waiting(n) THEN 1 ELSE 0) + Times(n, buffer)
    + (IF flushing = NoFlush THEN 0 ELSE Times(n, flushing.batch))

\* A job carries its own notice, and without a fault none is lost or doubled.
Queued ==
    /\ \A n \in Notices : noticeJob[n] # NoJob => noticeJob[n].data = n
    /\ failures = 0 => ~closing /\ \A n \in Notices : asked[n] = table[n] + OnItsWay(n)

DeskInv ==
    /\ DeskTyped /\ Present /\ NeverTooMany /\ Told /\ DatesKept /\ CountsExact /\ Queued

-----------------------------------------------------------------------------
\* What is left of a sequence once its first element is taken.
LEMMA TailElements ==
    ASSUME NEW S, NEW s \in Seq(S), s # <<>>
    PROVE  /\ 1 \in DOMAIN s /\ Head(s) = s[1] /\ Tail(s) \in Seq(S)
           /\ \A i \in DOMAIN Tail(s) :
                 /\ i \in Nat \ {0} /\ i + 1 \in DOMAIN s /\ Tail(s)[i] = s[i + 1]
           /\ DOMAIN Tail(s) = 1 .. Len(s) - 1 /\ DOMAIN s = 1 .. Len(s) /\ Len(s) \in Nat
    OBVIOUS

\* The first element of a sequence is replaced.
LEMMA HeadReplaced ==
    ASSUME NEW S, NEW s \in Seq(S), s # <<>>, NEW d \in S
    PROVE  LET x == <<d>> \o Tail(s)
           IN  /\ x \in Seq(S) /\ DOMAIN x = DOMAIN s /\ x[1] = d
               /\ \A i \in DOMAIN s : i \in Nat \ {0} /\ (i # 1 => x[i] = s[i])
<1> DEFINE y == Tail(s)
<1>1. y \in Seq(S) /\ Len(y) = Len(s) - 1 /\ Len(s) \in Nat \ {0}
    OBVIOUS
<1>2. \A i \in 1 .. Len(y) : y[i] = s[i + 1]
    OBVIOUS
<1>3. /\ <<d>> \o y \in Seq(S) /\ Len(<<d>> \o y) = 1 + Len(y)
      /\ (<<d>> \o y)[1] = d
      /\ \A i \in 2 .. 1 + Len(y) : (<<d>> \o y)[i] = y[i - 1]
    BY <1>1
<1>4. \A i \in DOMAIN s : i # 1 => i \in 2 .. 1 + Len(y) /\ i - 1 \in 1 .. Len(y) /\ y[i - 1] = s[i]
    BY <1>1, <1>2
<1> HIDE DEF y
<1>5. DOMAIN (<<d>> \o y) = DOMAIN s
    BY <1>1, <1>3
<1>6. \A i \in DOMAIN s : i \in Nat \ {0}
    OBVIOUS
<1> QED
    BY <1>3, <1>4, <1>5, <1>6 DEF y

\* A patched row is a row, with the counter and the date it is given.
LEMMA RowPatched ==
    ASSUME NEW r \in Rows, NEW p \in Patches
    PROVE  /\ Patched(r, p) \in Rows
           /\ Patched(r, p).count = IF p \in [count : Nat] THEN p.count ELSE r.count
           /\ Patched(r, p).dated = IF p \in [status : Statuses, dated : BOOLEAN]
                                    THEN p.dated ELSE r.dated
<1>1. CASE p \in [status : Statuses, dated : BOOLEAN]
    BY <1>1 DEF Patched, Rows
<1>2. CASE p \in [assignee : People]
    BY <1>2 DEF Patched, Rows
<1>3. CASE p \in [assignee : People, status : Statuses]
    BY <1>3 DEF Patched, Rows
<1>4. CASE p \in [status : Statuses]
    BY <1>4 DEF Patched, Rows
<1>5. CASE p \in [count : Nat]
    BY <1>5 DEF Patched, Rows
<1> QED
    BY <1>1, <1>2, <1>3, <1>4, <1>5 DEF Patches

\* The argument of a statement by what it does.
LEMMA StatementArgs ==
    ASSUME NEW d \in Statements
    PROVE  /\ d.what = "updateRow" => d.arg \in Tickets \X Patches
           /\ d.what = "saveTickets" => d.arg \in UNION {[ts -> Rows] : ts \in SUBSET Tickets}
           /\ d.what = "insertTicket" =>
                 d.arg \in Tickets \X {r \in Rows : ~r.dated /\ r.count = 0}
           /\ d.what \in {"readAgent", "saveAgent"} => d.arg \in Agents \X Int
           /\ d.what = "saveMessage" => d.arg \in Tickets
           /\ d.what = "saveHistory" => d.arg \in Tickets \X Actions
           /\ d.what = "enqueue" => d.arg \in SUBSET Notices
           /\ d = Do(d.what, d.arg)
    BY DEF Statements, Do

\* Statements, by what they are made of.
LEMMA StatementTypes ==
    /\ \A t \in Tickets, p \in Patches : Do("updateRow", <<t, p>>) \in Statements
    /\ \A ts \in SUBSET Tickets : \A f \in [ts -> Rows] : Do("saveTickets", f) \in Statements
    /\ \A t \in Tickets, r \in Rows :
          ~r.dated /\ r.count = 0 => Do("insertTicket", <<t, r>>) \in Statements
    /\ \A a \in Agents, n \in Int :
          Do("readAgent", <<a, n>>) \in Statements /\ Do("saveAgent", <<a, n>>) \in Statements
    /\ \A t \in Tickets : Do("saveMessage", t) \in Statements
    /\ \A t \in Tickets, x \in Actions : Do("saveHistory", <<t, x>>) \in Statements
    /\ \A ns \in SUBSET Notices : Do("enqueue", ns) \in Statements
    BY DEF Statements, Do

\* Sequences with the same elements are the same; the empty one adds nothing.
LEMMA SameElements ==
    ASSUME NEW S, NEW s \in Seq(S), NEW r \in Seq(S), Len(s) = Len(r),
           \A i \in 1 .. Len(s) : s[i] = r[i]
    PROVE  s = r
    OBVIOUS

LEMMA EmptyJoined ==
    ASSUME NEW S, NEW s \in Seq(S)
    PROVE  <<>> \o s = s /\ s \o <<>> = s
<1>1. /\ <<>> \o s \in Seq(S) /\ Len(<<>> \o s) = Len(s)
      /\ \A i \in 1 .. Len(s) : (<<>> \o s)[i] = s[i]
    OBVIOUS
<1>2. /\ s \o <<>> \in Seq(S) /\ Len(s \o <<>>) = Len(s)
      /\ \A i \in 1 .. Len(s) : (s \o <<>>)[i] = s[i]
    OBVIOUS
<1> QED
    BY <1>1, <1>2, SameElements

\* Short sequences put together.
LEMMA Joined ==
    /\ \A a, b : <<a>> \o <<b>> = <<a, b>>
    /\ \A a, b, c : <<a>> \o <<b, c>> = <<a, b, c>>
    /\ \A a, b, c : <<a, b>> \o <<c>> = <<a, b, c>>
    /\ \A a, b, c, d : <<a, b, c>> \o <<d>> = <<a, b, c, d>>
    /\ \A a, b, c, d : <<a, b>> \o <<c, d>> = <<a, b, c, d>>
    /\ \A a, b, c, d, e : <<a, b, c>> \o <<d, e>> = <<a, b, c, d, e>>
    /\ \A a, b, c, d, e : <<a, b, c, d>> \o <<e>> = <<a, b, c, d, e>>
    /\ \A a, b, c, d, e, f : <<a, b, c, d>> \o <<e, f>> = <<a, b, c, d, e, f>>
    /\ \A a, b, c, d, e, f : <<a, b, c, d, e>> \o <<f>> = <<a, b, c, d, e, f>>
<1>1. ASSUME NEW a, NEW b PROVE <<a>> \o <<b>> = <<a, b>>
    <2> DEFINE S == {a, b}
               x == <<a>> \o <<b>>
               y == <<a, b>>
    <2>1. x \in Seq(S) /\ y \in Seq(S) /\ Len(x) = 2 /\ Len(y) = 2
        OBVIOUS
    <2>2. \A i \in 1 .. 2 : x[i] = y[i]
        OBVIOUS
    <2> HIDE DEF x, y, S
    <2>3. x = y
        BY <2>1, <2>2, SameElements
    <2> QED
        BY <2>3 DEF x, y
<1>2. ASSUME NEW a, NEW b, NEW c PROVE <<a>> \o <<b, c>> = <<a, b, c>>
    <2> DEFINE S == {a, b, c}
               x == <<a>> \o <<b, c>>
               y == <<a, b, c>>
    <2>1. x \in Seq(S) /\ y \in Seq(S) /\ Len(x) = 3 /\ Len(y) = 3
        OBVIOUS
    <2>2. \A i \in 1 .. 3 : x[i] = y[i]
        OBVIOUS
    <2> HIDE DEF x, y, S
    <2>3. x = y
        BY <2>1, <2>2, SameElements
    <2> QED
        BY <2>3 DEF x, y
<1>3. ASSUME NEW a, NEW b, NEW c PROVE <<a, b>> \o <<c>> = <<a, b, c>>
    <2> DEFINE S == {a, b, c}
               x == <<a, b>> \o <<c>>
               y == <<a, b, c>>
    <2>1. x \in Seq(S) /\ y \in Seq(S) /\ Len(x) = 3 /\ Len(y) = 3
        OBVIOUS
    <2>2. \A i \in 1 .. 3 : x[i] = y[i]
        OBVIOUS
    <2> HIDE DEF x, y, S
    <2>3. x = y
        BY <2>1, <2>2, SameElements
    <2> QED
        BY <2>3 DEF x, y
<1>4. ASSUME NEW a, NEW b, NEW c, NEW d PROVE <<a, b, c>> \o <<d>> = <<a, b, c, d>>
    <2> DEFINE S == {a, b, c, d}
               x == <<a, b, c>> \o <<d>>
               y == <<a, b, c, d>>
    <2>1. x \in Seq(S) /\ y \in Seq(S) /\ Len(x) = 4 /\ Len(y) = 4
        OBVIOUS
    <2>2. \A i \in 1 .. 4 : x[i] = y[i]
        OBVIOUS
    <2> HIDE DEF x, y, S
    <2>3. x = y
        BY <2>1, <2>2, SameElements
    <2> QED
        BY <2>3 DEF x, y
<1>5. ASSUME NEW a, NEW b, NEW c, NEW d PROVE <<a, b>> \o <<c, d>> = <<a, b, c, d>>
    <2> DEFINE S == {a, b, c, d}
               x == <<a, b>> \o <<c, d>>
               y == <<a, b, c, d>>
    <2>1. x \in Seq(S) /\ y \in Seq(S) /\ Len(x) = 4 /\ Len(y) = 4
        OBVIOUS
    <2>2. \A i \in 1 .. 4 : x[i] = y[i]
        OBVIOUS
    <2> HIDE DEF x, y, S
    <2>3. x = y
        BY <2>1, <2>2, SameElements
    <2> QED
        BY <2>3 DEF x, y
<1>6. ASSUME NEW a, NEW b, NEW c, NEW d, NEW e PROVE <<a, b, c>> \o <<d, e>> = <<a, b, c, d, e>>
    <2> DEFINE S == {a, b, c, d, e}
               x == <<a, b, c>> \o <<d, e>>
               y == <<a, b, c, d, e>>
    <2>1. x \in Seq(S) /\ y \in Seq(S) /\ Len(x) = 5 /\ Len(y) = 5
        OBVIOUS
    <2>2. \A i \in 1 .. 5 : x[i] = y[i]
        OBVIOUS
    <2> HIDE DEF x, y, S
    <2>3. x = y
        BY <2>1, <2>2, SameElements
    <2> QED
        BY <2>3 DEF x, y
<1>7. ASSUME NEW a, NEW b, NEW c, NEW d, NEW e PROVE <<a, b, c, d>> \o <<e>> = <<a, b, c, d, e>>
    <2> DEFINE S == {a, b, c, d, e}
               x == <<a, b, c, d>> \o <<e>>
               y == <<a, b, c, d, e>>
    <2>1. x \in Seq(S) /\ y \in Seq(S) /\ Len(x) = 5 /\ Len(y) = 5
        OBVIOUS
    <2>2. \A i \in 1 .. 5 : x[i] = y[i]
        OBVIOUS
    <2> HIDE DEF x, y, S
    <2>3. x = y
        BY <2>1, <2>2, SameElements
    <2> QED
        BY <2>3 DEF x, y
<1>8. ASSUME NEW a, NEW b, NEW c, NEW d, NEW e, NEW f PROVE <<a, b, c, d>> \o <<e, f>> = <<a, b, c, d, e, f>>
    <2> DEFINE S == {a, b, c, d, e, f}
               x == <<a, b, c, d>> \o <<e, f>>
               y == <<a, b, c, d, e, f>>
    <2>1. x \in Seq(S) /\ y \in Seq(S) /\ Len(x) = 6 /\ Len(y) = 6
        OBVIOUS
    <2>2. \A i \in 1 .. 6 : x[i] = y[i]
        OBVIOUS
    <2> HIDE DEF x, y, S
    <2>3. x = y
        BY <2>1, <2>2, SameElements
    <2> QED
        BY <2>3 DEF x, y
<1>9. ASSUME NEW a, NEW b, NEW c, NEW d, NEW e, NEW f PROVE <<a, b, c, d, e>> \o <<f>> = <<a, b, c, d, e, f>>
    <2> DEFINE S == {a, b, c, d, e, f}
               x == <<a, b, c, d, e>> \o <<f>>
               y == <<a, b, c, d, e, f>>
    <2>1. x \in Seq(S) /\ y \in Seq(S) /\ Len(x) = 6 /\ Len(y) = 6
        OBVIOUS
    <2>2. \A i \in 1 .. 6 : x[i] = y[i]
        OBVIOUS
    <2> HIDE DEF x, y, S
    <2>3. x = y
        BY <2>1, <2>2, SameElements
    <2> QED
        BY <2>3 DEF x, y
<1> QED
    BY <1>1, <1>2, <1>3, <1>4, <1>5, <1>6, <1>7, <1>8, <1>9

-----------------------------------------------------------------------------
\* What a request sends fits the state in which it is begun.
Fits(s) ==
    /\ s \in Seq(Statements)
    /\ Finding(s, Known) /\ Covered(s, messages) /\ Noted(s, history)
    /\ Dating(s, DatedTickets)
    /\ Level(tickets, messages, {}) => Exact(s, tickets, messages)

\* A statement about no message and no date.
Plain(d) ==
    /\ d.what \in {"enqueue", "insertTicket", "readAgent", "saveAgent", "saveHistory", "updateRow"}
    /\ \A t : d # Do("saveHistory", <<t, "resolved">>)
    /\ d.what = "updateRow" => d.arg[1] \in Known /\ ~SetsCount(d) /\ ~SetsDate(d)

\* A request without messages and dates fits, if what it asks for is noted.
LEMMA PlainFits ==
    ASSUME NEW s \in Seq(Statements), \A i \in DOMAIN s : Plain(s[i]), Noted(s, history)
    PROVE  Fits(s)
<1>1. Finding(s, Known)
    BY DEF Finding, Finds, Plain
<1>2. Covered(s, messages)
    BY DEF Covered, Plain, SetsCount
<1>3. Dating(s, DatedTickets)
    BY DEF Dating, Plain, SetsDate
<1>4. LeavesCounts(s, tickets)
    BY DEF LeavesCounts, Plain, SetsCount
<1> QED
    BY <1>1, <1>2, <1>3, <1>4 DEF Fits, Exact

\* Statements that are plain.
LEMMA PlainKinds ==
    /\ \A w \in {"enqueue", "insertTicket", "readAgent", "saveAgent"} : \A x : Plain(Do(w, x))
    /\ \A t, x : x # "resolved" => Plain(Do("saveHistory", <<t, x>>))
    /\ \A t \in Known, who \in People, x \in Statuses :
          /\ Plain(Do("updateRow", <<t, [assignee |-> who]>>))
          /\ Plain(Do("updateRow", <<t, [assignee |-> who, status |-> x]>>))
          /\ Plain(Do("updateRow", <<t, [status |-> x]>>))
<1>1. \A w \in {"enqueue", "insertTicket", "readAgent", "saveAgent"} : \A x : Plain(Do(w, x))
    BY DEF Plain, Do
<1>2. \A t, x : x # "resolved" => Plain(Do("saveHistory", <<t, x>>))
    BY DEF Plain, Do
<1>3. \A t \in Known : \A p : p \notin [count : Nat] /\ p \notin [status : Statuses, dated : BOOLEAN]
        => Plain(Do("updateRow", <<t, p>>))
    BY DEF Plain, Do, SetsCount, SetsDate
<1>4. \A who, x :
        /\ [assignee |-> who] \notin [count : Nat] \union [status : Statuses, dated : BOOLEAN]
        /\ [assignee |-> who, status |-> x] \notin [count : Nat] \union [status : Statuses, dated : BOOLEAN]
        /\ [status |-> x] \notin [count : Nat] \union [status : Statuses, dated : BOOLEAN]
    OBVIOUS
<1> QED
    BY <1>1, <1>2, <1>3, <1>4

LEMMA KnownRow ==
    ASSUME DeskTyped, NEW t \in Tickets, Exists(t)
    PROVE  t \in Known /\ tickets[t] \in Rows
    BY DEF DeskTyped, Known, Exists

\* Notices to some of the administrators.
LEMMA NoticesSent ==
    ASSUME NEW t \in Tickets, NEW k \in {"created", "assigned", "escalated"}, NEW A \in SUBSET Admins
    PROVE  LET d == Do("enqueue", {[kind |-> k, ticket |-> t, to |-> a] : a \in A})
           IN  /\ Notify(A, k, t) = <<d>> /\ d \in Statements /\ Plain(d)
               /\ d.what = "enqueue" /\ \A n \in d.arg : n.kind = k /\ n.ticket = t
<1>1. {[kind |-> k, ticket |-> t, to |-> a] : a \in A} \in SUBSET Notices
    BY DEF Notices
<1> QED
    BY <1>1, StatementTypes, PlainKinds DEF Notify, Do

\* createTicket.
LEMMA CreateFits ==
    ASSUME DeskTyped, NEW c \in Slots, NEW who \in People \union {Missing}, createTicket(c, who)
    PROVE  \E s : Begin(c, s) /\ Fits(s)
<1> DEFINE n == Cardinality({t \in Tickets : Exists(t)}) + 1
           row == [status |-> IF who = Missing THEN "open" ELSE "in-progress",
                   assignee |-> who, dated |-> FALSE, count |-> 0]
           told == Do("enqueue", {[kind |-> "created", ticket |-> n, to |-> a] : a \in Admins})
           told2 == Do("enqueue", {[kind |-> "assigned", ticket |-> n, to |-> a] : a \in Recipients(who)})
           ins == Do("insertTicket", <<n, row>>)
           h1 == Do("saveHistory", <<n, "created">>)
           h2 == Do("saveHistory", <<n, "assigned">>)
           rd == Do("readAgent", <<who, 1>>)
           todo == Adjust(who, 1) \o <<Do("insertTicket", <<n, row>>)>> \o Note(n, "created")
                    \o (IF who = Missing THEN <<>>
                        ELSE Note(n, "assigned") \o Notify(Recipients(who), "assigned", n))
                    \o Notify(Admins, "created", n)
<1>1. n \in Tickets /\ Begin(c, todo)
    BY DEF createTicket
<1>2. row \in Rows /\ ~row.dated /\ row.count = 0
    BY DEF Rows, Statuses
<1> HIDE DEF n, row
<1>3. /\ Notify(Admins, "created", n) = <<told>>
      /\ Notify(Recipients(who), "assigned", n) = <<told2>>
      /\ told \in Statements /\ Plain(told) /\ told.what = "enqueue"
      /\ \A m \in told.arg : m.kind = "created" /\ m.ticket = n
      /\ told2 \in Statements /\ Plain(told2) /\ told2.what = "enqueue"
      /\ \A m \in told2.arg : m.kind = "assigned" /\ m.ticket = n
    <2>1. Admins \in SUBSET Admins /\ Recipients(who) \in SUBSET Admins
        BY DEF Recipients
    <2>2. /\ Notify(Admins, "created", n) = <<told>>
          /\ told \in Statements /\ Plain(told) /\ told.what = "enqueue"
          /\ \A m \in told.arg : m.kind = "created" /\ m.ticket = n
        BY <1>1, <2>1, NoticesSent
    <2>3. /\ Notify(Recipients(who), "assigned", n) = <<told2>>
          /\ told2 \in Statements /\ Plain(told2) /\ told2.what = "enqueue"
          /\ \A m \in told2.arg : m.kind = "assigned" /\ m.ticket = n
        <3> DEFINE A == Recipients(who)
        <3>1. A \in SUBSET Admins
            BY <2>1
        <3> HIDE DEF A
        <3>2. LET d == Do("enqueue", {[kind |-> "assigned", ticket |-> n, to |-> a] : a \in A})
              IN  /\ Notify(A, "assigned", n) = <<d>> /\ d \in Statements /\ Plain(d)
                  /\ d.what = "enqueue" /\ \A m \in d.arg : m.kind = "assigned" /\ m.ticket = n
            BY <1>1, <3>1, NoticesSent
        <3> QED
            BY <3>2 DEF A
    <2> QED
        BY <2>2, <2>3
<1>4. ins \in Statements /\ h1 \in Statements /\ h2 \in Statements /\ (who \in Agents => rd \in Statements)
    BY <1>1, <1>2, StatementTypes DEF Actions
<1>5. Plain(ins) /\ Plain(h1) /\ Plain(h2) /\ Plain(rd)
    BY PlainKinds
<1>6. /\ h1 = Do("saveHistory", <<n, "created">>) /\ h2 = Do("saveHistory", <<n, "assigned">>)
      /\ ins.what # "enqueue" /\ h1.what # "enqueue" /\ h2.what # "enqueue" /\ rd.what # "enqueue"
    BY DEF Do
<1> HIDE DEF told, told2, ins, h1, h2, rd
<1>7. todo = (IF who \in Agents THEN <<rd>> ELSE <<>>) \o <<ins>> \o <<h1>>
             \o (IF who = Missing THEN <<>> ELSE <<h2>> \o <<told2>>) \o <<told>>
    BY <1>3 DEF Adjust, Note, ins, h1, h2, rd
<1> HIDE DEF todo
<1>8. \/ todo = <<ins, h1, told>>
      \/ todo = <<ins, h1, h2, told2, told>>
      \/ who \in Agents /\ todo = <<rd, ins, h1, told>>
      \/ who \in Agents /\ todo = <<rd, ins, h1, h2, told2, told>>
    <2>0. <<>> \o <<ins>> = <<ins>> /\ <<ins, h1>> \o <<>> = <<ins, h1>>
          /\ <<rd, ins, h1>> \o <<>> = <<rd, ins, h1>>
        <3>1. <<ins>> \in Seq({ins, h1, rd}) /\ <<ins, h1>> \in Seq({ins, h1, rd})
              /\ <<rd, ins, h1>> \in Seq({ins, h1, rd})
            OBVIOUS
        <3> QED
            BY <3>1, EmptyJoined
    <2>5. /\ <<ins>> \o <<h1>> = <<ins, h1>> /\ <<ins, h1>> \o <<told>> = <<ins, h1, told>>
          /\ <<rd>> \o <<ins>> = <<rd, ins>> /\ <<rd, ins>> \o <<h1>> = <<rd, ins, h1>>
          /\ <<rd, ins, h1>> \o <<told>> = <<rd, ins, h1, told>>
          /\ <<h2>> \o <<told2>> = <<h2, told2>>
          /\ <<ins, h1>> \o <<h2, told2>> = <<ins, h1, h2, told2>>
          /\ <<ins, h1, h2, told2>> \o <<told>> = <<ins, h1, h2, told2, told>>
          /\ <<rd, ins, h1>> \o <<h2, told2>> = <<rd, ins, h1, h2, told2>>
          /\ <<rd, ins, h1, h2, told2>> \o <<told>> = <<rd, ins, h1, h2, told2, told>>
        BY Joined
    <2>1. CASE who \in Agents /\ who = Missing
        BY <1>7, <2>0, <2>1, <2>5
    <2>2. CASE who \in Agents /\ who # Missing
        BY <1>7, <2>0, <2>2, <2>5
    <2>3. CASE who \notin Agents /\ who = Missing
        BY <1>7, <2>0, <2>3, <2>5
    <2>4. CASE who \notin Agents /\ who # Missing
        BY <1>7, <2>0, <2>4, <2>5
    <2> QED
        BY <2>1, <2>2, <2>3, <2>4
<1>9. todo \in Seq(Statements) /\ \A i \in DOMAIN todo : Plain(todo[i])
    <2>1. CASE todo = <<ins, h1, told>>
        BY <1>3, <1>4, <1>5, <2>1
    <2>2. CASE todo = <<ins, h1, h2, told2, told>>
        BY <1>3, <1>4, <1>5, <2>2
    <2>3. CASE who \in Agents /\ todo = <<rd, ins, h1, told>>
        BY <1>3, <1>4, <1>5, <2>3
    <2>4. CASE who \in Agents /\ todo = <<rd, ins, h1, h2, told2, told>>
        <3>1. rd \in Statements
            BY <1>4, <2>4
        <3>2. DOMAIN todo = 1 .. 6 /\ Len(todo) = 6
              /\ \A i \in 1 .. 6 : todo[i] \in {rd, ins, h1, h2, told2, told}
            BY <2>4
        <3>3. todo \in Seq({rd, ins, h1, h2, told2, told})
            BY <2>4
        <3> QED
            BY <1>3, <1>4, <1>5, <3>1, <3>2, <3>3
    <2> QED
        BY <1>8, <2>1, <2>2, <2>3, <2>4
<1>10. Noted(todo, history)
    <2>2. CASE todo = <<ins, h1, told>>
        BY <1>1, <1>3, <1>6, <2>2 DEF Noted
    <2>3. CASE todo = <<ins, h1, h2, told2, told>>
        BY <1>1, <1>3, <1>6, <2>3 DEF Noted
    <2>4. CASE todo = <<rd, ins, h1, told>>
        BY <1>1, <1>3, <1>6, <2>4 DEF Noted
    <2>5. CASE todo = <<rd, ins, h1, h2, told2, told>>
        BY <1>1, <1>3, <1>6, <2>5 DEF Noted
    <2> QED
        BY <1>8, <2>2, <2>3, <2>4, <2>5
<1> QED
    BY <1>1, <1>9, <1>10, PlainFits

\* Requests of one, two and three statements that ask for nothing.
LEMMA NothingAsked ==
    ASSUME NEW s, \A i \in DOMAIN s : s[i].what # "enqueue"
    PROVE  Noted(s, history)
    BY DEF Noted

\* updateTicket: the first statement dates the ticket, if need be.
LEMMA UpdateFits ==
    ASSUME DeskTyped, NEW c \in Slots, NEW t \in Tickets, NEW status \in Statuses,
           updateTicket(c, t, status)
    PROVE  \E s : Begin(c, s) /\ Fits(s)
<1> DEFINE row == tickets[t]
           patch == [status |-> status, dated |-> row.dated \/ status = "resolved"]
           who == row.assignee
           u == Do("updateRow", <<t, patch>>)
           h == Do("saveHistory", <<t, status>>)
           rd == Do("readAgent", <<who, -1>>)
           todo == IF status = row.status THEN Update(t, patch)
                   ELSE Recorded(t, patch, status)
                        \o (IF status \in Done THEN Adjust(row.assignee, -1) ELSE <<>>)
<1>1. t \in Known /\ row \in Rows /\ Begin(c, todo)
    BY KnownRow DEF updateTicket
<1>2. patch \in [status : Statuses, dated : BOOLEAN] /\ patch \notin [count : Nat]
      /\ patch.dated = (row.dated \/ status = "resolved")
    BY <1>1 DEF Rows
<1> HIDE DEF patch
<1>3. u \in Statements /\ h \in Statements /\ (who \in Agents => rd \in Statements)
    <2>1. patch \in Patches
        BY <1>2 DEF Patches
    <2>2. status \in Actions
        BY DEF Actions
    <2>3. -1 \in Int
        OBVIOUS
    <2> QED
        BY <2>1, <2>2, <2>3, StatementTypes
<1>4. /\ u.what = "updateRow" /\ u.arg = <<t, patch>> /\ u.arg[1] = t /\ u.arg[2] = patch
      /\ h.what = "saveHistory" /\ h.arg = <<t, status>> /\ rd.what = "readAgent"
    BY DEF Do
<1> HIDE DEF u, h, rd, who
<1>5. \/ todo = <<u>> \/ todo = <<u, h>> \/ (who \in Agents /\ todo = <<u, h, rd>>)
    <2>1. Update(t, patch) = <<u>> /\ Recorded(t, patch, status) = <<u>> \o <<h>>
          /\ Adjust(row.assignee, -1) = IF who \in Agents THEN <<rd>> ELSE <<>>
        BY DEF Update, Note, Recorded, Adjust, u, h, rd, who
    <2>2. <<u>> \o <<h>> = <<u, h>> /\ <<u, h>> \o <<rd>> = <<u, h, rd>>
        BY Joined
    <2>3. <<u, h>> \o <<>> = <<u, h>>
        <3>1. <<u, h>> \in Seq({u, h})
            OBVIOUS
        <3> QED
            BY <3>1, EmptyJoined
    <2> QED
        BY <2>1, <2>2, <2>3
<1> HIDE DEF todo
<1>6. /\ todo \in Seq(Statements) /\ 1 \in DOMAIN todo /\ todo[1] = u
      /\ \A i \in DOMAIN todo : i \in Nat /\ (i # 1 => i > 1 /\ todo[i] \in {h, rd})
    <2>1. CASE todo = <<u>>
        BY <1>3, <2>1
    <2>2. CASE todo = <<u, h>>
        BY <1>3, <2>2
    <2>3. CASE who \in Agents /\ todo = <<u, h, rd>>
        <3>1. rd \in Statements
            BY <1>3, <2>3
        <3> QED
            BY <1>3, <2>3, <3>1
    <2> QED
        BY <1>5, <2>1, <2>2, <2>3
<1>7. \A i \in DOMAIN todo : i # 1 => todo[i].what \in {"saveHistory", "readAgent"}
    BY <1>4, <1>6
<1>8. Noted(todo, history)
    BY <1>4, <1>6, <1>7, NothingAsked
<1>9. ~SetsCount(u) /\ SetsDate(u) /\ Finds(u) = {t} /\ Dates(u) = {x \in {t} : patch.dated}
    BY <1>2, <1>4 DEF SetsCount, SetsDate, Finds, Dates
<1>10. Finding(todo, Known)
    BY <1>1, <1>6, <1>7, <1>9 DEF Finding, Finds
<1>11. Covered(todo, messages) /\ LeavesCounts(todo, tickets)
    BY <1>4, <1>6, <1>7, <1>9 DEF Covered, LeavesCounts, SetsCount
<1>12. Dating(todo, DatedTickets)
    <2> SUFFICES ASSUME NEW i \in DOMAIN todo
                 PROVE  /\ SetsDate(todo[i]) =>
                              i = 1 /\ Finds(todo[i]) \intersect DatedTickets \subseteq Dates(todo[i])
                        /\ \A x \in Tickets : todo[i] = Do("saveHistory", <<x, "resolved">>) =>
                              x \in DatedTickets \/ (i > 1 /\ x \in Dates(todo[1]))
        BY DEF Dating
    <2>1. CASE i = 1
        <3>1. t \in DatedTickets => patch.dated
            BY <1>2 DEF DatedTickets
        <3>2. \A x : u # Do("saveHistory", <<x, "resolved">>)
            BY <1>4 DEF Do
        <3> QED
            BY <1>6, <1>9, <2>1, <3>1, <3>2
    <2>2. CASE i # 1
        <3>1. ~SetsDate(todo[i])
            BY <1>7, <2>2 DEF SetsDate
        <3>2. ASSUME NEW x \in Tickets, todo[i] = Do("saveHistory", <<x, "resolved">>)
              PROVE  i > 1 /\ x \in Dates(todo[1])
            <4>1. todo[i] = h /\ x = t /\ status = "resolved"
                BY <1>4, <1>6, <2>2, <3>2 DEF Do
            <4> QED
                BY <1>2, <1>6, <1>9, <2>2, <4>1
        <3> QED
            BY <3>1, <3>2
    <2> QED
        BY <2>1, <2>2
<1> QED
    BY <1>1, <1>6, <1>8, <1>10, <1>11, <1>12 DEF Fits, Exact

\* updateTicket with assignedTo.
LEMMA ReassignFits ==
    ASSUME DeskTyped, NEW c \in Slots, NEW t \in Tickets, NEW who \in People,
           reassignTicket(c, t, who)
    PROVE  \E s : Begin(c, s) /\ Fits(s)
<1> DEFINE u == Do("updateRow", <<t, [assignee |-> who]>>)
<1>1. t \in Known /\ Begin(c, <<u>>)
    BY KnownRow DEF reassignTicket, Update
<1>2. u \in Statements /\ u.what # "enqueue"
    <2>1. [assignee |-> who] \in Patches
        BY DEF Patches
    <2> QED
        BY <2>1, StatementTypes DEF Do
<1>3. Plain(u)
    BY <1>1, PlainKinds DEF Statuses
<1> HIDE DEF u
<1>4. <<u>> \in Seq(Statements) /\ \A i \in DOMAIN <<u>> : <<u>>[i] = u
    BY <1>2
<1>5. Noted(<<u>>, history)
    BY <1>2, <1>4, NothingAsked
<1> QED
    BY <1>1, <1>3, <1>4, <1>5, PlainFits

\* assignTicket.
LEMMA AssignFits ==
    ASSUME DeskTyped, NEW c \in Slots, NEW t \in Tickets, NEW who \in People,
           assignTicket(c, t, who)
    PROVE  \E s : Begin(c, s) /\ Fits(s)
<1> DEFINE status == IF tickets[t].status = "open" THEN "in-progress" ELSE tickets[t].status
           A == Recipients(who)
           told == Do("enqueue", {[kind |-> "assigned", ticket |-> t, to |-> a] : a \in A})
           u == Do("updateRow", <<t, [assignee |-> who, status |-> status]>>)
           h == Do("saveHistory", <<t, "assigned">>)
           rd == Do("readAgent", <<who, 1>>)
           todo == Adjust(who, 1) \o Recorded(t, [assignee |-> who, status |-> status], "assigned")
                   \o Notify(A, "assigned", t)
<1>1. t \in Known /\ tickets[t] \in Rows /\ Begin(c, todo)
    BY KnownRow DEF assignTicket
<1>2. status \in Statuses
    BY <1>1 DEF Rows, Statuses
<1> HIDE DEF status
<1>3. A \in SUBSET Admins
    BY DEF Recipients
<1> HIDE DEF A
<1>4. /\ Notify(A, "assigned", t) = <<told>> /\ told \in Statements /\ Plain(told)
      /\ told.what = "enqueue" /\ \A n \in told.arg : n.kind = "assigned" /\ n.ticket = t
    BY <1>3, NoticesSent
<1>5. u \in Statements /\ h \in Statements /\ (who \in Agents => rd \in Statements)
    <2>1. [assignee |-> who, status |-> status] \in Patches
        BY <1>2 DEF Patches
    <2> QED
        BY <2>1, StatementTypes DEF Actions
<1>6. Plain(u) /\ Plain(h) /\ Plain(rd)
    BY <1>1, <1>2, PlainKinds
<1>7. h = Do("saveHistory", <<t, "assigned">>) /\ u.what # "enqueue" /\ h.what # "enqueue"
      /\ rd.what # "enqueue"
    BY DEF Do
<1>8. todo = (IF who \in Agents THEN <<rd>> ELSE <<>>) \o (<<u>> \o <<h>>) \o <<told>>
    BY <1>4 DEF Adjust, Recorded, Update, Note
<1> HIDE DEF told, u, h, rd, todo
<1>9. \/ todo = <<u, h, told>> \/ (who \in Agents /\ todo = <<rd, u, h, told>>)
    <2>1. /\ <<u>> \o <<h>> = <<u, h>> /\ <<u, h>> \o <<told>> = <<u, h, told>>
          /\ <<rd>> \o <<u, h>> = <<rd, u, h>> /\ <<rd, u, h>> \o <<told>> = <<rd, u, h, told>>
        BY Joined
    <2>2. <<>> \o <<u, h>> = <<u, h>>
        <3>1. <<u, h>> \in Seq({u, h})
            OBVIOUS
        <3> QED
            BY <3>1, EmptyJoined
    <2> QED
        BY <1>8, <2>1, <2>2
<1>10. todo \in Seq(Statements) /\ \A i \in DOMAIN todo : Plain(todo[i])
    <2>1. CASE todo = <<u, h, told>>
        BY <1>4, <1>5, <1>6, <2>1
    <2>2. CASE who \in Agents /\ todo = <<rd, u, h, told>>
        BY <1>4, <1>5, <1>6, <2>2
    <2> QED
        BY <1>9, <2>1, <2>2
<1>11. Noted(todo, history)
    <2>1. CASE todo = <<u, h, told>>
        BY <1>4, <1>7, <2>1 DEF Noted
    <2>2. CASE todo = <<rd, u, h, told>>
        BY <1>4, <1>7, <2>2 DEF Noted
    <2> QED
        BY <1>9, <2>1, <2>2
<1> QED
    BY <1>1, <1>10, <1>11, PlainFits

\* escalateTicket.
LEMMA EscalateFits ==
    ASSUME DeskTyped, NEW c \in Slots, NEW t \in Tickets, NEW who \in People,
           escalateTicket(c, t, who)
    PROVE  \E s : Begin(c, s) /\ Fits(s)
<1> DEFINE A == Recipients(who)
           old == tickets[t].assignee
           told == Do("enqueue", {[kind |-> "escalated", ticket |-> t, to |-> a] : a \in A})
           u == Do("updateRow", <<t, [status |-> "escalated"]>>)
           h == Do("saveHistory", <<t, "escalated">>)
           rd == Do("readAgent", <<old, -1>>)
           sv == Do("saveAgent", <<who, load[who] + 1>>)
           todo == Update(t, [status |-> "escalated"]) \o Adjust(tickets[t].assignee, -1)
                   \o (IF who \in Agents THEN <<Do("saveAgent", <<who, load[who] + 1>>)>> ELSE <<>>)
                   \o Note(t, "escalated") \o Notify(A, "escalated", t)
<1>1. t \in Known /\ Begin(c, todo)
    BY KnownRow DEF escalateTicket
<1>2. A \in SUBSET Admins
    BY DEF Recipients
<1> HIDE DEF A
<1>3. /\ Notify(A, "escalated", t) = <<told>> /\ told \in Statements /\ Plain(told)
      /\ told.what = "enqueue" /\ \A n \in told.arg : n.kind = "escalated" /\ n.ticket = t
    BY <1>2, NoticesSent
<1>4. /\ u \in Statements /\ h \in Statements /\ (old \in Agents => rd \in Statements)
      /\ (who \in Agents => sv \in Statements)
    <2>1. [status |-> "escalated"] \in Patches /\ "escalated" \in Actions
        BY DEF Patches, Actions, Statuses
    <2>2. -1 \in Int /\ (who \in Agents => load[who] + 1 \in Int)
        BY DEF DeskTyped
    <2> QED
        BY <2>1, <2>2, StatementTypes
<1>5. Plain(u) /\ Plain(h) /\ Plain(rd) /\ Plain(sv)
    BY <1>1, PlainKinds DEF Statuses
<1>6. h = Do("saveHistory", <<t, "escalated">>) /\ u.what # "enqueue" /\ h.what # "enqueue"
      /\ rd.what # "enqueue" /\ sv.what # "enqueue"
    BY DEF Do
<1>7. todo = <<u>> \o (IF old \in Agents THEN <<rd>> ELSE <<>>)
             \o (IF who \in Agents THEN <<sv>> ELSE <<>>) \o <<h>> \o <<told>>
    BY <1>3 DEF Adjust, Update, Note
<1> HIDE DEF told, u, h, rd, sv, todo, old
<1>8. \/ todo = <<u, h, told>>
      \/ old \in Agents /\ todo = <<u, rd, h, told>>
      \/ who \in Agents /\ todo = <<u, sv, h, told>>
      \/ old \in Agents /\ who \in Agents /\ todo = <<u, rd, sv, h, told>>
    <2>1. /\ <<u>> \o <<h>> = <<u, h>> /\ <<u, h>> \o <<told>> = <<u, h, told>>
          /\ <<u>> \o <<rd>> = <<u, rd>> /\ <<u, rd>> \o <<h>> = <<u, rd, h>>
          /\ <<u, rd, h>> \o <<told>> = <<u, rd, h, told>>
          /\ <<u>> \o <<sv>> = <<u, sv>> /\ <<u, sv>> \o <<h>> = <<u, sv, h>>
          /\ <<u, sv, h>> \o <<told>> = <<u, sv, h, told>>
          /\ <<u, rd>> \o <<sv>> = <<u, rd, sv>> /\ <<u, rd, sv>> \o <<h>> = <<u, rd, sv, h>>
          /\ <<u, rd, sv, h>> \o <<told>> = <<u, rd, sv, h, told>>
        BY Joined
    <2>2. <<u>> \o <<>> = <<u>> /\ <<u, rd>> \o <<>> = <<u, rd>>
        <3>1. <<u>> \in Seq({u, rd}) /\ <<u, rd>> \in Seq({u, rd})
            OBVIOUS
        <3> QED
            BY <3>1, EmptyJoined
    <2>3. CASE old \in Agents /\ who \in Agents
        BY <1>7, <2>1, <2>2, <2>3
    <2>4. CASE old \in Agents /\ who \notin Agents
        BY <1>7, <2>1, <2>2, <2>4
    <2>5. CASE old \notin Agents /\ who \in Agents
        BY <1>7, <2>1, <2>2, <2>5
    <2>6. CASE old \notin Agents /\ who \notin Agents
        BY <1>7, <2>1, <2>2, <2>6
    <2> QED
        BY <2>3, <2>4, <2>5, <2>6
<1>9. todo \in Seq(Statements) /\ \A i \in DOMAIN todo : Plain(todo[i])
    <2>1. CASE todo = <<u, h, told>>
        BY <1>3, <1>4, <1>5, <2>1
    <2>2. CASE old \in Agents /\ todo = <<u, rd, h, told>>
        BY <1>3, <1>4, <1>5, <2>2
    <2>3. CASE who \in Agents /\ todo = <<u, sv, h, told>>
        BY <1>3, <1>4, <1>5, <2>3
    <2>4. CASE old \in Agents /\ who \in Agents /\ todo = <<u, rd, sv, h, told>>
        <3>1. rd \in Statements /\ sv \in Statements
            BY <1>4, <2>4
        <3>2. DOMAIN todo = 1 .. 5 /\ \A i \in 1 .. 5 : todo[i] \in {u, rd, sv, h, told}
            BY <2>4
        <3>3. todo \in Seq({u, rd, sv, h, told})
            BY <2>4
        <3> QED
            BY <1>3, <1>4, <1>5, <3>1, <3>2, <3>3
    <2> QED
        BY <1>8, <2>1, <2>2, <2>3, <2>4
<1>10. Noted(todo, history)
    <2>1. CASE todo = <<u, h, told>>
        BY <1>3, <1>6, <2>1 DEF Noted
    <2>2. CASE todo = <<u, rd, h, told>>
        BY <1>3, <1>6, <2>2 DEF Noted
    <2>3. CASE todo = <<u, sv, h, told>>
        BY <1>3, <1>6, <2>3 DEF Noted
    <2>4. CASE todo = <<u, rd, sv, h, told>>
        BY <1>3, <1>6, <2>4 DEF Noted
    <2> QED
        BY <1>8, <2>1, <2>2, <2>3, <2>4
<1> QED
    BY <1>1, <1>9, <1>10, PlainFits

\* sendMessage: the counter is one more than the message there will be.
LEMMA MessageFits ==
    ASSUME DeskTyped, NeverTooMany, NEW c \in Slots, NEW t \in Tickets, sendMessage(c, t)
    PROVE  \E s : Begin(c, s) /\ Fits(s)
<1> DEFINE n == tickets[t].count + 1
           m == Do("saveMessage", t)
           u == Do("updateRow", <<t, [count |-> n]>>)
           h == Do("saveHistory", <<t, "message">>)
           todo == Sent(t) \o Note(t, "message")
<1>1. t \in Known /\ tickets[t] \in Rows /\ Begin(c, todo)
    BY KnownRow DEF sendMessage
<1>2. n \in Nat /\ n <= messages[t] + 1 /\ messages[t] \in Nat
      /\ (Level(tickets, messages, {}) => n = messages[t] + 1)
    BY <1>1 DEF Rows, NeverTooMany, DeskTyped, Level, Known, Exists
<1>3. todo = (<<m>> \o <<u>>) \o <<h>>
    BY DEF Sent, Update, Note
<1> HIDE DEF n
<1>4. m \in Statements /\ u \in Statements /\ h \in Statements
    <2>1. [count |-> n] \in Patches
        BY <1>2 DEF Patches
    <2> QED
        BY <2>1, StatementTypes DEF Actions
<1>5. /\ m.what = "saveMessage" /\ m.arg = t /\ h.what = "saveHistory"
      /\ u.what = "updateRow" /\ u.arg[1] = t /\ u.arg[2] = [count |-> n]
      /\ u.arg[2] \notin [status : Statuses, dated : BOOLEAN]
      /\ \A x : h # Do("saveHistory", <<x, "resolved">>)
      /\ \A x : m # Do("saveHistory", <<x, "resolved">>)
      /\ \A x : u # Do("saveHistory", <<x, "resolved">>)
    BY DEF Do
<1>6. m = Do("saveMessage", t)
    OBVIOUS
<1>7. Level(tickets, messages, {}) => <<m, u, h>> = Sending(t, messages[t] + 1)
    BY <1>2 DEF Sending
<1> HIDE DEF m, u, h, todo
<1>8. todo = <<m, u, h>>
    <2>1. <<m>> \o <<u>> = <<m, u>> /\ <<m, u>> \o <<h>> = <<m, u, h>>
        BY Joined
    <2> QED
        BY <1>3, <2>1
<1>9. todo \in Seq(Statements) /\ DOMAIN todo = {1, 2, 3}
      /\ todo[1] = m /\ todo[2] = u /\ todo[3] = h
    BY <1>4, <1>8
<1>10. Finding(todo, Known)
    BY <1>1, <1>5, <1>9 DEF Finding, Finds
<1>11. Covered(todo, messages)
    <2>1. u.arg[2].count = n
        BY <1>5
    <2>2. 1 \in 1 .. 2 - 1
        OBVIOUS
    <2> QED
        BY <1>2, <1>5, <1>6, <1>9, <2>1, <2>2 DEF Covered, SetsCount
<1>12. Noted(todo, history)
    BY <1>5, <1>9, NothingAsked
<1>13. Dating(todo, DatedTickets)
    BY <1>5, <1>9 DEF Dating, SetsDate
<1> QED
    BY <1>1, <1>7, <1>8, <1>9, <1>10, <1>11, <1>12, <1>13 DEF Fits, Exact

\* A bulk update saves rows with the counters and at least the dates they had.
LEMMA BulkFits ==
    ASSUME DeskTyped, NeverTooMany, NEW c \in Slots, NEW ts \in SUBSET Tickets,
           NEW patch \in Patches, patch \notin [count : Nat],
           patch \in [status : Statuses, dated : BOOLEAN] => patch.dated,
           Bulk(c, ts, patch)
    PROVE  \E s : Begin(c, s) /\ Fits(s)
<1> DEFINE new == [t \in ts |-> Patched(tickets[t], patch)]
           d == Do("saveTickets", new)
<1>1. Begin(c, <<d>>) /\ ts \subseteq Known
    BY KnownRow DEF Bulk
<1>2. \A t \in ts : /\ tickets[t] \in Rows /\ new[t] \in Rows
                    /\ new[t].count = tickets[t].count
                    /\ tickets[t].dated => new[t].dated
    <2> SUFFICES ASSUME NEW t \in ts
                 PROVE  /\ tickets[t] \in Rows /\ new[t] \in Rows
                        /\ new[t].count = tickets[t].count
                        /\ tickets[t].dated => new[t].dated
        OBVIOUS
    <2>1. tickets[t] \in Rows
        BY <1>1, KnownRow DEF Known
    <2> QED
        BY <2>1, RowPatched
<1>3. new \in [ts -> Rows] /\ DOMAIN new = ts
    BY <1>2
<1> HIDE DEF new
<1>4. d \in Statements /\ d.what = "saveTickets" /\ d.arg = new
    BY <1>3, StatementTypes DEF Do
<1>5. \A x : d # Do("saveHistory", <<x, "resolved">>)
    BY <1>4 DEF Do
<1> HIDE DEF d
<1>6. <<d>> \in Seq(Statements) /\ DOMAIN <<d>> = {1} /\ <<d>>[1] = d
    BY <1>4
<1>7. Finding(<<d>>, Known)
    BY <1>1, <1>3, <1>4, <1>6 DEF Finding, Finds
<1>8. Covered(<<d>>, messages) /\ LeavesCounts(<<d>>, tickets)
    <2>1. \A t \in DOMAIN d.arg : d.arg[t].count <= messages[t]
        BY <1>1, <1>2, <1>3, <1>4 DEF NeverTooMany
    <2> QED
        BY <1>2, <1>3, <1>4, <1>6, <2>1 DEF Covered, LeavesCounts, SetsCount
<1>9. Noted(<<d>>, history)
    BY <1>4, <1>6, NothingAsked
<1>10. Dating(<<d>>, DatedTickets)
    <2>1. Finds(d) \intersect DatedTickets \subseteq Dates(d)
        BY <1>2, <1>3, <1>4 DEF Finds, Dates, DatedTickets
    <2> QED
        BY <1>5, <1>6, <2>1 DEF Dating
<1> QED
    BY <1>1, <1>6, <1>7, <1>8, <1>9, <1>10 DEF Fits, Exact

\* Every request.
LEMMA RequestFits ==
    ASSUME DeskTyped, NeverTooMany, NEW c \in Slots, Request(c)
    PROVE  \E s : Begin(c, s) /\ Fits(s)
<1>1. CASE \E who \in People \union {Missing} : createTicket(c, who)
    BY <1>1, CreateFits
<1>2. CASE \E t \in Tickets, x \in Statuses : updateTicket(c, t, x)
    BY <1>2, UpdateFits
<1>3. CASE \E t \in Tickets, who \in People :
              reassignTicket(c, t, who) \/ assignTicket(c, t, who) \/ escalateTicket(c, t, who)
    BY <1>3, ReassignFits, AssignFits, EscalateFits
<1>4. CASE \E t \in Tickets : sendMessage(c, t)
    BY <1>4, MessageFits
<1>5. CASE \E ts \in SUBSET Tickets, who \in People : bulkAssign(c, ts, who)
    <2> PICK ts \in SUBSET Tickets, who \in People : bulkAssign(c, ts, who)
        BY <1>5
    <2> DEFINE patch == [assignee |-> who, status |-> "in-progress"]
    <2>1. patch \in Patches /\ patch \notin [count : Nat]
          /\ patch \notin [status : Statuses, dated : BOOLEAN]
        BY DEF Patches, Statuses
    <2>2. Bulk(c, ts, patch)
        BY DEF bulkAssign
    <2> HIDE DEF patch
    <2> QED
        BY <2>1, <2>2, BulkFits
<1>6. CASE \E ts \in SUBSET Tickets, x \in Statuses : bulkStatus(c, ts, x)
    <2> PICK ts \in SUBSET Tickets, x \in Statuses : bulkStatus(c, ts, x)
        BY <1>6
    <2> DEFINE patch == [status |-> x]
    <2>1. patch \in Patches /\ patch \notin [count : Nat]
          /\ patch \notin [status : Statuses, dated : BOOLEAN]
        BY DEF Patches
    <2>2. Bulk(c, ts, patch)
        BY DEF bulkStatus
    <2> HIDE DEF patch
    <2> QED
        BY <2>1, <2>2, BulkFits
<1>7. CASE \E ts \in SUBSET Tickets : bulkResolve(c, ts)
    <2> PICK ts \in SUBSET Tickets : bulkResolve(c, ts)
        BY <1>7
    <2> DEFINE patch == [status |-> "resolved", dated |-> TRUE]
    <2>1. patch \in Patches /\ patch \notin [count : Nat] /\ patch.dated
        BY DEF Patches, Statuses
    <2>2. Bulk(c, ts, patch)
        BY DEF bulkResolve
    <2> HIDE DEF patch
    <2> QED
        BY <2>1, <2>2, BulkFits
<1>8. CASE \E ts \in SUBSET Tickets : bulkEscalate(c, ts)
    <2> PICK ts \in SUBSET Tickets : bulkEscalate(c, ts)
        BY <1>8
    <2> DEFINE patch == [status |-> "escalated"]
    <2>1. patch \in Patches /\ patch \notin [count : Nat]
          /\ patch \notin [status : Statuses, dated : BOOLEAN]
        BY DEF Patches, Statuses
    <2>2. Bulk(c, ts, patch)
        BY DEF bulkEscalate
    <2> HIDE DEF patch
    <2> QED
        BY <2>1, <2>2, BulkFits
<1> QED
    BY <1>1, <1>2, <1>3, <1>4, <1>5, <1>6, <1>7, <1>8 DEF Request

-----------------------------------------------------------------------------
\* What is left of the statements of a request stays in order.  d is what has
\* been executed.
LEMMA TailFinds ==
    ASSUME NEW s \in Seq(Statements), s # <<>>, NEW k1, NEW k2, Finding(s, k1), k1 \subseteq k2
    PROVE  Finding(Tail(s), k2)
    BY TailElements DEF Finding

LEMMA TailCovered ==
    ASSUME NEW s \in Seq(Statements), s # <<>>, NEW m \in [Tickets -> Nat], Covered(s, m),
           Head(s).what # "saveMessage"
    PROVE  Covered(Tail(s), m)
<1>1. \A i \in DOMAIN Tail(s) : /\ i \in Nat \ {0} /\ i + 1 \in DOMAIN s /\ Tail(s)[i] = s[i + 1]
    BY TailElements
<1>2. DOMAIN Tail(s) = 1 .. Len(s) - 1 /\ Len(s) \in Nat /\ Head(s) = s[1]
    BY TailElements
<1> SUFFICES ASSUME NEW i \in DOMAIN Tail(s)
             PROVE  /\ SetsCount(Tail(s)[i]) =>
                          \/ Tail(s)[i].arg[2].count <= m[Tail(s)[i].arg[1]]
                          \/ /\ Tail(s)[i].arg[2].count <= m[Tail(s)[i].arg[1]] + 1
                             /\ \E j \in 1 .. i - 1 : Tail(s)[j] = Do("saveMessage", Tail(s)[i].arg[1])
                    /\ Tail(s)[i].what = "saveTickets" =>
                          \A t \in DOMAIN Tail(s)[i].arg : Tail(s)[i].arg[t].count <= m[t]
    BY DEF Covered
<1>3. ASSUME NEW t, NEW j \in 1 .. (i + 1) - 1, s[j] = Do("saveMessage", t)
      PROVE  \E x \in 1 .. i - 1 : Tail(s)[x] = Do("saveMessage", t)
    <2>1. j # 1
        BY <1>2, <1>3 DEF Do
    <2>2. j - 1 \in 1 .. i - 1 /\ j - 1 \in DOMAIN Tail(s) /\ (j - 1) + 1 = j
        BY <1>1, <1>2, <2>1
    <2> QED
        BY <1>1, <1>3, <2>2
<1> QED
    BY <1>1, <1>3 DEF Covered

LEMMA TailNoted ==
    ASSUME NEW s \in Seq(Statements), s # <<>>, NEW h, NEW h2, Noted(s, h),
           \A t \in Tickets : h[t] \subseteq h2[t],
           Head(s).what = "saveHistory" => Head(s).arg[2] \in h2[Head(s).arg[1]]
    PROVE  Noted(Tail(s), h2)
<1>1. \A i \in DOMAIN Tail(s) : /\ i \in Nat \ {0} /\ i + 1 \in DOMAIN s /\ Tail(s)[i] = s[i + 1]
    BY TailElements
<1>2. DOMAIN Tail(s) = 1 .. Len(s) - 1 /\ Len(s) \in Nat /\ Head(s) = s[1]
      /\ Tail(s) \in Seq(Statements)
    BY TailElements
<1> SUFFICES ASSUME NEW i \in DOMAIN Tail(s), Tail(s)[i].what = "enqueue", NEW n \in Tail(s)[i].arg,
                    n.kind \notin h2[n.ticket]
             PROVE  \E j \in 1 .. i - 1 : Tail(s)[j] = Do("saveHistory", <<n.ticket, n.kind>>)
    BY DEF Noted
<1>3. n \in Notices
    <2>1. Tail(s)[i] \in Statements
        BY <1>2
    <2> QED
        BY <2>1, StatementArgs
<1>4. n.ticket \in Tickets /\ n.kind \notin h[n.ticket]
    BY <1>3 DEF Notices
<1>5. PICK j \in 1 .. (i + 1) - 1 : s[j] = Do("saveHistory", <<n.ticket, n.kind>>)
    BY <1>1, <1>4 DEF Noted
<1>6. j # 1
    BY <1>2, <1>5 DEF Do
<1>7. j - 1 \in 1 .. i - 1 /\ j - 1 \in DOMAIN Tail(s) /\ (j - 1) + 1 = j
    BY <1>1, <1>2, <1>6
<1> QED
    BY <1>1, <1>5, <1>7

\* Once the first statement has written its dates, nothing writes any.
LEMMA TailDating ==
    ASSUME NEW s \in Seq(Statements), s # <<>>, NEW d1, NEW d2, Dating(s, d1),
           d1 \subseteq d2, Dates(Head(s)) \subseteq d2
    PROVE  Dating(Tail(s), d2)
<1>1. \A i \in DOMAIN Tail(s) : /\ i \in Nat \ {0} /\ i + 1 \in DOMAIN s /\ Tail(s)[i] = s[i + 1]
    BY TailElements
<1>2. Head(s) = s[1]
    BY TailElements
<1> QED
    BY <1>1, <1>2 DEF Dating

LEMMA TailLeaves ==
    ASSUME NEW s \in Seq(Statements), s # <<>>, NEW r, LeavesCounts(s, r)
    PROVE  LeavesCounts(Tail(s), r)
    BY TailElements DEF LeavesCounts

\* Nothing is left to send.
LEMMA IdleFits ==
    /\ Idle \in Seq(Statements)
    /\ \A k : Finding(Idle, k)
    /\ \A m : Covered(Idle, m)
    /\ \A h : Noted(Idle, h)
    /\ \A d : Dating(Idle, d)
    /\ \A r, m : Exact(Idle, r, m) => Level(r, m, {})
<1>1. Idle \in Seq(Statements) /\ DOMAIN Idle = {}
    BY DEF Idle
<1>2. ASSUME NEW r, NEW m, Exact(Idle, r, m) PROVE Level(r, m, {})
    <2>1. \A t, n : Idle # Sending(t, n) /\ Idle # Counting(t, n)
        BY DEF Idle, Sending, Counting
    <2> QED
        BY <1>2, <2>1 DEF Exact
<1> QED
    BY <1>1, <1>2 DEF Finding, Covered, Noted, Dating

\* What other requests do takes nothing from a sequence of statements.
LEMMA OthersFind ==
    ASSUME NEW s, NEW k1, NEW k2, k1 \subseteq k2, Finding(s, k1)
    PROVE  Finding(s, k2)
    BY DEF Finding

LEMMA OthersCovered ==
    ASSUME NEW s \in Seq(Statements),
           NEW m1 \in [Tickets -> Nat], NEW m2 \in [Tickets -> Nat],
           \A t \in Tickets : m1[t] <= m2[t], Covered(s, m1)
    PROVE  Covered(s, m2)
<1> SUFFICES ASSUME NEW i \in DOMAIN s
             PROVE  /\ SetsCount(s[i]) =>
                          \/ s[i].arg[2].count <= m2[s[i].arg[1]]
                          \/ /\ s[i].arg[2].count <= m2[s[i].arg[1]] + 1
                             /\ \E j \in 1 .. i - 1 : s[j] = Do("saveMessage", s[i].arg[1])
                    /\ s[i].what = "saveTickets" =>
                          \A t \in DOMAIN s[i].arg : s[i].arg[t].count <= m2[t]
    BY DEF Covered
<1>1. s[i] \in Statements
    OBVIOUS
<1>2. ASSUME SetsCount(s[i])
      PROVE  s[i].arg[1] \in Tickets /\ s[i].arg[2].count \in Nat
    BY <1>1, <1>2, StatementArgs DEF SetsCount
<1>3. ASSUME s[i].what = "saveTickets", NEW t \in DOMAIN s[i].arg
      PROVE  t \in Tickets /\ s[i].arg[t].count \in Nat
    BY <1>1, <1>3, StatementArgs DEF Rows
<1>4. ASSUME NEW t \in Tickets, NEW n \in Nat
      PROVE  (n <= m1[t] => n <= m2[t]) /\ (n <= m1[t] + 1 => n <= m2[t] + 1)
    <2>1. m1[t] \in Nat /\ m2[t] \in Nat /\ m1[t] <= m2[t]
        OBVIOUS
    <2> QED
        BY <2>1
<1> QED
    BY <1>2, <1>3, <1>4 DEF Covered

LEMMA OthersNoted ==
    ASSUME NEW s \in Seq(Statements), NEW h1, NEW h2,
           \A t \in Tickets : h1[t] \subseteq h2[t], Noted(s, h1)
    PROVE  Noted(s, h2)
<1> SUFFICES ASSUME NEW i \in DOMAIN s, s[i].what = "enqueue", NEW n \in s[i].arg
             PROVE  \/ n.kind \in h2[n.ticket]
                    \/ \E j \in 1 .. i - 1 : s[j] = Do("saveHistory", <<n.ticket, n.kind>>)
    BY DEF Noted
<1>1. n.ticket \in Tickets
    <2>1. s[i] \in Statements
        OBVIOUS
    <2> QED
        BY <2>1, StatementArgs DEF Notices
<1> QED
    BY <1>1 DEF Noted

\* One request moves on from s to x: the state of the desk is as x needs it.
LEMMA RequestMoves ==
    ASSUME DeskInv, DeskTyped', NEW c \in Slots, NEW x,
           calls' = [calls EXCEPT ![c] = x], UNCHANGED overlaps,
           Known \subseteq Known', \A t \in Tickets : messages[t] <= messages'[t],
           \A t \in Tickets : history[t] \subseteq history'[t],
           \A t \in Tickets \ Known' : messages'[t] = 0,
           \A t \in Known' : tickets'[t].count <= messages'[t],
           \A n \in Notices : asked'[n] > 0 => n.kind \in history'[n.ticket],
           Finding(x, Known'), Covered(x, messages'), Noted(x, history')
    PROVE  Present' /\ NeverTooMany' /\ Told'
<1>1. \A d \in Slots : calls'[d] = IF d = c THEN x ELSE calls[d]
    BY DEF DeskInv, DeskTyped
<1>2. \A d \in Slots : /\ Finding(calls[d], Known) /\ Covered(calls[d], messages)
                       /\ Noted(calls[d], history) /\ calls[d] \in Seq(Statements)
    BY DEF DeskInv, DeskTyped, Present, NeverTooMany, Told
<1>3. messages \in [Tickets -> Nat] /\ messages' \in [Tickets -> Nat]
    BY DEF DeskInv, DeskTyped
<1>4. ASSUME NEW d \in Slots
      PROVE  /\ Finding(calls'[d], Known') /\ Covered(calls'[d], messages')
             /\ Noted(calls'[d], history')
    <2>1. CASE d = c
        BY <1>1, <2>1
    <2>2. CASE d # c
        <3>1. calls'[d] = calls[d] /\ calls[d] \in Seq(Statements)
            BY <1>1, <1>2, <2>2
        <3>2. Finding(calls'[d], Known')
            BY <1>2, <3>1, OthersFind
        <3>3. Covered(calls'[d], messages')
            BY <1>2, <1>3, <3>1, OthersCovered
        <3>4. Noted(calls'[d], history')
            BY <1>2, <3>1, OthersNoted
        <3> QED
            BY <3>2, <3>3, <3>4
    <2> QED
        BY <2>1, <2>2
<1> QED
    BY <1>4 DEF Present, NeverTooMany, Told

\* While requests come one after the other.
LEMMA LoneMoves ==
    ASSUME DeskInv, NEW c \in Slots, NEW x,
           calls[c] # Idle, calls' = [calls EXCEPT ![c] = x], UNCHANGED overlaps,
           overlaps = 0 =>
               /\ \A t \in Tickets : "resolved" \in history'[t] => t \in DatedTickets'
               /\ Dating(x, DatedTickets'),
           failures' = 0 => failures = 0,
           Undisturbed /\ Undisturbed' /\ Exact(calls[c], tickets, messages) =>
               Exact(x, tickets', messages')
    PROVE  DatesKept' /\ CountsExact'
<1>1. \A d \in Slots : calls'[d] = IF d = c THEN x ELSE calls[d]
    BY DEF DeskInv, DeskTyped
<1>2. overlaps = 0 => \A d \in Slots : d # c => calls[d] = Idle
    BY DEF DeskInv, DatesKept, Alone
<1>3. DatesKept'
    <2>1. ASSUME overlaps = 0, NEW d \in Slots PROVE Dating(calls'[d], DatedTickets')
        BY <1>1, <1>2, <2>1, IdleFits
    <2>2. overlaps = 0 => Alone'
        BY <1>1, <1>2 DEF Alone
    <2> QED
        BY <2>1, <2>2 DEF DatesKept
<1>4. ASSUME Undisturbed' PROVE Exact(x, tickets', messages')
    <2>1. Undisturbed
        BY <1>4 DEF Undisturbed
    <2>2. Exact(calls[c], tickets, messages)
        BY <2>1 DEF DeskInv, CountsExact
    <2> QED
        BY <1>4, <2>1, <2>2
<1>5. ASSUME Undisturbed', NEW d \in Slots, calls'[d] # Idle
      PROVE  Exact(calls'[d], tickets', messages')
    <2>1. d = c
        BY <1>1, <1>2, <1>5 DEF Undisturbed
    <2> QED
        BY <1>1, <1>4, <1>5, <2>1
<1>6. ASSUME Undisturbed', \A d \in Slots : calls'[d] = Idle PROVE Level(tickets', messages', {})
    <2>1. x = Idle
        BY <1>1, <1>6
    <2> QED
        BY <1>4, <1>6, <2>1, IdleFits
<1> QED
    BY <1>3, <1>5, <1>6 DEF CountsExact

\* The statement that a request sends next.
LEMMA NextStatement ==
    ASSUME DeskInv, NEW c \in Slots, NEW w, Sends(c, w)
    PROVE  LET s == calls[c]
           IN  /\ s \in Seq(Statements) /\ s # <<>> /\ s # Idle /\ 1 \in DOMAIN s /\ Head(s) = s[1]
               /\ Head(s) \in Statements /\ Head(s).what = w /\ Arg(c) = Head(s).arg
               /\ Tail(s) \in Seq(Statements)
               /\ Finds(Head(s)) \subseteq Known
               /\ Finding(s, Known) /\ Covered(s, messages) /\ Noted(s, history)
               /\ overlaps = 0 => Dating(s, DatedTickets)
<1> DEFINE s == calls[c]
<1>1. s \in Seq(Statements) /\ s # Idle /\ Head(s).what = w /\ Arg(c) = Head(s).arg
    BY DEF DeskInv, DeskTyped, Sends, Arg
<1>2. s # <<>>
    BY <1>1 DEF Idle
<1>3. Finding(s, Known) /\ Covered(s, messages) /\ Noted(s, history)
      /\ (overlaps = 0 => Dating(s, DatedTickets))
    BY DEF DeskInv, Present, NeverTooMany, Told, DatesKept
<1> HIDE DEF s
<1>4. 1 \in DOMAIN s /\ Head(s) = s[1] /\ Tail(s) \in Seq(Statements) /\ Head(s) \in Statements
    BY <1>1, <1>2
<1>5. Finds(Head(s)) \subseteq Known
    BY <1>3, <1>4 DEF Finding
<1> QED
    BY <1>1, <1>2, <1>3, <1>4, <1>5 DEF s

\* A statement that is not about messages leaves the counters exact.
LEMMA QuietTail ==
    ASSUME NEW s \in Seq(Statements), s # <<>>, NEW r, NEW m, Exact(s, r, m),
           Head(s).what # "saveMessage", ~SetsCount(Head(s))
    PROVE  Level(r, m, {}) /\ LeavesCounts(s, r) /\ LeavesCounts(Tail(s), r) /\ Exact(Tail(s), r, m)
<1>1. ASSUME NEW t \in Tickets, NEW n, s = Sending(t, n) PROVE FALSE
    <2>1. Head(s) = Do("saveMessage", t)
        BY <1>1 DEF Sending
    <2> QED
        BY <2>1 DEF Do
<1>2. ASSUME NEW t \in Tickets, s = Counting(t, m[t]) PROVE Level(r, m, {}) /\ LeavesCounts(s, r)
    <2>1. Head(s) = Do("updateRow", <<t, [count |-> m[t]]>>)
        BY <1>2 DEF Counting
    <2>2. m[t] \notin Nat
        BY <2>1 DEF SetsCount, Do
    <2>3. s[1] \in Statements /\ s[1] = Head(s)
        BY TailElements
    <2>4. [count |-> m[t]] \in Patches
        <3>1. Head(s) \in Statements /\ Head(s).what = "updateRow" /\ Head(s).arg[2] = [count |-> m[t]]
            BY <2>1, <2>3 DEF Do
        <3> QED
            BY <3>1, StatementArgs
    <2>5. [count |-> m[t]] \in [count : Nat]
        BY <2>4 DEF Patches
    <2> QED
        BY <2>2, <2>5
<1>3. Level(r, m, {}) /\ LeavesCounts(s, r)
    BY <1>1, <1>2 DEF Exact
<1> QED
    BY <1>3, TailLeaves DEF Exact

\* The queue of notices is none of the other statements' business.
LEMMA QueuedSame ==
    ASSUME Queued, UNCHANGED <<asked, log, failures>>
    PROVE  Queued'
    BY DEF Queued, OnItsWay, Log!Waiting, log

\* The rows are the same.
LEMMA RowsSame ==
    ASSUME UNCHANGED tickets
    PROVE  Known' = Known /\ DatedTickets' = DatedTickets
    BY DEF Known, DatedTickets, Exists

LEMMA ReadAgentStep ==
    ASSUME DeskInv, NEW c \in Slots, readAgent(c)
    PROVE  DeskInv'
<1> DEFINE s == calls[c]
           a == Arg(c)[1]
           n == load[a] + Arg(c)[2]
           d == Do("saveAgent", <<a, IF n < 0 THEN 0 ELSE n>>)
           x == <<d>> \o Tail(s)
<1>1. Sends(c, "readAgent") /\ calls' = [calls EXCEPT ![c] = x]
      /\ UNCHANGED <<desk, begun, overlaps, asked, log, failures>>
    BY DEF readAgent, Elsewhere
<1>2. UNCHANGED <<tickets, load, messages, history>>
    BY <1>1 DEF desk
<1>3. /\ s \in Seq(Statements) /\ s # <<>> /\ s # Idle /\ 1 \in DOMAIN s /\ Head(s) = s[1]
      /\ Head(s) \in Statements /\ Head(s).what = "readAgent" /\ Arg(c) = Head(s).arg
      /\ Finding(s, Known) /\ Covered(s, messages) /\ Noted(s, history)
      /\ (overlaps = 0 => Dating(s, DatedTickets))
    BY <1>1, NextStatement
<1>4. d \in Statements /\ d.what = "saveAgent"
    <2>1. a \in Agents /\ Arg(c)[2] \in Int
        BY <1>3, StatementArgs
    <2>2. n \in Int
        BY <2>1 DEF DeskInv, DeskTyped
    <2> HIDE DEF n, a
    <2>3. (IF n < 0 THEN 0 ELSE n) \in Int
        BY <2>2
    <2> QED
        BY <2>1, <2>3, StatementTypes DEF Do
<1> HIDE DEF d, s
<1>5. /\ x \in Seq(Statements) /\ DOMAIN x = DOMAIN s /\ x[1] = d
      /\ \A i \in DOMAIN s : i \in Nat \ {0} /\ (i # 1 => x[i] = s[i])
    BY <1>3, <1>4, HeadReplaced
<1> HIDE DEF x
<1>6. Finding(x, Known)
    BY <1>3, <1>4, <1>5 DEF Finding, Finds
<1>7. Covered(x, messages)
    <2> SUFFICES ASSUME NEW i \in DOMAIN x
                 PROVE  /\ SetsCount(x[i]) =>
                              \/ x[i].arg[2].count <= messages[x[i].arg[1]]
                              \/ /\ x[i].arg[2].count <= messages[x[i].arg[1]] + 1
                                 /\ \E j \in 1 .. i - 1 : x[j] = Do("saveMessage", x[i].arg[1])
                        /\ x[i].what = "saveTickets" =>
                              \A t \in DOMAIN x[i].arg : x[i].arg[t].count <= messages[t]
        BY DEF Covered
    <2>1. CASE i = 1
        BY <1>4, <1>5, <2>1 DEF SetsCount
    <2>2. CASE i # 1
        <3>1. x[i] = s[i] /\ i \in DOMAIN s
            BY <1>5, <2>2
        <3>2. ASSUME NEW t, NEW j \in 1 .. i - 1, s[j] = Do("saveMessage", t)
              PROVE  x[j] = Do("saveMessage", t)
            <4>1. j # 1
                BY <1>3, <3>2 DEF Do
            <4>2. j \in DOMAIN s
                BY <1>3, <3>1
            <4> QED
                BY <1>5, <3>2, <4>1, <4>2
        <3> QED
            BY <1>3, <3>1, <3>2 DEF Covered
    <2> QED
        BY <2>1, <2>2
<1>8. Noted(x, history)
    <2> SUFFICES ASSUME NEW i \in DOMAIN x, x[i].what = "enqueue", NEW e \in x[i].arg
                 PROVE  \/ e.kind \in history[e.ticket]
                        \/ \E j \in 1 .. i - 1 : x[j] = Do("saveHistory", <<e.ticket, e.kind>>)
        BY DEF Noted
    <2>1. i # 1
        BY <1>4, <1>5
    <2>2. x[i] = s[i] /\ i \in DOMAIN s
        BY <1>5, <2>1
    <2>3. ASSUME NEW j \in 1 .. i - 1, s[j] = Do("saveHistory", <<e.ticket, e.kind>>)
          PROVE  x[j] = Do("saveHistory", <<e.ticket, e.kind>>)
        <3>1. j # 1
            BY <1>3, <2>3 DEF Do
        <3>2. j \in DOMAIN s
            BY <1>3, <2>2
        <3> QED
            BY <1>5, <2>3, <3>1, <3>2
    <2> QED
        BY <1>3, <2>2, <2>3 DEF Noted
<1>9. ASSUME overlaps = 0 PROVE Dating(x, DatedTickets)
    <2> SUFFICES ASSUME NEW i \in DOMAIN x
                 PROVE  /\ SetsDate(x[i]) =>
                              i = 1 /\ Finds(x[i]) \intersect DatedTickets \subseteq Dates(x[i])
                        /\ \A t \in Tickets : x[i] = Do("saveHistory", <<t, "resolved">>) =>
                              t \in DatedTickets \/ (i > 1 /\ t \in Dates(x[1]))
        BY DEF Dating
    <2>1. CASE i = 1
        BY <1>4, <1>5, <2>1 DEF SetsDate, Do
    <2>2. CASE i # 1
        <3>1. x[i] = s[i] /\ i \in DOMAIN s
            BY <1>5, <2>2
        <3>2. Dates(s[1]) = {}
            BY <1>3 DEF Dates, SetsDate
        <3> QED
            BY <1>3, <1>9, <2>2, <3>1, <3>2 DEF Dating
    <2> QED
        BY <2>1, <2>2
<1>10. ASSUME Exact(s, tickets, messages) PROVE Exact(x, tickets, messages)
    <2>1. Level(tickets, messages, {}) /\ LeavesCounts(s, tickets)
        BY <1>3, <1>10, QuietTail DEF SetsCount
    <2>2. LeavesCounts(x, tickets)
        BY <1>4, <1>5, <2>1 DEF LeavesCounts, SetsCount
    <2> QED
        BY <2>1, <2>2 DEF Exact
<1>11. DeskTyped'
    BY <1>1, <1>2, <1>5 DEF DeskInv, DeskTyped, log
<1>12. Known' = Known /\ DatedTickets' = DatedTickets
    BY <1>2, RowsSame
<1>13. Present' /\ NeverTooMany' /\ Told'
    <2>1. /\ \A t \in Tickets : messages[t] <= messages'[t] /\ history[t] \subseteq history'[t]
          /\ \A t \in Tickets \ Known' : messages'[t] = 0
          /\ \A t \in Known' : tickets'[t].count <= messages'[t]
          /\ \A e \in Notices : asked'[e] > 0 => e.kind \in history'[e.ticket]
        BY <1>1, <1>2, <1>12 DEF DeskInv, DeskTyped, Present, NeverTooMany, Told
    <2> QED
        BY <1>1, <1>2, <1>6, <1>7, <1>8, <1>11, <1>12, <2>1, RequestMoves
<1>14. DatesKept' /\ CountsExact'
    <2>1. overlaps = 0 => /\ \A t \in Tickets : "resolved" \in history'[t] => t \in DatedTickets'
                          /\ Dating(x, DatedTickets')
        BY <1>2, <1>9, <1>12 DEF DeskInv, DatesKept
    <2>2. (failures' = 0 => failures = 0) /\ calls[c] # Idle
        BY <1>1, <1>3 DEF s
    <2>3. Exact(calls[c], tickets, messages) => Exact(x, tickets', messages')
        BY <1>2, <1>10 DEF s
    <2> QED
        BY <1>1, <2>1, <2>2, <2>3, LoneMoves
<1>15. Queued'
    BY <1>1, QueuedSame DEF DeskInv
<1> QED
    BY <1>11, <1>13, <1>14, <1>15 DEF DeskInv

\* A statement other than that of a message is executed, and the request moves
\* on to the next.
LEMMA TailMoves ==
    ASSUME DeskInv, DeskTyped', NEW c \in Slots, NEW w, Sends(c, w), w # "saveMessage", Answered(c),
           UNCHANGED messages, Known \subseteq Known',
           \A t \in Known' : tickets'[t].count <= messages[t],
           \A t \in Tickets : history[t] \subseteq history'[t],
           w = "saveHistory" => Arg(c)[2] \in history'[Arg(c)[1]],
           \A n \in Notices : asked'[n] > 0 => n.kind \in history'[n.ticket],
           failures' = 0 => failures = 0,
           overlaps = 0 =>
               /\ DatedTickets \subseteq DatedTickets' /\ Dates(Head(calls[c])) \subseteq DatedTickets'
               /\ \A t \in Tickets : "resolved" \in history'[t] => t \in DatedTickets',
           Undisturbed /\ Exact(calls[c], tickets, messages) => Exact(Tail(calls[c]), tickets', messages)
    PROVE  Present' /\ NeverTooMany' /\ Told' /\ DatesKept' /\ CountsExact'
<1> DEFINE s == calls[c]
           x == Tail(s)
<1>1. /\ s \in Seq(Statements) /\ s # <<>> /\ s # Idle /\ Head(s).what = w
      /\ Arg(c) = Head(s).arg
      /\ Finding(s, Known) /\ Covered(s, messages) /\ Noted(s, history)
      /\ (overlaps = 0 => Dating(s, DatedTickets))
    BY NextStatement
<1>2. calls' = [calls EXCEPT ![c] = x] /\ UNCHANGED overlaps
    BY DEF Answered
<1>3. messages \in [Tickets -> Nat] /\ messages' = messages
    BY DEF DeskInv, DeskTyped
<1>4. Finding(x, Known')
    BY <1>1, TailFinds
<1>5. Covered(x, messages)
    BY <1>1, <1>3, TailCovered
<1>6. Noted(x, history')
    BY <1>1, TailNoted
<1>7. overlaps = 0 => Dating(x, DatedTickets')
    BY <1>1, TailDating
<1>8. Present' /\ NeverTooMany' /\ Told'
    <2>1. /\ \A t \in Tickets : messages[t] <= messages'[t]
          /\ \A t \in Tickets \ Known' : messages'[t] = 0
        <3>1. \A t \in Tickets : messages[t] \in Nat
            BY <1>3
        <3>2. \A t \in Tickets \ Known : messages[t] = 0
            BY DEF DeskInv, Present
        <3> QED
            BY <1>3, <3>1, <3>2
    <2> HIDE DEF x
    <2>2. \A t \in Known' : tickets'[t].count <= messages'[t]
        BY <1>3
    <2>3. Covered(x, messages')
        BY <1>3, <1>5
    <2> QED
        BY <1>2, <1>4, <1>6, <2>1, <2>2, <2>3, RequestMoves
<1>9. DatesKept' /\ CountsExact'
    <2>1. Undisturbed /\ Undisturbed' /\ Exact(calls[c], tickets, messages) =>
              Exact(x, tickets', messages')
        BY <1>3
    <2>2. calls[c] # Idle
        BY <1>1
    <2> HIDE DEF x
    <2>3. overlaps = 0 => /\ \A t \in Tickets : "resolved" \in history'[t] => t \in DatedTickets'
                          /\ Dating(x, DatedTickets')
        BY <1>7
    <2> QED
        BY <1>2, <2>1, <2>2, <2>3, LoneMoves
<1> QED
    BY <1>8, <1>9

\* The types of the requests once a statement is executed.
LEMMA TailTyped ==
    ASSUME DeskInv, NEW c \in Slots, NEW w, Sends(c, w), Answered(c)
    PROVE  calls' \in [Slots -> Seq(Statements)] /\ overlaps' \in Nat
<1>1. Tail(calls[c]) \in Seq(Statements)
    BY NextStatement
<1> QED
    BY <1>1 DEF DeskInv, DeskTyped, Answered

LEMMA SaveAgentStep ==
    ASSUME DeskInv, NEW c \in Slots, saveAgent(c)
    PROVE  DeskInv'
<1>1. Sends(c, "saveAgent") /\ Answered(c)
      /\ load' = [load EXCEPT ![Arg(c)[1]] = Arg(c)[2]]
      /\ UNCHANGED <<tickets, messages, history, asked, log, failures>>
    BY DEF saveAgent, Elsewhere
<1>2. Arg(c) \in Agents \X Int
    BY <1>1, NextStatement, StatementArgs
<1>3. DeskTyped'
    BY <1>1, <1>2, TailTyped DEF DeskInv, DeskTyped, log
<1>4. Known' = Known /\ DatedTickets' = DatedTickets
    BY <1>1, RowsSame
<1>5. Present' /\ NeverTooMany' /\ Told' /\ DatesKept' /\ CountsExact'
    <2>1. Dates(Head(calls[c])) = {}
        BY <1>1, NextStatement DEF Dates, SetsDate
    <2>2. Exact(calls[c], tickets, messages) => Exact(Tail(calls[c]), tickets', messages)
        BY <1>1, NextStatement, QuietTail DEF SetsCount
    <2>3. /\ \A t \in Known' : tickets'[t].count <= messages[t]
          /\ \A t \in Tickets : history[t] \subseteq history'[t]
          /\ \A n \in Notices : asked'[n] > 0 => n.kind \in history'[n.ticket]
          /\ failures' = 0 => failures = 0
        BY <1>1, <1>4 DEF DeskInv, NeverTooMany, Told
    <2>4. overlaps = 0 =>
               /\ DatedTickets \subseteq DatedTickets' /\ Dates(Head(calls[c])) \subseteq DatedTickets'
               /\ \A t \in Tickets : "resolved" \in history'[t] => t \in DatedTickets'
        BY <1>1, <1>4, <2>1 DEF DeskInv, DatesKept
    <2> QED
        BY <1>1, <1>3, <1>4, <2>2, <2>3, <2>4, TailMoves
<1>6. Queued'
    BY <1>1, QueuedSame DEF DeskInv
<1> QED
    BY <1>3, <1>5, <1>6 DEF DeskInv

LEMMA SaveHistoryStep ==
    ASSUME DeskInv, NEW c \in Slots, saveHistory(c)
    PROVE  DeskInv'
<1> DEFINE t0 == Arg(c)[1]
           x0 == Arg(c)[2]
<1>1. Sends(c, "saveHistory") /\ Answered(c)
      /\ history' = [history EXCEPT ![t0] = @ \union {x0}]
      /\ UNCHANGED <<tickets, load, messages, asked, log, failures>>
    BY DEF saveHistory, Elsewhere
<1>2. Arg(c) \in Tickets \X Actions
    BY <1>1, NextStatement, StatementArgs
<1>3. DeskTyped'
    BY <1>1, <1>2, TailTyped DEF DeskInv, DeskTyped, log
<1>4. Known' = Known /\ DatedTickets' = DatedTickets
    BY <1>1, RowsSame
<1>5. /\ \A t \in Tickets : history'[t] = IF t = t0 THEN history[t] \union {x0} ELSE history[t]
      /\ t0 \in Tickets
    BY <1>1, <1>2 DEF DeskInv, DeskTyped
<1>6. ASSUME overlaps = 0, x0 = "resolved" PROVE t0 \in DatedTickets
    <2>1. calls[c][1] = Do("saveHistory", <<t0, "resolved">>)
        <3>1. calls[c][1] \in Statements /\ calls[c][1].what = "saveHistory" /\ calls[c][1].arg = Arg(c)
            BY <1>1, NextStatement
        <3>2. Arg(c) = <<t0, x0>>
            BY <1>2
        <3> QED
            BY <1>6, <3>1, <3>2, StatementArgs
    <2>2. Dating(calls[c], DatedTickets) /\ 1 \in DOMAIN calls[c]
        BY <1>1, <1>6, NextStatement
    <2> QED
        BY <1>5, <2>1, <2>2 DEF Dating
<1> HIDE DEF t0, x0
<1>7. Present' /\ NeverTooMany' /\ Told' /\ DatesKept' /\ CountsExact'
    <2>1. Dates(Head(calls[c])) = {}
        BY <1>1, NextStatement DEF Dates, SetsDate
    <2>2. Exact(calls[c], tickets, messages) => Exact(Tail(calls[c]), tickets', messages)
        BY <1>1, NextStatement, QuietTail DEF SetsCount
    <2>3. /\ \A t \in Known' : tickets'[t].count <= messages[t]
          /\ \A t \in Tickets : history[t] \subseteq history'[t]
          /\ failures' = 0 => failures = 0
        BY <1>1, <1>4, <1>5 DEF DeskInv, NeverTooMany
    <2>4. \A n \in Notices : asked'[n] > 0 => n.kind \in history'[n.ticket]
        BY <1>1, <1>5 DEF DeskInv, Told, Notices
    <2>5. overlaps = 0 =>
               /\ DatedTickets \subseteq DatedTickets' /\ Dates(Head(calls[c])) \subseteq DatedTickets'
               /\ \A t \in Tickets : "resolved" \in history'[t] => t \in DatedTickets'
        BY <1>4, <1>5, <1>6, <2>1 DEF DeskInv, DatesKept
    <2>6. Arg(c)[2] \in history'[Arg(c)[1]]
        BY <1>5 DEF t0, x0
    <2> QED
        BY <1>1, <1>3, <1>4, <2>2, <2>3, <2>4, <2>5, <2>6, TailMoves
<1>8. Queued'
    BY <1>1, QueuedSame DEF DeskInv
<1> QED
    BY <1>3, <1>7, <1>8 DEF DeskInv

LEMMA UpdateRowStep ==
    ASSUME DeskInv, NEW c \in Slots, updateRow(c)
    PROVE  DeskInv'
<1> DEFINE s == calls[c]
           t0 == Arg(c)[1]
           p0 == Arg(c)[2]
           new == Patched(tickets[t0], p0)
<1>1. Sends(c, "updateRow") /\ Answered(c)
      /\ tickets' = [tickets EXCEPT ![t0] = new]
      /\ UNCHANGED <<load, messages, history, asked, log, failures>>
    BY DEF updateRow, Elsewhere
<1>2. /\ s \in Seq(Statements) /\ s # <<>> /\ 1 \in DOMAIN s /\ Head(s) = s[1]
      /\ Head(s) \in Statements /\ Head(s).what = "updateRow" /\ Arg(c) = Head(s).arg
      /\ Finds(Head(s)) \subseteq Known /\ Covered(s, messages) /\ Finding(s, Known)
      /\ (overlaps = 0 => Dating(s, DatedTickets))
    BY <1>1, NextStatement
<1>3. Arg(c) \in Tickets \X Patches /\ t0 \in Known /\ t0 \in Tickets /\ p0 \in Patches
      /\ Arg(c) = <<t0, p0>>
    BY <1>2, StatementArgs DEF Finds
<1>4. tickets[t0] \in Rows /\ tickets[t0].count \in Nat
    BY <1>3, KnownRow DEF DeskInv, Known, Rows
<1>5. /\ new \in Rows
      /\ new.count = IF p0 \in [count : Nat] THEN p0.count ELSE tickets[t0].count
      /\ new.dated = IF p0 \in [status : Statuses, dated : BOOLEAN]
                     THEN p0.dated ELSE tickets[t0].dated
    BY <1>3, <1>4, RowPatched
<1> HIDE DEF new, t0, p0, s
<1>6. \A t \in Tickets : tickets'[t] = IF t = t0 THEN new ELSE tickets[t]
    BY <1>1, <1>3 DEF DeskInv, DeskTyped
<1>7. new # Missing
    BY <1>5, NullsNotRows
<1>8. Known' = Known
    BY <1>3, <1>6, <1>7 DEF Known, Exists
<1>9. DeskTyped'
    BY <1>1, <1>3, <1>5, TailTyped DEF DeskInv, DeskTyped, log
<1>10. new.count <= messages[t0]
    <2>1. CASE p0 \in [count : Nat]
        <3>1. SetsCount(s[1]) /\ s[1].arg[2].count = p0.count /\ s[1].arg[1] = t0
            BY <1>2, <1>3, <2>1 DEF SetsCount, t0, p0
        <3>2. \A j : j \notin 1 .. 1 - 1
            OBVIOUS
        <3> QED
            BY <1>2, <1>5, <2>1, <3>1, <3>2 DEF Covered
    <2>2. CASE p0 \notin [count : Nat]
        BY <1>3, <1>5, <2>2 DEF DeskInv, NeverTooMany
    <2> QED
        BY <2>1, <2>2
<1>11. ASSUME overlaps = 0
       PROVE  /\ DatedTickets \subseteq DatedTickets' /\ Dates(Head(s)) \subseteq DatedTickets'
              /\ \A t \in Tickets : "resolved" \in history'[t] => t \in DatedTickets'
    <2>1. CASE p0 \in [status : Statuses, dated : BOOLEAN]
        <3>1. SetsDate(s[1]) /\ Finds(s[1]) = {t0} /\ Dates(s[1]) = {t \in {t0} : p0.dated}
            BY <1>2, <1>3, <2>1 DEF SetsDate, Finds, Dates, t0, p0
        <3>2. {t0} \intersect DatedTickets \subseteq {t \in {t0} : p0.dated}
            BY <1>2, <1>11, <3>1 DEF Dating
        <3>3. DatedTickets \subseteq DatedTickets'
            BY <1>3, <1>5, <1>6, <1>8, <2>1, <3>2 DEF DatedTickets, Known
        <3>4. Dates(Head(s)) \subseteq DatedTickets'
            BY <1>2, <1>3, <1>5, <1>6, <1>8, <2>1, <3>1 DEF DatedTickets
        <3> QED
            BY <1>1, <1>11, <3>3, <3>4 DEF DeskInv, DatesKept
    <2>2. CASE p0 \notin [status : Statuses, dated : BOOLEAN]
        <3>1. Dates(Head(s)) = {}
            BY <1>2, <2>2 DEF Dates, SetsDate, p0
        <3>2. DatedTickets' = DatedTickets
            BY <1>3, <1>5, <1>6, <1>8, <2>2 DEF DatedTickets, Known
        <3> QED
            BY <1>1, <1>11, <3>1, <3>2 DEF DeskInv, DatesKept
    <2> QED
        BY <2>1, <2>2
<1>12. ASSUME Exact(s, tickets, messages) PROVE Exact(Tail(s), tickets', messages)
    <2>1. CASE p0 \in [count : Nat]
        <3>1. SetsCount(s[1])
            BY <1>2, <2>1 DEF SetsCount, p0
        <3>2. ~LeavesCounts(s, tickets)
            BY <1>2, <3>1 DEF LeavesCounts
        <3>3. \A t, n : s # Sending(t, n)
            <4>1. \A t, n : Head(Sending(t, n)) = Do("saveMessage", t)
                BY DEF Sending
            <4> QED
                BY <1>2, <4>1 DEF Do
        <3>4. PICK t \in Tickets : Level(tickets, messages, {t}) /\ s = Counting(t, messages[t])
            BY <1>12, <3>2, <3>3 DEF Exact
        <3>5. Head(s) = Do("updateRow", <<t, [count |-> messages[t]]>>)
              /\ Tail(s) = <<Do("saveHistory", <<t, "message">>)>>
            BY <3>4 DEF Counting
        <3>6. t = t0 /\ p0.count = messages[t0]
            BY <1>2, <3>5 DEF Do, t0, p0
        <3>7. Level(tickets', messages, {})
            BY <1>5, <1>6, <2>1, <3>4, <3>6 DEF Level
        <3>8. LeavesCounts(Tail(s), tickets')
            <4>1. DOMAIN Tail(s) = {1} /\ Tail(s)[1] = Do("saveHistory", <<t, "message">>)
                <5>1. \A x : DOMAIN <<x>> = {1} /\ <<x>>[1] = x
                    OBVIOUS
                <5> QED
                    BY <3>5, <5>1
            <4> QED
                BY <4>1 DEF LeavesCounts, SetsCount, Do
        <3> QED
            BY <3>7, <3>8 DEF Exact
    <2>2. CASE p0 \notin [count : Nat]
        <3>1. ~SetsCount(Head(s))
            BY <1>2, <2>2 DEF SetsCount, p0
        <3>2. Level(tickets, messages, {}) /\ LeavesCounts(Tail(s), tickets)
            BY <1>2, <1>12, <3>1, QuietTail
        <3>3. Level(tickets', messages, {})
            BY <1>3, <1>5, <1>6, <2>2, <3>2 DEF Level, Known, Exists
        <3>4. \A t \in Tickets : tickets'[t] = tickets[t] \/ tickets'[t].count = tickets[t].count
            BY <1>5, <1>6, <2>2
        <3>5. Tail(s) \in Seq(Statements)
            BY <1>2
        <3>6. ASSUME NEW i \in DOMAIN Tail(s), Tail(s)[i].what = "saveTickets",
                     NEW t \in DOMAIN Tail(s)[i].arg
              PROVE  t \in Tickets
            <4>1. Tail(s)[i] \in Statements
                BY <3>5
            <4> QED
                BY <3>6, <4>1, StatementArgs
        <3>7. LeavesCounts(Tail(s), tickets')
            BY <3>2, <3>4, <3>6 DEF LeavesCounts
        <3> QED
            BY <3>3, <3>7 DEF Exact
    <2> QED
        BY <2>1, <2>2
<1>13. Present' /\ NeverTooMany' /\ Told' /\ DatesKept' /\ CountsExact'
    <2>1. /\ \A t \in Known' : tickets'[t].count <= messages[t]
          /\ \A t \in Tickets : history[t] \subseteq history'[t]
          /\ \A n \in Notices : asked'[n] > 0 => n.kind \in history'[n.ticket]
          /\ failures' = 0 => failures = 0
        BY <1>1, <1>6, <1>8, <1>10 DEF DeskInv, NeverTooMany, Told, Known
    <2> QED
        BY <1>1, <1>8, <1>9, <1>11, <1>12, <2>1, TailMoves DEF s
<1>14. Queued'
    BY <1>1, QueuedSame DEF DeskInv
<1> QED
    BY <1>9, <1>13, <1>14 DEF DeskInv

LEMMA SaveTicketsStep ==
    ASSUME DeskInv, NEW c \in Slots, saveTickets(c)
    PROVE  DeskInv'
<1> DEFINE s == calls[c]
           new == Arg(c)
<1>1. Sends(c, "saveTickets") /\ Answered(c) /\ tickets' = Patched(tickets, new)
      /\ UNCHANGED <<load, messages, history, asked, log, failures>>
    BY DEF saveTickets, Elsewhere
<1>2. /\ s \in Seq(Statements) /\ s # <<>> /\ 1 \in DOMAIN s /\ Head(s) = s[1]
      /\ Head(s) \in Statements /\ Head(s).what = "saveTickets" /\ new = Head(s).arg
      /\ Finds(Head(s)) \subseteq Known /\ Covered(s, messages) /\ Finding(s, Known)
      /\ (overlaps = 0 => Dating(s, DatedTickets))
    BY <1>1, NextStatement
<1>3. DOMAIN new \subseteq Known /\ DOMAIN new \subseteq Tickets
      /\ \A t \in DOMAIN new : new[t] \in Rows
    BY <1>2, StatementArgs DEF Finds
<1> HIDE DEF new, s
<1>4. /\ DOMAIN tickets' = Tickets
      /\ \A t \in Tickets : tickets'[t] = IF t \in DOMAIN new THEN new[t] ELSE tickets[t]
      /\ tickets' \in [Tickets -> Rows \union {Missing}]
    BY <1>1, <1>3 DEF DeskInv, DeskTyped, Patched
<1>5. \A t \in DOMAIN new : new[t] # Missing
    BY <1>3, NullsNotRows
<1>6. Known' = Known
    BY <1>3, <1>4, <1>5 DEF Known, Exists
<1>7. DeskTyped'
    BY <1>1, <1>4, TailTyped DEF DeskInv, DeskTyped, log
<1>8. \A t \in DOMAIN new : new[t].count <= messages[t]
    BY <1>2 DEF Covered
<1>9. ASSUME overlaps = 0
      PROVE  /\ DatedTickets \subseteq DatedTickets' /\ Dates(Head(s)) \subseteq DatedTickets'
             /\ \A t \in Tickets : "resolved" \in history'[t] => t \in DatedTickets'
    <2>1. SetsDate(s[1]) /\ Finds(s[1]) = DOMAIN new /\ Dates(s[1]) = {t \in DOMAIN new : new[t].dated}
        BY <1>2 DEF SetsDate, Finds, Dates
    <2>2. DOMAIN new \intersect DatedTickets \subseteq {t \in DOMAIN new : new[t].dated}
        BY <1>2, <1>9, <2>1 DEF Dating
    <2>3. DatedTickets \subseteq DatedTickets'
        BY <1>4, <1>6, <2>2 DEF DatedTickets, Known
    <2>4. Dates(Head(s)) \subseteq DatedTickets'
        BY <1>2, <1>3, <1>4, <1>6, <2>1 DEF DatedTickets
    <2> QED
        BY <1>1, <1>9, <2>3, <2>4 DEF DeskInv, DatesKept
<1>10. ASSUME Exact(s, tickets, messages) PROVE Exact(Tail(s), tickets', messages)
    <2>1. Level(tickets, messages, {}) /\ LeavesCounts(s, tickets) /\ LeavesCounts(Tail(s), tickets)
        BY <1>2, <1>10, QuietTail DEF SetsCount
    <2>2. \A t \in DOMAIN new : new[t].count = tickets[t].count
        BY <1>2, <2>1 DEF LeavesCounts
    <2>3. \A t \in Tickets : tickets'[t] = tickets[t] \/ tickets'[t].count = tickets[t].count
        BY <1>4, <2>2
    <2>4. Level(tickets', messages, {})
        BY <1>3, <1>4, <2>1, <2>2 DEF Level, Known, Exists
    <2>5. Tail(s) \in Seq(Statements)
        BY <1>2
    <2>6. ASSUME NEW i \in DOMAIN Tail(s), Tail(s)[i].what = "saveTickets",
                 NEW t \in DOMAIN Tail(s)[i].arg
          PROVE  t \in Tickets
        <3>1. Tail(s)[i] \in Statements
            BY <2>5
        <3> QED
            BY <2>6, <3>1, StatementArgs
    <2>7. LeavesCounts(Tail(s), tickets')
        BY <2>1, <2>3, <2>6 DEF LeavesCounts
    <2> QED
        BY <2>4, <2>7 DEF Exact
<1>11. Present' /\ NeverTooMany' /\ Told' /\ DatesKept' /\ CountsExact'
    <2>1. /\ \A t \in Known' : tickets'[t].count <= messages[t]
          /\ \A t \in Tickets : history[t] \subseteq history'[t]
          /\ \A n \in Notices : asked'[n] > 0 => n.kind \in history'[n.ticket]
          /\ failures' = 0 => failures = 0
        BY <1>1, <1>4, <1>6, <1>8 DEF DeskInv, NeverTooMany, Told, Known
    <2> QED
        BY <1>1, <1>6, <1>7, <1>9, <1>10, <2>1, TailMoves DEF s
<1>12. Queued'
    BY <1>1, QueuedSame DEF DeskInv
<1> QED
    BY <1>7, <1>11, <1>12 DEF DeskInv

\* A ticket is new, or its number is taken and the request fails.
LEMMA InsertTicketStep ==
    ASSUME DeskInv, NEW c \in Slots, insertTicket(c)
    PROVE  DeskInv'
<1> DEFINE s == calls[c]
           t0 == Arg(c)[1]
           row == Arg(c)[2]
<1>1. Sends(c, "insertTicket") /\ UNCHANGED <<load, messages, history, overlaps, asked, log, failures>>
    BY DEF insertTicket, Elsewhere, Answered
<1>2. /\ s \in Seq(Statements) /\ s # <<>> /\ s # Idle /\ 1 \in DOMAIN s /\ Head(s) = s[1]
      /\ Head(s) \in Statements /\ Head(s).what = "insertTicket" /\ Arg(c) = Head(s).arg
      /\ Finding(s, Known) /\ Finding(Tail(s), Known) /\ Tail(s) \in Seq(Statements)
      /\ (overlaps = 0 => Dating(s, DatedTickets))
    <2>1. /\ s \in Seq(Statements) /\ s # <<>> /\ s # Idle /\ 1 \in DOMAIN s /\ Head(s) = s[1]
          /\ Head(s) \in Statements /\ Head(s).what = "insertTicket" /\ Arg(c) = Head(s).arg
          /\ Finding(s, Known) /\ Tail(s) \in Seq(Statements)
          /\ (overlaps = 0 => Dating(s, DatedTickets))
        BY <1>1, NextStatement
    <2> QED
        BY <2>1, TailFinds
<1>3. t0 \in Tickets /\ row \in Rows /\ ~row.dated /\ row.count = 0
    BY <1>2, StatementArgs
<1> HIDE DEF t0, row
<1>4. Queued'
    BY <1>1, QueuedSame DEF DeskInv
<1>5. CASE Exists(t0)
    <2>1. calls' = [calls EXCEPT ![c] = Idle] /\ UNCHANGED tickets
        BY <1>5 DEF insertTicket, t0
    <2>2. Known' = Known /\ DatedTickets' = DatedTickets
        BY <2>1, RowsSame
    <2>3. DeskTyped'
        BY <1>1, <2>1, IdleFits DEF DeskInv, DeskTyped, log
    <2>4. Present' /\ NeverTooMany' /\ Told'
        <3>1. /\ \A t \in Tickets : messages[t] <= messages'[t] /\ history[t] \subseteq history'[t]
              /\ \A t \in Tickets \ Known' : messages'[t] = 0
              /\ \A t \in Known' : tickets'[t].count <= messages'[t]
              /\ \A e \in Notices : asked'[e] > 0 => e.kind \in history'[e.ticket]
            BY <1>1, <2>1, <2>2 DEF DeskInv, DeskTyped, Present, NeverTooMany, Told
        <3>2. Known \subseteq Known'
            BY <2>2
        <3>3. Finding(Idle, Known') /\ Covered(Idle, messages') /\ Noted(Idle, history')
            BY IdleFits
        <3> QED
            BY <1>1, <2>1, <2>3, <3>1, <3>2, <3>3, RequestMoves
    <2>5. DatesKept' /\ CountsExact'
        <3>1. overlaps = 0 => /\ \A t \in Tickets : "resolved" \in history'[t] => t \in DatedTickets'
                              /\ Dating(Idle, DatedTickets')
            BY <1>1, <2>2, IdleFits DEF DeskInv, DatesKept
        <3>2. (failures' = 0 => failures = 0) /\ calls[c] # Idle
            BY <1>1, <1>2
        <3>3. ASSUME Exact(calls[c], tickets, messages) PROVE Exact(Idle, tickets', messages')
            <4>1. Level(tickets, messages, {})
                BY <1>2, <3>3, QuietTail DEF SetsCount
            <4>2. LeavesCounts(Idle, tickets)
                BY DEF Idle, LeavesCounts
            <4> QED
                BY <1>1, <2>1, <4>1, <4>2 DEF Exact
        <3> QED
            BY <1>1, <2>1, <3>1, <3>2, <3>3, LoneMoves
    <2> QED
        BY <1>4, <2>3, <2>4, <2>5 DEF DeskInv
<1>6. CASE ~Exists(t0)
    <2>1. Answered(c) /\ tickets' = [tickets EXCEPT ![t0] = row]
        BY <1>6 DEF insertTicket, t0, row
    <2>2. \A t \in Tickets : tickets'[t] = IF t = t0 THEN row ELSE tickets[t]
        BY <1>3, <2>1 DEF DeskInv, DeskTyped
    <2>3. t0 \notin Known /\ row # Missing
        BY <1>3, <1>6, NullsNotRows DEF Known
    <2>4. Known' = Known \union {t0}
        BY <1>3, <2>2, <2>3 DEF Known, Exists
    <2>5. DatedTickets' = DatedTickets
        <3>1. \A t \in Known : t \in Tickets /\ t # t0 /\ tickets'[t] = tickets[t]
            BY <2>2, <2>3 DEF Known
        <3>2. ~tickets'[t0].dated
            BY <1>3, <2>2
        <3> QED
            BY <2>4, <3>1, <3>2 DEF DatedTickets
    <2>6. DeskTyped'
        BY <1>1, <1>3, <2>1, TailTyped DEF DeskInv, DeskTyped, log
    <2>7. \A t \in Known' : tickets'[t].count <= messages[t]
        <3>1. messages[t0] = 0
            BY <1>3, <2>3 DEF DeskInv, Present
        <3>2. tickets'[t0].count <= messages[t0]
            BY <1>3, <2>2, <3>1
        <3>3. \A t \in Known : tickets'[t] = tickets[t]
            BY <2>2, <2>3 DEF Known
        <3> QED
            BY <2>4, <3>2, <3>3 DEF DeskInv, NeverTooMany
    <2>8. overlaps = 0 =>
               /\ DatedTickets \subseteq DatedTickets' /\ Dates(Head(calls[c])) \subseteq DatedTickets'
               /\ \A t \in Tickets : "resolved" \in history'[t] => t \in DatedTickets'
        <3>1. Dates(Head(s)) = {}
            BY <1>2 DEF Dates, SetsDate
        <3> QED
            BY <1>1, <2>5, <3>1 DEF DeskInv, DatesKept
    <2>9. ASSUME Exact(s, tickets, messages) PROVE Exact(Tail(s), tickets', messages)
        <3>1. Level(tickets, messages, {}) /\ LeavesCounts(Tail(s), tickets)
            BY <1>2, <2>9, QuietTail DEF SetsCount
        <3>2. Level(tickets', messages, {})
            <4>1. messages[t0] = 0
                BY <1>3, <2>3 DEF DeskInv, Present
            <4> QED
                BY <1>3, <2>2, <3>1, <4>1 DEF Level
        <3>3. ASSUME NEW i \in DOMAIN Tail(s), Tail(s)[i].what = "saveTickets",
                     NEW t \in DOMAIN Tail(s)[i].arg
              PROVE  tickets'[t] = tickets[t]
            <4>1. t \in Known
                BY <1>2, <3>3 DEF Finding, Finds
            <4> QED
                BY <2>2, <2>3, <4>1 DEF Known
        <3>4. LeavesCounts(Tail(s), tickets')
            <4> DEFINE y == Tail(s)
            <4>1. \A i \in DOMAIN y : y[i].what = "saveTickets" =>
                      \A t \in DOMAIN y[i].arg : tickets'[t] = tickets[t]
                BY <3>3
            <4> HIDE DEF y
            <4>2. LeavesCounts(y, tickets)
                BY <3>1 DEF y
            <4>3. LeavesCounts(y, tickets')
                BY <4>1, <4>2 DEF LeavesCounts
            <4> QED
                BY <4>3 DEF y
        <3> QED
            BY <3>2, <3>4 DEF Exact
    <2>10. Present' /\ NeverTooMany' /\ Told' /\ DatesKept' /\ CountsExact'
        <3>1. /\ \A t \in Tickets : history[t] \subseteq history'[t]
              /\ \A n \in Notices : asked'[n] > 0 => n.kind \in history'[n.ticket]
              /\ failures' = 0 => failures = 0
              /\ Known \subseteq Known'
            BY <1>1, <2>4 DEF DeskInv, Told
        <3> QED
            BY <1>1, <2>1, <2>6, <2>7, <2>8, <2>9, <3>1, TailMoves
    <2> QED
        BY <1>4, <2>6, <2>10 DEF DeskInv
<1> QED
    BY <1>5, <1>6

\* The message that a statement sets a counter for may be the one just saved.
LEMMA TailCoveredOnce ==
    ASSUME NEW s \in Seq(Statements), s # <<>>, NEW m \in [Tickets -> Nat], Covered(s, m),
           NEW t0 \in Tickets, Head(s) = Do("saveMessage", t0)
    PROVE  Covered(Tail(s), [m EXCEPT ![t0] = @ + 1])
<1> DEFINE m2 == [m EXCEPT ![t0] = @ + 1]
<1>1. \A i \in DOMAIN Tail(s) : /\ i \in Nat \ {0} /\ i + 1 \in DOMAIN s /\ Tail(s)[i] = s[i + 1]
    BY TailElements
<1>2. DOMAIN Tail(s) = 1 .. Len(s) - 1 /\ Len(s) \in Nat /\ Head(s) = s[1]
      /\ Tail(s) \in Seq(Statements)
    BY TailElements
<1>3. /\ m2[t0] = m[t0] + 1 /\ \A t \in Tickets : m[t] \in Nat /\ m2[t] \in Nat /\ m[t] <= m2[t]
    OBVIOUS
<1> HIDE DEF m2
<1> SUFFICES ASSUME NEW i \in DOMAIN Tail(s)
             PROVE  /\ SetsCount(Tail(s)[i]) =>
                          \/ Tail(s)[i].arg[2].count <= m2[Tail(s)[i].arg[1]]
                          \/ /\ Tail(s)[i].arg[2].count <= m2[Tail(s)[i].arg[1]] + 1
                             /\ \E j \in 1 .. i - 1 : Tail(s)[j] = Do("saveMessage", Tail(s)[i].arg[1])
                    /\ Tail(s)[i].what = "saveTickets" =>
                          \A t \in DOMAIN Tail(s)[i].arg : Tail(s)[i].arg[t].count <= m2[t]
    BY DEF Covered, m2
<1> DEFINE d == Tail(s)[i]
<1>4. d \in Statements /\ d = s[i + 1] /\ i + 1 \in DOMAIN s /\ i \in Nat \ {0}
    BY <1>1, <1>2
<1>5. ASSUME SetsCount(d)
      PROVE  \/ d.arg[2].count <= m2[d.arg[1]]
             \/ /\ d.arg[2].count <= m2[d.arg[1]] + 1
                /\ \E j \in 1 .. i - 1 : Tail(s)[j] = Do("saveMessage", d.arg[1])
    <2> DEFINE t == d.arg[1]
               k == d.arg[2].count
    <2>1. t \in Tickets /\ k \in Nat
        BY <1>4, <1>5, StatementArgs DEF SetsCount
    <2>2. \/ k <= m[t]
          \/ k <= m[t] + 1 /\ \E j \in 1 .. (i + 1) - 1 : s[j] = Do("saveMessage", t)
        BY <1>4, <1>5 DEF Covered
    <2> HIDE DEF t, k, d
    <2>3. CASE k <= m[t]
        <3>1. k <= m2[t]
            BY <1>3, <2>1, <2>3
        <3> QED
            BY <3>1 DEF t, k
    <2>4. ASSUME k <= m[t] + 1, NEW j \in 1 .. (i + 1) - 1, s[j] = Do("saveMessage", t)
          PROVE  \/ k <= m2[t]
                 \/ /\ k <= m2[t] + 1 /\ \E x \in 1 .. i - 1 : Tail(s)[x] = Do("saveMessage", t)
        <3>1. CASE j = 1
            <4>1. t = t0
                BY <1>2, <2>4, <3>1 DEF Do
            <4> QED
                BY <1>3, <2>1, <2>4, <4>1
        <3>2. CASE j # 1
            <4>1. j - 1 \in 1 .. i - 1 /\ j - 1 \in DOMAIN Tail(s) /\ (j - 1) + 1 = j
                BY <1>1, <1>2, <3>2
            <4>2. Tail(s)[j - 1] = Do("saveMessage", t)
                BY <1>1, <2>4, <4>1
            <4>3. k <= m2[t] + 1
                BY <1>3, <2>1, <2>4
            <4> QED
                BY <4>1, <4>2, <4>3
        <3> QED
            BY <3>1, <3>2
    <2> QED
        BY <2>2, <2>3, <2>4 DEF t, k
<1>6. ASSUME d.what = "saveTickets", NEW t \in DOMAIN d.arg PROVE d.arg[t].count <= m2[t]
    <2>1. t \in Tickets /\ d.arg[t].count \in Nat
        BY <1>4, <1>6, StatementArgs DEF Rows
    <2>2. d.arg[t].count <= m[t]
        BY <1>4, <1>6 DEF Covered
    <2> HIDE DEF d
    <2> QED
        BY <1>3, <2>1, <2>2
<1> QED
    BY <1>5, <1>6

LEMMA SaveMessageStep ==
    ASSUME DeskInv, NEW c \in Slots, saveMessage(c)
    PROVE  DeskInv'
<1> DEFINE s == calls[c]
           x == Tail(s)
           t0 == Arg(c)
<1>1. Sends(c, "saveMessage") /\ Answered(c) /\ messages' = [messages EXCEPT ![t0] = @ + 1]
      /\ UNCHANGED <<tickets, load, history, asked, log, failures>>
    BY DEF saveMessage, Elsewhere
<1>2. /\ s \in Seq(Statements) /\ s # <<>> /\ s # Idle /\ 1 \in DOMAIN s /\ Head(s) = s[1]
      /\ Head(s) \in Statements /\ Head(s).what = "saveMessage" /\ t0 = Head(s).arg
      /\ Finds(Head(s)) \subseteq Known /\ Covered(s, messages) /\ Finding(s, Known)
      /\ Noted(s, history) /\ x \in Seq(Statements) /\ (overlaps = 0 => Dating(s, DatedTickets))
    BY <1>1, NextStatement
<1>3. t0 \in Tickets /\ t0 \in Known /\ Head(s) = Do("saveMessage", t0)
    BY <1>2, StatementArgs DEF Finds
<1>4. calls' = [calls EXCEPT ![c] = x] /\ UNCHANGED overlaps
    BY <1>1 DEF Answered
<1>5. messages \in [Tickets -> Nat]
    BY DEF DeskInv, DeskTyped
<1> HIDE DEF t0
<1>6. /\ messages' \in [Tickets -> Nat]
      /\ \A t \in Tickets : messages'[t] = IF t = t0 THEN messages[t] + 1 ELSE messages[t]
    BY <1>1, <1>3, <1>5
<1>7. \A t \in Tickets : messages[t] \in Nat /\ messages[t] <= messages'[t]
    BY <1>5, <1>6
<1>8. Known' = Known /\ DatedTickets' = DatedTickets
    BY <1>1, RowsSame
<1>9. DeskTyped'
    BY <1>1, <1>6, TailTyped DEF DeskInv, DeskTyped, log
<1>10. Covered(x, messages')
    BY <1>1, <1>2, <1>3, <1>5, TailCoveredOnce
<1>11. Finding(x, Known')
    BY <1>2, <1>8, TailFinds
<1>12. Noted(x, history')
    <2>1. \A t \in Tickets : history[t] \subseteq history'[t]
        BY <1>1
    <2> QED
        BY <1>2, <2>1, TailNoted
<1>13. Present' /\ NeverTooMany' /\ Told'
    <2>1. \A t \in Tickets \ Known' : messages'[t] = 0
        BY <1>3, <1>6, <1>8 DEF DeskInv, Present
    <2>2. \A t \in Known' : tickets'[t].count <= messages'[t]
        <3>1. ASSUME NEW t \in Known PROVE tickets[t].count <= messages'[t]
            <4>1. t \in Tickets /\ tickets[t].count <= messages[t] /\ tickets[t].count \in Nat
                BY KnownRow DEF DeskInv, NeverTooMany, Known, Rows
            <4> QED
                BY <1>6, <1>7, <4>1
        <3> QED
            BY <1>1, <1>8, <3>1
    <2>3. /\ \A t \in Tickets : history[t] \subseteq history'[t]
          /\ \A e \in Notices : asked'[e] > 0 => e.kind \in history'[e.ticket]
          /\ Known \subseteq Known'
        BY <1>1, <1>8 DEF DeskInv, Told
    <2> HIDE DEF x
    <2> QED
        BY <1>4, <1>7, <1>9, <1>10, <1>11, <1>12, <2>1, <2>2, <2>3, RequestMoves
<1>14. ASSUME Exact(s, tickets, messages) PROVE Exact(x, tickets', messages')
    <2>1. ~LeavesCounts(s, tickets)
        BY <1>2 DEF LeavesCounts
    <2>2. \A t : \A n : Head(Counting(t, n)).what = "updateRow"
        BY DEF Counting, Do
    <2>3. \A t \in Tickets : s # Counting(t, messages[t])
        BY <1>2, <2>2
    <2>4. PICK t \in Tickets : s = Sending(t, messages[t] + 1)
        BY <1>14, <2>1, <2>3 DEF Exact
    <2>5. Level(tickets, messages, {})
        BY <1>14, <2>1, <2>3 DEF Exact
    <2>6. Head(s) = Do("saveMessage", t) /\ x = Counting(t, messages[t] + 1)
        BY <2>4 DEF Sending, Counting
    <2>7. t = t0
        BY <1>3, <2>6 DEF Do
    <2>8. x = Counting(t0, messages'[t0])
        BY <1>3, <1>6, <2>6, <2>7
    <2>9. Level(tickets', messages', {t0})
        BY <1>1, <1>6, <2>5 DEF Level
    <2> QED
        BY <1>3, <2>8, <2>9 DEF Exact
<1>15. DatesKept' /\ CountsExact'
    <2>1. ASSUME overlaps = 0
          PROVE  /\ \A t \in Tickets : "resolved" \in history'[t] => t \in DatedTickets'
                 /\ Dating(x, DatedTickets')
        <3>1. Dates(Head(s)) = {}
            BY <1>2 DEF Dates, SetsDate
        <3>2. Dating(x, DatedTickets')
            BY <1>2, <1>8, <2>1, <3>1, TailDating
        <3> QED
            BY <1>1, <1>8, <2>1, <3>2 DEF DeskInv, DatesKept
    <2>2. (failures' = 0 => failures = 0) /\ calls[c] # Idle
        BY <1>1, <1>2
    <2>3. Exact(calls[c], tickets, messages) => Exact(x, tickets', messages')
        BY <1>14
    <2> HIDE DEF x
    <2> QED
        BY <1>4, <2>1, <2>2, <2>3, LoneMoves
<1>16. Queued'
    BY <1>1, QueuedSame DEF DeskInv
<1> QED
    BY <1>9, <1>13, <1>15, <1>16 DEF DeskInv

\* What is appended to a batch is in it once more.
LEMMA TimesAppended ==
    ASSUME NEW b \in Seq(Notices), NEW x \in Notices, NEW n \in Notices
    PROVE  /\ Append(b, x) \in Seq(Notices)
           /\ Times(n, b) \in Nat
           /\ Times(n, Append(b, x)) = Times(n, b) + (IF n = x THEN 1 ELSE 0)
<1> DEFINE S == {i \in DOMAIN b : b[i] = n}
           y == Append(b, x)
           T == {i \in DOMAIN y : y[i] = n}
           k == Len(b) + 1
<1>1. DOMAIN b = 1 .. Len(b) /\ Len(b) \in Nat
    OBVIOUS
<1>2. y \in Seq(Notices) /\ DOMAIN y = 1 .. k /\ y[k] = x /\ \A i \in 1 .. Len(b) : y[i] = b[i]
    OBVIOUS
<1>3. IsFiniteSet(S)
    <2>1. IsFiniteSet(1 .. Len(b))
        BY <1>1, FS_Interval
    <2>2. S \subseteq 1 .. Len(b)
        BY <1>1
    <2> QED
        BY <2>1, <2>2, FS_Subset
<1>4. k \notin S /\ \A i \in 1 .. k : i = k \/ i \in 1 .. Len(b)
    BY <1>1
<1>5. T = IF n = x THEN S \union {k} ELSE S
    <2> HIDE DEF y
    <2> QED
        BY <1>1, <1>2, <1>4
<1>6. Cardinality(S) \in Nat /\ Cardinality(S \union {k}) = Cardinality(S) + 1
    <2> HIDE DEF S, k
    <2> QED
        BY <1>3, <1>4, FS_CardinalityType, FS_AddElement
<1>7. Times(n, b) = Cardinality(S) /\ Times(n, y) = Cardinality(T)
    BY DEF Times
<1> HIDE DEF S, T, y
<1> QED
    BY <1>2, <1>5, <1>6, <1>7 DEF y

\* Nothing is in an empty batch.
LEMMA TimesNone ==
    ASSUME NEW n
    PROVE  Times(n, <<>>) = 0
<1>1. {i \in DOMAIN <<>> : <<>>[i] = n} = {}
    OBVIOUS
<1> QED
    BY <1>1, FS_EmptySet DEF Times

\* The desk itself is as it was, whatever the queue does.
LEMMA DeskStays ==
    ASSUME DeskInv, UNCHANGED <<desk, requests, asked>>, failures' = 0 => failures = 0,
           failures \in Nat
    PROVE  Present' /\ NeverTooMany' /\ Told' /\ DatesKept' /\ CountsExact'
<1>1. UNCHANGED <<tickets, messages, history, calls, overlaps, asked>>
    BY DEF desk, requests
<1>2. Known' = Known /\ DatedTickets' = DatedTickets
    BY <1>1, RowsSame
<1>3. Present'
    BY <1>1, <1>2 DEF DeskInv, Present
<1>4. NeverTooMany'
    BY <1>1, <1>2 DEF DeskInv, NeverTooMany
<1>5. Told'
    BY <1>1 DEF DeskInv, Told
<1>6. DatesKept'
    <2>1. Alone' <=> Alone
        BY <1>1 DEF Alone
    <2> QED
        BY <1>1, <1>2, <2>1 DEF DeskInv, DatesKept
<1>7. CountsExact'
    BY <1>1 DEF DeskInv, CountsExact, Undisturbed
<1> QED
    BY <1>3, <1>4, <1>5, <1>6, <1>7

\* A job that waits carries its own notice.
LEMMA WaitingJob ==
    ASSUME DeskInv, NEW n \in Notices, Log!Waiting(n)
    PROVE  noticeJob[n] \in NoticeJobs /\ noticeJob[n].data = n /\ noticeJob[n].st = "waiting"
    BY DEF DeskInv, DeskTyped, Queued, Log!Waiting

\* The worker takes a job: what the job carries is in the buffer, or in the
\* INSERT together with what was buffered.
LEMMA ProcessStep ==
    ASSUME DeskInv, NEW n \in Notices, processNotification(n)
    PROVE  DeskInv'
<1>1. UNCHANGED <<desk, requests, asked>> /\ Log!process(n)
    BY DEF processNotification
<1>2. UNCHANGED <<closing, table, failures>> /\ Log!Waiting(n)
    BY <1>1 DEF Log!process, Log!processFull, Log!processFullLocked, Log!processBuffered
<1>3. noticeJob[n] \in NoticeJobs /\ noticeJob[n].data = n /\ noticeJob[n].st = "waiting"
    BY <1>2, WaitingJob
<1>4. /\ buffer \in Seq(Notices) /\ flushing \in Flushes \union {NoFlush}
      /\ noticeJob \in [Notices -> NoticeJobs \union {NoJob}]
      /\ failures \in Nat /\ closing \in BOOLEAN
    BY DEF DeskInv, DeskTyped
<1>5. NoJob \notin NoticeJobs /\ NoFlush \notin Flushes
    BY NullsNotRows DEF NoticeJobs, Flushes
<1> DEFINE b == Append(buffer, n)
<1>6. b \in Seq(Notices)
    BY <1>4
<1>7. Present' /\ NeverTooMany' /\ Told' /\ DatesKept' /\ CountsExact'
    BY <1>1, <1>2, <1>4, DeskStays
<1>8. \A m \in Notices : /\ Times(m, buffer) \in Nat
                         /\ Times(m, b) = Times(m, buffer) + (IF m = n THEN 1 ELSE 0)
    BY <1>4, TimesAppended
<1>9. \A m \in Notices : flushing # NoFlush => Times(m, flushing.batch) \in Nat
    BY <1>4, TimesAppended DEF Flushes
<1> HIDE DEF b
<1>10. CASE Log!processFull(n)
    <2>1. /\ flushing = NoFlush /\ flushing' = [by |-> "job", batch |-> b] /\ buffer' = <<>>
          /\ noticeJob' = [noticeJob EXCEPT ![n] = Log!Job("active", noticeJob[n].tries, n)]
        BY <1>3, <1>10 DEF Log!processFull, Log!Begin, Log!Started, Log!Locked, b
    <2>2. flushing' \in Flushes
        BY <1>6, <2>1 DEF Flushes, Log!Triggers
    <2>3. Log!Job("active", noticeJob[n].tries, n) \in NoticeJobs
          /\ Log!Job("active", noticeJob[n].tries, n).st = "active"
          /\ Log!Job("active", noticeJob[n].tries, n).data = n
        BY <1>3 DEF NoticeJobs, Log!JobStates, Log!Job
    <2> DEFINE j == Log!Job("active", noticeJob[n].tries, n)
    <2> HIDE DEF j
    <2>4. \A m \in Notices : noticeJob'[m] = IF m = n THEN j ELSE noticeJob[m]
        BY <1>4, <2>1 DEF j
    <2>5. DeskTyped'
        <3>1. noticeJob' \in [Notices -> NoticeJobs \union {NoJob}]
            BY <1>4, <2>1, <2>3
        <3> QED
            BY <1>1, <1>2, <2>1, <2>2, <3>1 DEF DeskInv, DeskTyped, desk, requests
    <2>6. \A m \in Notices : Log!Waiting(m)' <=> (m # n /\ Log!Waiting(m))
        BY <1>5, <2>3, <2>4 DEF Log!Waiting, j
    <2>7. \A m \in Notices : OnItsWay(m)' = OnItsWay(m)
        <3> TAKE m \in Notices
        <3>1. flushing' # NoFlush /\ flushing'.batch = b
            BY <1>5, <2>1, <2>2
        <3>2. OnItsWay(m)' = (IF Log!Waiting(m)' THEN 1 ELSE 0) + Times(m, <<>>) + Times(m, b)
            BY <2>1, <3>1 DEF OnItsWay
        <3>3. OnItsWay(m) = (IF Log!Waiting(m) THEN 1 ELSE 0) + Times(m, buffer) + 0
            BY <2>1 DEF OnItsWay
        <3>4. Times(m, <<>>) = 0
            BY TimesNone
        <3> QED
            BY <1>2, <1>8, <2>6, <3>2, <3>3, <3>4
    <2>8. Queued'
        <3>1. \A m \in Notices : noticeJob'[m] # NoJob => noticeJob'[m].data = m
            BY <2>3, <2>4 DEF DeskInv, Queued, j
        <3> QED
            BY <1>1, <1>2, <2>7, <3>1 DEF DeskInv, Queued
    <2> QED
        BY <1>7, <2>5, <2>8 DEF DeskInv
<1>11. CASE Log!processFullLocked(n) \/ Log!processBuffered(n)
    <2>1. flushing' = flushing /\ buffer' = b /\ noticeJob' = Log!Completed({n})
        BY <1>3, <1>11 DEF Log!processFullLocked, Log!processBuffered, b
    <2>2. \A m \in Notices : noticeJob'[m] = IF m = n THEN NoJob ELSE noticeJob[m]
        BY <2>1 DEF Log!Completed
    <2>3. noticeJob' \in [Notices -> NoticeJobs \union {NoJob}]
        BY <1>4, <2>1 DEF Log!Completed
    <2>4. DeskTyped'
        BY <1>1, <1>2, <1>4, <1>6, <2>1, <2>3 DEF DeskInv, DeskTyped, desk, requests
    <2>5. \A m \in Notices : Log!Waiting(m)' <=> (m # n /\ Log!Waiting(m))
        BY <2>2 DEF Log!Waiting
    <2>6. \A m \in Notices : OnItsWay(m)' = OnItsWay(m)
        <3> TAKE m \in Notices
        <3> DEFINE f == IF flushing = NoFlush THEN 0 ELSE Times(m, flushing.batch)
        <3>1. OnItsWay(m)' = (IF Log!Waiting(m)' THEN 1 ELSE 0) + Times(m, b) + f
            BY <2>1 DEF OnItsWay
        <3>2. OnItsWay(m) = (IF Log!Waiting(m) THEN 1 ELSE 0) + Times(m, buffer) + f
            BY DEF OnItsWay
        <3>3. f \in Nat
            BY <1>9
        <3> HIDE DEF f
        <3> QED
            BY <1>2, <1>8, <2>5, <3>1, <3>2, <3>3
    <2>7. Queued'
        <3>1. \A m \in Notices : noticeJob'[m] # NoJob => noticeJob'[m].data = m
            BY <2>2 DEF DeskInv, Queued
        <3> QED
            BY <1>1, <1>2, <2>6, <3>1 DEF DeskInv, Queued
    <2> QED
        BY <1>7, <2>4, <2>7 DEF DeskInv
<1> QED
    BY <1>1, <1>10, <1>11 DEF Log!process

\* How often a notice is in a batch is a number.
LEMMA TimesType ==
    ASSUME NEW b \in Seq(Notices), NEW n \in Notices
    PROVE  Times(n, b) \in Nat
    BY TimesAppended

\* The table with one more batch.
LEMMA Inserted ==
    ASSUME NEW rows \in [Notices -> Nat], NEW b \in Seq(Notices)
    PROVE  /\ Insert(rows, b) \in [Notices -> Nat]
           /\ \A n \in Notices : Insert(rows, b)[n] = rows[n] + Times(n, b)
<1>1. \A n \in Notices : Times(n, b) \in Nat
    BY TimesType
<1>2. Insert(rows, b) = [n \in Notices |-> rows[n] + Times(n, b)]
    BY DEF Insert, Times
<1> QED
    BY <1>1, <1>2

\* What is buffered goes into the INSERT.
LEMMA FlushBegins ==
    ASSUME DeskInv, NEW w \in Log!Triggers, Log!Begin(w, buffer), flushing = NoFlush,
           UNCHANGED <<noticeJob, asked, table>>
    PROVE  /\ buffer' \in Seq(Notices) /\ flushing' \in Flushes
           /\ \A n \in Notices : OnItsWay(n)' = OnItsWay(n)
<1>1. /\ buffer \in Seq(Notices) /\ buffer' = <<>>
      /\ flushing' = [by |-> w, batch |-> buffer]
    BY DEF DeskInv, DeskTyped, Log!Begin
<1>2. buffer' \in Seq(Notices) /\ flushing' \in Flushes /\ flushing'.batch = buffer
    BY <1>1 DEF Flushes
<1>3. flushing' # NoFlush
    BY <1>2, NullsNotRows DEF Flushes
<1>4. ASSUME NEW n \in Notices PROVE OnItsWay(n)' = OnItsWay(n)
    <2>1. Log!Waiting(n)' <=> Log!Waiting(n)
        BY DEF Log!Waiting
    <2>2. OnItsWay(n)' = (IF Log!Waiting(n)' THEN 1 ELSE 0) + Times(n, <<>>) + Times(n, buffer)
        BY <1>1, <1>2, <1>3 DEF OnItsWay
    <2>3. OnItsWay(n) = (IF Log!Waiting(n) THEN 1 ELSE 0) + Times(n, buffer) + 0
        BY DEF OnItsWay
    <2>4. Times(n, <<>>) = 0 /\ Times(n, buffer) \in Nat
        BY <1>1, TimesNone, TimesType
    <2> QED
        BY <2>1, <2>2, <2>3, <2>4
<1> QED
    BY <1>2, <1>4

\* The active jobs are completed, or tried again or given up.
LEMMA JobsDone ==
    ASSUME DeskInv
    PROVE  LET done == Log!Completed(Log!Active)
               again == Log!Retried(Log!Active)
           IN  /\ done \in [Notices -> NoticeJobs \union {NoJob}]
               /\ again \in [Notices -> NoticeJobs \union {NoJob}]
               /\ \A n \in Notices :
                     /\ done[n] # NoJob => done[n].data = n
                     /\ again[n] # NoJob => again[n].data = n
                     /\ Log!Waiting(n) <=> done[n] # NoJob /\ done[n].st = "waiting"
<1> DEFINE done == Log!Completed(Log!Active)
           again == Log!Retried(Log!Active)
<1>1. noticeJob \in [Notices -> NoticeJobs \union {NoJob}] /\ NoJob \notin NoticeJobs
    BY NullsNotRows DEF DeskInv, DeskTyped, NoticeJobs
<1>2. \A n \in Notices : noticeJob[n] # NoJob => noticeJob[n].data = n
    BY DEF DeskInv, Queued
<1>3. \A n \in Log!Active : n \in Notices /\ noticeJob[n] \in NoticeJobs /\ noticeJob[n].st = "active"
    BY <1>1 DEF Log!Active
<1>4. \A n \in Notices : done[n] = IF n \in Log!Active THEN NoJob ELSE noticeJob[n]
    BY DEF Log!Completed
<1>5. done \in [Notices -> NoticeJobs \union {NoJob}]
    BY <1>1 DEF Log!Completed
<1>6. ASSUME NEW n \in Notices
      PROVE  again[n] \in NoticeJobs \union {NoJob} /\ (again[n] # NoJob => again[n].data = n)
    <2>1. CASE n \in Log!Active
        <3>1. PICK st \in {"waiting", "failed"} :
                  again[n] = Log!Job(st, noticeJob[n].tries + 1, noticeJob[n].data)
            BY <2>1 DEF Log!Retried
        <3>2. noticeJob[n].tries + 1 \in Nat /\ noticeJob[n].data = n
            BY <1>1, <1>2, <1>3, <2>1 DEF NoticeJobs
        <3> QED
            BY <3>1, <3>2 DEF NoticeJobs, Log!Job, Log!JobStates
    <2>2. CASE n \notin Log!Active
        BY <1>1, <1>2, <2>2 DEF Log!Retried
    <2> QED
        BY <2>1, <2>2
<1>7. again \in [Notices -> NoticeJobs \union {NoJob}]
    <2>1. DOMAIN again = Notices /\ again = [n \in Notices |-> again[n]]
        BY DEF Log!Retried
    <2> HIDE DEF again
    <2> QED
        BY <1>6, <2>1
<1>8. ASSUME NEW n \in Notices
      PROVE  Log!Waiting(n) <=> done[n] # NoJob /\ done[n].st = "waiting"
    BY <1>3, <1>4 DEF Log!Waiting
<1> HIDE DEF done, again
<1>9. \A n \in Notices : done[n] # NoJob => done[n].data = n
    BY <1>2, <1>4
<1> QED
    BY <1>5, <1>6, <1>7, <1>8, <1>9 DEF done, again

LEMMA FlushStep ==
    ASSUME DeskInv, flush
    PROVE  DeskInv'
<1>1. UNCHANGED <<desk, requests, asked>> /\ (Log!timerFires \/ Log!flushDone \/ Log!flushFails)
    BY DEF flush
<1>2. /\ buffer \in Seq(Notices) /\ flushing \in Flushes \union {NoFlush}
      /\ table \in [Notices -> Nat]
      /\ failures \in Nat /\ closing \in BOOLEAN
    BY DEF DeskInv, DeskTyped
<1>3. CASE Log!timerFires
    <2>1. Log!Begin("timer", buffer) /\ flushing = NoFlush /\ UNCHANGED <<noticeJob, closing, table, failures>>
        BY <1>3 DEF Log!timerFires, Log!Locked
    <2>2. "timer" \in Log!Triggers
        BY DEF Log!Triggers
    <2>3. /\ buffer' \in Seq(Notices) /\ flushing' \in Flushes
          /\ \A n \in Notices : OnItsWay(n)' = OnItsWay(n)
        BY <1>1, <2>1, <2>2, FlushBegins
    <2>4. DeskTyped'
        BY <1>1, <2>1, <2>3 DEF DeskInv, DeskTyped, desk, requests
    <2>5. Queued'
        BY <1>1, <2>1, <2>3 DEF DeskInv, Queued
    <2>6. Present' /\ NeverTooMany' /\ Told' /\ DatesKept' /\ CountsExact'
        BY <1>1, <1>2, <2>1, DeskStays
    <2> QED
        BY <2>4, <2>5, <2>6 DEF DeskInv
<1>4. CASE Log!flushDone
    <2>1. /\ flushing # NoFlush /\ table' = Insert(table, flushing.batch) /\ flushing' = NoFlush
          /\ noticeJob' = Log!Completed(Log!Active) /\ UNCHANGED <<buffer, closing, failures>>
        BY <1>4 DEF Log!flushDone, Log!Locked
    <2>2. flushing.batch \in Seq(Notices)
        BY <1>2, <2>1 DEF Flushes
    <2>3. /\ table' \in [Notices -> Nat]
          /\ \A n \in Notices : table'[n] = table[n] + Times(n, flushing.batch)
        BY <1>2, <2>1, <2>2, Inserted
    <2>4. /\ noticeJob' \in [Notices -> NoticeJobs \union {NoJob}]
          /\ \A n \in Notices : /\ noticeJob'[n] # NoJob => noticeJob'[n].data = n
                                /\ Log!Waiting(n) <=> noticeJob'[n] # NoJob /\ noticeJob'[n].st = "waiting"
        BY <2>1, JobsDone
    <2>5. DeskTyped'
        BY <1>1, <1>2, <2>1, <2>3, <2>4 DEF DeskInv, DeskTyped, desk, requests
    <2>6. ASSUME NEW n \in Notices PROVE table'[n] + OnItsWay(n)' = table[n] + OnItsWay(n)
        <3>1. Log!Waiting(n)' <=> Log!Waiting(n)
            BY <2>4 DEF Log!Waiting
        <3>2. OnItsWay(n)' = (IF Log!Waiting(n)' THEN 1 ELSE 0) + Times(n, buffer) + 0
            BY <2>1 DEF OnItsWay
        <3>3. OnItsWay(n) = (IF Log!Waiting(n) THEN 1 ELSE 0) + Times(n, buffer) + Times(n, flushing.batch)
            BY <2>1 DEF OnItsWay
        <3>4. Times(n, buffer) \in Nat /\ Times(n, flushing.batch) \in Nat /\ table[n] \in Nat
            BY <1>2, <2>2, TimesType
        <3> QED
            BY <2>3, <3>1, <3>2, <3>3, <3>4
    <2>7. Queued'
        BY <1>1, <2>1, <2>4, <2>6 DEF DeskInv, Queued
    <2>8. Present' /\ NeverTooMany' /\ Told' /\ DatesKept' /\ CountsExact'
        BY <1>1, <1>2, <2>1, DeskStays
    <2> QED
        BY <2>5, <2>7, <2>8 DEF DeskInv
<1>5. CASE Log!flushFails
    <2>1. /\ flushing' = NoFlush /\ failures' = failures + 1
          /\ noticeJob' = Log!Retried(Log!Active) /\ UNCHANGED <<buffer, closing, table>>
        BY <1>5 DEF Log!flushFails
    <2>2. /\ noticeJob' \in [Notices -> NoticeJobs \union {NoJob}]
          /\ \A n \in Notices : noticeJob'[n] # NoJob => noticeJob'[n].data = n
        BY <2>1, JobsDone
    <2>3. failures' \in Nat /\ failures' # 0
        BY <1>2, <2>1
    <2>4. DeskTyped'
        BY <1>1, <1>2, <2>1, <2>2, <2>3 DEF DeskInv, DeskTyped, desk, requests
    <2>5. Queued'
        BY <2>2, <2>3 DEF Queued
    <2>6. Present' /\ NeverTooMany' /\ Told' /\ DatesKept' /\ CountsExact'
        BY <1>1, <1>2, <2>3, DeskStays
    <2> QED
        BY <2>4, <2>5, <2>6 DEF DeskInv
<1> QED
    BY <1>1, <1>3, <1>4, <1>5

LEMMA ShutdownStep ==
    ASSUME DeskInv, shutdown
    PROVE  DeskInv'
<1>1. /\ UNCHANGED <<desk, requests, asked, noticeJob, table>>
      /\ closing' = TRUE /\ failures' = failures + 1
      /\ \/ flushing = NoFlush /\ Log!Begin("shutdown", buffer)
         \/ UNCHANGED <<buffer, flushing>>
    BY DEF shutdown, Log!onModuleDestroy, Log!Locked
<1>2. buffer \in Seq(Notices) /\ flushing \in Flushes \union {NoFlush} /\ failures \in Nat
    BY DEF DeskInv, DeskTyped
<1>3. failures' \in Nat /\ failures' # 0
    BY <1>1, <1>2
<1>4. buffer' \in Seq(Notices) /\ flushing' \in Flushes \union {NoFlush}
    <2>1. "shutdown" \in Log!Triggers
        BY DEF Log!Triggers
    <2>2. CASE flushing = NoFlush /\ Log!Begin("shutdown", buffer)
        BY <1>1, <2>1, <2>2, FlushBegins
    <2> QED
        BY <1>1, <1>2, <2>2
<1>5. DeskTyped'
    BY <1>1, <1>3, <1>4 DEF DeskInv, DeskTyped, desk, requests
<1>6. Queued'
    BY <1>1, <1>3 DEF DeskInv, Queued
<1>7. Present' /\ NeverTooMany' /\ Told' /\ DatesKept' /\ CountsExact'
    BY <1>1, <1>2, <1>3, DeskStays
<1> QED
    BY <1>5, <1>6, <1>7 DEF DeskInv

\* The process ends: requests are cut off where they are, and the memory of
\* the worker is gone.
LEMMA EndsStep ==
    ASSUME DeskInv, ends
    PROVE  DeskInv'
<1>1. /\ UNCHANGED <<tickets, load, messages, history, overlaps, asked>>
      /\ calls' = [c \in Slots |-> Idle] /\ Log!Restart
    BY DEF ends, Log!exit, Log!crash, desk
<1>2. /\ failures \in Nat /\ flushing \in Flushes \union {NoFlush} /\ table \in [Notices -> Nat]
      /\ noticeJob \in [Notices -> NoticeJobs \union {NoJob}]
    BY DEF DeskInv, DeskTyped
<1>3. failures' \in Nat /\ failures' # 0
    <2>1. CASE Log!exit
        BY <1>2, <2>1 DEF Log!exit, DeskInv, Queued
    <2>2. CASE Log!crash
        BY <1>2, <2>2 DEF Log!crash
    <2> QED
        BY <2>1, <2>2 DEF ends
<1>4. buffer' = <<>> /\ flushing' = NoFlush /\ closing' = FALSE
    BY <1>1 DEF Log!Restart
<1>5. table' \in [Notices -> Nat]
    <2>1. CASE UNCHANGED table
        BY <1>2, <2>1
    <2>2. CASE flushing # NoFlush /\ table' = Insert(table, flushing.batch)
        <3>1. flushing.batch \in Seq(Notices)
            BY <1>2, <2>2 DEF Flushes
        <3> QED
            BY <1>2, <2>2, <3>1, Inserted
    <2> QED
        BY <1>1, <2>1, <2>2 DEF Log!Restart, Log!Locked
<1> DEFINE again(j) == IF noticeJob[j] # NoJob /\ noticeJob[j].st = "active"
                       THEN Log!Job("waiting", noticeJob[j].tries, noticeJob[j].data)
                       ELSE noticeJob[j]
<1>6. noticeJob' = [j \in Notices |-> again(j)]
    BY <1>1 DEF Log!Restart
<1>7. ASSUME NEW n \in Notices
      PROVE  again(n) \in NoticeJobs \union {NoJob} /\ (again(n) # NoJob => again(n).data = n)
    <2>1. noticeJob[n] # NoJob => noticeJob[n].data = n /\ noticeJob[n] \in NoticeJobs
        BY <1>2 DEF DeskInv, Queued
    <2>2. CASE noticeJob[n] # NoJob /\ noticeJob[n].st = "active"
        <3>1. again(n) = Log!Job("waiting", noticeJob[n].tries, noticeJob[n].data)
            BY <2>2
        <3> HIDE DEF again
        <3>2. again(n) \in NoticeJobs /\ again(n).data = n
            BY <2>1, <2>2, <3>1 DEF NoticeJobs, Log!Job, Log!JobStates
        <3> QED
            BY <3>2
    <2>3. CASE ~(noticeJob[n] # NoJob /\ noticeJob[n].st = "active")
        BY <1>2, <2>1, <2>3
    <2> QED
        BY <2>2, <2>3
<1> HIDE DEF again
<1>8. /\ noticeJob' \in [Notices -> NoticeJobs \union {NoJob}]
      /\ \A n \in Notices : noticeJob'[n] # NoJob => noticeJob'[n].data = n
    BY <1>6, <1>7
<1>9. DeskTyped'
    <2>1. calls' \in [Slots -> Seq(Statements)]
        BY <1>1, IdleFits
    <2>2. buffer' \in Seq(Notices)
        BY <1>4
    <2> QED
        BY <1>1, <1>3, <1>4, <1>5, <1>8, <2>1, <2>2 DEF DeskInv, DeskTyped
<1>10. Known' = Known /\ DatedTickets' = DatedTickets
    BY <1>1, RowsSame
<1>11. \A c \in Slots : calls'[c] = Idle
    BY <1>1
<1>12. Present' /\ NeverTooMany' /\ Told'
    BY <1>1, <1>10, <1>11, IdleFits DEF DeskInv, Present, NeverTooMany, Told
<1>13. DatesKept'
    BY <1>1, <1>10, <1>11, IdleFits DEF DeskInv, DatesKept, Alone
<1>14. CountsExact' /\ Queued'
    BY <1>3, <1>8 DEF CountsExact, Undisturbed, Queued
<1> QED
    BY <1>9, <1>12, <1>13, <1>14 DEF DeskInv

\* Notices are handed to the queue, or Redis fails and they are not.
LEMMA EnqueueStep ==
    ASSUME DeskInv, NEW c \in Slots, enqueueBulk(c)
    PROVE  DeskInv'
<1> DEFINE s == calls[c]
           ns == Arg(c)
<1>1. /\ Sends(c, "enqueue") /\ Answered(c)
      /\ UNCHANGED <<tickets, load, messages, history, buffer, flushing, closing, table>>
    BY DEF enqueueBulk, desk
<1>2. /\ s \in Seq(Statements) /\ s # <<>> /\ s # Idle /\ 1 \in DOMAIN s /\ Head(s) = s[1]
      /\ Head(s) \in Statements /\ Head(s).what = "enqueue" /\ ns = Head(s).arg
      /\ Noted(s, history)
    BY <1>1, NextStatement
<1>3. ns \in SUBSET Notices
    BY <1>2, StatementArgs
<1>4. /\ failures \in Nat /\ buffer \in Seq(Notices) /\ flushing \in Flushes \union {NoFlush}
      /\ asked \in [Notices -> Nat] /\ table \in [Notices -> Nat]
      /\ noticeJob \in [Notices -> NoticeJobs \union {NoJob}]
    BY DEF DeskInv, DeskTyped
<1>5. Known' = Known /\ DatedTickets' = DatedTickets
    BY <1>1, RowsSame
<1>6. \A n \in ns : n.kind \in history[n.ticket]
    <2>1. s[1].what = "enqueue" /\ s[1].arg = ns
        BY <1>2
    <2>2. 1 .. 1 - 1 = {}
        OBVIOUS
    <2> HIDE DEF ns, s
    <2> QED
        BY <1>2, <2>1, <2>2 DEF Noted
<1> HIDE DEF ns
<1>7. ASSUME DeskTyped', failures' = 0 => failures = 0,
             \A n \in Notices : asked'[n] > 0 => asked[n] > 0 \/ n \in ns
      PROVE  Present' /\ NeverTooMany' /\ Told' /\ DatesKept' /\ CountsExact'
    <2>1. Dates(Head(calls[c])) = {}
        BY <1>2 DEF Dates, SetsDate
    <2>2. Exact(calls[c], tickets, messages) => Exact(Tail(calls[c]), tickets', messages)
        BY <1>1, <1>2, QuietTail DEF SetsCount
    <2>3. /\ \A t \in Known' : tickets'[t].count <= messages[t]
          /\ \A t \in Tickets : history[t] \subseteq history'[t]
          /\ \A n \in Notices : asked'[n] > 0 => n.kind \in history'[n.ticket]
        BY <1>1, <1>5, <1>6, <1>7 DEF DeskInv, NeverTooMany, Told
    <2>4. overlaps = 0 =>
               /\ DatedTickets \subseteq DatedTickets' /\ Dates(Head(calls[c])) \subseteq DatedTickets'
               /\ \A t \in Tickets : "resolved" \in history'[t] => t \in DatedTickets'
        BY <1>1, <1>5, <2>1 DEF DeskInv, DatesKept
    <2>5. Known \subseteq Known'
        BY <1>5
    <2> QED
        BY <1>1, <1>7, <2>2, <2>3, <2>4, <2>5, TailMoves
<1>8. ASSUME /\ \A n \in ns : noticeJob[n] = NoJob
             /\ noticeJob' = [n \in Notices |-> IF n \in ns THEN Log!Job("waiting", 0, n) ELSE noticeJob[n]]
             /\ asked' = [n \in Notices |-> IF n \in ns THEN asked[n] + 1 ELSE asked[n]]
             /\ UNCHANGED failures
      PROVE  DeskInv'
    <2>1. \A n \in Notices : /\ Log!Job("waiting", 0, n) \in NoticeJobs
                             /\ Log!Job("waiting", 0, n).st = "waiting"
                             /\ Log!Job("waiting", 0, n).data = n
        BY DEF NoticeJobs, Log!Job, Log!JobStates
    <2>2. NoJob \notin NoticeJobs
        BY NullsNotRows DEF NoticeJobs
    <2>3. noticeJob' \in [Notices -> NoticeJobs \union {NoJob}]
        BY <1>4, <1>8, <2>1
    <2>4. asked' \in [Notices -> Nat]
        BY <1>4, <1>8
    <2>5. DeskTyped'
        BY <1>1, <1>8, <2>3, <2>4, TailTyped DEF DeskInv, DeskTyped
    <2>6. \A n \in Notices : asked'[n] > 0 => asked[n] > 0 \/ n \in ns
        BY <1>8
    <2>7. Present' /\ NeverTooMany' /\ Told' /\ DatesKept' /\ CountsExact'
        BY <1>7, <1>8, <2>5, <2>6
    <2>8. \A n \in Notices : noticeJob'[n] # NoJob => noticeJob'[n].data = n
        BY <1>8, <2>1 DEF DeskInv, Queued
    <2>9. ASSUME failures = 0, NEW n \in Notices PROVE asked'[n] = table'[n] + OnItsWay(n)'
        <3> DEFINE rest == Times(n, buffer) + (IF flushing = NoFlush THEN 0 ELSE Times(n, flushing.batch))
        <3>1. rest \in Nat
            <4>1. Times(n, buffer) \in Nat
                BY <1>4, TimesType
            <4>2. flushing # NoFlush => Times(n, flushing.batch) \in Nat
                BY <1>4, TimesType DEF Flushes
            <4> QED
                BY <4>1, <4>2
        <3>2. OnItsWay(n) = (IF Log!Waiting(n) THEN 1 ELSE 0) + rest
              /\ OnItsWay(n)' = (IF Log!Waiting(n)' THEN 1 ELSE 0) + rest
            <4>1. Times(n, buffer) \in Nat
                BY <1>4, TimesType
            <4>2. flushing # NoFlush => Times(n, flushing.batch) \in Nat
                BY <1>4, TimesType DEF Flushes
            <4> QED
                BY <1>1, <4>1, <4>2 DEF OnItsWay
        <3> HIDE DEF rest
        <3>3. asked[n] = table[n] + OnItsWay(n) /\ asked[n] \in Nat /\ table[n] \in Nat
            BY <1>4, <2>9 DEF DeskInv, Queued
        <3>4. table'[n] = table[n]
            BY <1>1
        <3>5. CASE n \in ns
            <4>1. ~Log!Waiting(n) /\ Log!Waiting(n)' /\ asked'[n] = asked[n] + 1
                BY <1>8, <2>1, <2>2, <3>5 DEF Log!Waiting
            <4> QED
                BY <3>1, <3>2, <3>3, <3>4, <4>1
        <3>6. CASE n \notin ns
            <4>1. (Log!Waiting(n)' <=> Log!Waiting(n)) /\ asked'[n] = asked[n]
                BY <1>8, <3>6 DEF Log!Waiting
            <4> QED
                BY <3>1, <3>2, <3>3, <3>4, <4>1
        <3> QED
            BY <3>5, <3>6
    <2>10. Queued'
        BY <1>1, <1>8, <2>8, <2>9 DEF DeskInv, Queued
    <2> QED
        BY <2>5, <2>7, <2>10 DEF DeskInv
<1>9. ASSUME failures' = failures + 1, UNCHANGED <<noticeJob, asked>>
      PROVE  DeskInv'
    <2>1. failures' \in Nat /\ failures' # 0
        BY <1>4, <1>9
    <2>2. DeskTyped'
        BY <1>1, <1>9, <2>1, TailTyped DEF DeskInv, DeskTyped
    <2>3. Present' /\ NeverTooMany' /\ Told' /\ DatesKept' /\ CountsExact'
        BY <1>7, <1>9, <2>1, <2>2
    <2>4. Queued'
        BY <1>9, <2>1 DEF DeskInv, Queued
    <2> QED
        BY <2>2, <2>3, <2>4 DEF DeskInv
<1> QED
    BY <1>8, <1>9 DEF enqueueBulk, ns

\* A request begins: what it sends fits.
LEMMA BeginStep ==
    ASSUME DeskInv, NEW c \in Slots, Request(c)
    PROVE  DeskInv'
<1>1. PICK s : Begin(c, s) /\ Fits(s)
    BY RequestFits DEF DeskInv
<1>2. /\ UNCHANGED <<tickets, load, messages, history, asked, log, failures>>
      /\ calls[c] = Idle /\ calls' = [calls EXCEPT ![c] = s]
      /\ \/ (\A d \in Slots : calls[d] = Idle) /\ UNCHANGED overlaps
         \/ (\E d \in Slots : calls[d] # Idle) /\ overlaps' = overlaps + 1
    BY <1>1 DEF Begin, desk
<1>3. /\ s \in Seq(Statements)
      /\ Finding(s, Known) /\ Covered(s, messages) /\ Noted(s, history)
      /\ Dating(s, DatedTickets)
      /\ Level(tickets, messages, {}) => Exact(s, tickets, messages)
    BY <1>1 DEF Fits
<1>4. \A d \in Slots : calls'[d] = IF d = c THEN s ELSE calls[d]
    BY <1>2 DEF DeskInv, DeskTyped
<1>5. overlaps \in Nat /\ overlaps' \in Nat
    BY <1>2 DEF DeskInv, DeskTyped
<1>6. DeskTyped'
    BY <1>2, <1>3, <1>5 DEF DeskInv, DeskTyped, log
<1>7. Known' = Known /\ DatedTickets' = DatedTickets
    BY <1>2, RowsSame
<1>8. Present' /\ NeverTooMany' /\ Told'
    BY <1>2, <1>3, <1>4, <1>7 DEF DeskInv, Present, NeverTooMany, Told
<1>9. ASSUME overlaps' = 0
      PROVE  overlaps = 0 /\ \A d \in Slots : calls[d] = Idle /\ calls'[d] = IF d = c THEN s ELSE Idle
    <2>1. overlaps' # overlaps + 1
        BY <1>5, <1>9
    <2> QED
        BY <1>2, <1>4, <1>9, <2>1
<1>10. DatesKept'
    <2>1. ASSUME overlaps' = 0, NEW d \in Slots PROVE Dating(calls'[d], DatedTickets')
        BY <1>3, <1>7, <1>9, <2>1, IdleFits
    <2>2. overlaps' = 0 => Alone'
        BY <1>9 DEF Alone
    <2> QED
        BY <1>2, <1>7, <1>9, <2>1, <2>2 DEF DeskInv, DatesKept
<1>11. CountsExact'
    <2>1. SUFFICES ASSUME Undisturbed'
                   PROVE  /\ (\A d \in Slots : calls'[d] = Idle) => Level(tickets', messages', {})
                          /\ \A d \in Slots : calls'[d] # Idle => Exact(calls'[d], tickets', messages')
        BY DEF CountsExact
    <2>2. Undisturbed /\ overlaps' = 0
        BY <1>2, <1>9, <2>1 DEF Undisturbed
    <2>3. Level(tickets, messages, {})
        BY <1>9, <2>2 DEF DeskInv, CountsExact
    <2> QED
        BY <1>2, <1>3, <1>9, <2>2, <2>3
<1>12. Queued'
    BY <1>2, QueuedSame DEF DeskInv
<1> QED
    BY <1>6, <1>8, <1>10, <1>11, <1>12 DEF DeskInv

\* Nothing happens at the desk.
LEMMA DeskStutter ==
    ASSUME DeskInv, UNCHANGED deskVars
    PROVE  DeskInv'
<1>1. UNCHANGED <<desk, requests, asked, log, failures>>
    BY DEF deskVars
<1>2. DeskTyped'
    BY <1>1 DEF DeskInv, DeskTyped, desk, requests, log
<1>3. Queued'
    BY <1>1, QueuedSame DEF DeskInv
<1>4. failures \in Nat
    BY DEF DeskInv, DeskTyped
<1>5. Present' /\ NeverTooMany' /\ Told' /\ DatesKept' /\ CountsExact'
    BY <1>1, <1>4, DeskStays
<1> QED
    BY <1>2, <1>3, <1>5 DEF DeskInv

\* The state in which the desk opens.
LEMMA DeskOpens ==
    ASSUME DeskInit
    PROVE  DeskInv
<1>1. /\ tickets = [t \in Tickets |-> Missing] /\ load = [a \in Agents |-> 0]
      /\ messages = [t \in Tickets |-> 0] /\ history = [t \in Tickets |-> {}]
      /\ calls = [c \in Slots |-> Idle] /\ overlaps = 0
      /\ asked = [n \in Notices |-> 0] /\ table = [n \in Notices |-> 0]
      /\ noticeJob = [n \in Notices |-> NoJob]
      /\ buffer = <<>> /\ flushing = NoFlush /\ closing = FALSE /\ failures = 0
    BY DEF DeskInit, Log!LogInit
<1>2. \A c \in Slots : calls[c] = Idle
    BY <1>1
<1>3. Known = {} /\ DatedTickets = {}
    BY <1>1 DEF Known, DatedTickets, Exists
<1>4. DeskTyped
    <2>1. calls \in [Slots -> Seq(Statements)]
        BY <1>1, IdleFits
    <2>2. buffer \in Seq(Notices)
        BY <1>1
    <2>3. /\ messages \in [Tickets -> Nat] /\ asked \in [Notices -> Nat]
          /\ table \in [Notices -> Nat] /\ load \in [Agents -> Int]
        BY <1>1
    <2>4. /\ tickets \in [Tickets -> Rows \union {Missing}]
          /\ history \in [Tickets -> SUBSET Actions]
          /\ noticeJob \in [Notices -> NoticeJobs \union {NoJob}]
        BY <1>1
    <2>5. overlaps \in Nat /\ failures \in Nat /\ closing \in BOOLEAN
          /\ flushing \in Flushes \union {NoFlush}
        BY <1>1
    <2> QED
        BY <2>1, <2>2, <2>3, <2>4, <2>5 DEF DeskTyped
<1>5. Present /\ NeverTooMany
    BY <1>1, <1>2, <1>3, IdleFits DEF Present, NeverTooMany
<1>6. Told
    BY <1>1, <1>2, IdleFits DEF Told
<1>7. DatesKept
    BY <1>1, <1>2, <1>3, IdleFits DEF DatesKept, Alone
<1>8. CountsExact
    BY <1>1, <1>2 DEF CountsExact, Level
<1>9. Queued
    <2>1. \A n \in Notices : OnItsWay(n) = 0
        <3>1. \A n \in Notices : ~Log!Waiting(n)
            BY <1>1 DEF Log!Waiting
        <3> QED
            BY <1>1, <3>1, TimesNone DEF OnItsWay
    <2> QED
        BY <1>1, <2>1 DEF Queued
<1> QED
    BY <1>4, <1>5, <1>6, <1>7, <1>8, <1>9 DEF DeskInv

\* Whatever a request sends next.
LEMMA StatementStep ==
    ASSUME DeskInv, NEW c \in Slots, Statement(c)
    PROVE  DeskInv'
<1>1. CASE readAgent(c)
    BY <1>1, ReadAgentStep
<1>2. CASE saveAgent(c)
    BY <1>2, SaveAgentStep
<1>3. CASE insertTicket(c)
    BY <1>3, InsertTicketStep
<1>4. CASE updateRow(c)
    BY <1>4, UpdateRowStep
<1>5. CASE saveTickets(c)
    BY <1>5, SaveTicketsStep
<1>6. CASE saveMessage(c)
    BY <1>6, SaveMessageStep
<1>7. CASE saveHistory(c)
    BY <1>7, SaveHistoryStep
<1>8. CASE enqueueBulk(c)
    BY <1>8, EnqueueStep
<1> QED
    BY <1>1, <1>2, <1>3, <1>4, <1>5, <1>6, <1>7, <1>8 DEF Statement

\* Every step of the requests, the worker and the process keeps the invariant
\* of the desk.
THEOREM DeskInvariant == DeskSpec => []DeskInv
<1>1. DeskInit => DeskInv
    BY DeskOpens
<1>2. DeskInv /\ [DeskNext]_deskVars => DeskInv'
    <2> SUFFICES ASSUME DeskInv, [DeskNext]_deskVars PROVE DeskInv'
        OBVIOUS
    <2>1. ASSUME NEW c \in Slots, Request(c) \/ Statement(c) PROVE DeskInv'
        BY <2>1, BeginStep, StatementStep
    <2>2. ASSUME NEW n \in Notices, processNotification(n) PROVE DeskInv'
        BY <2>2, ProcessStep
    <2>3. CASE flush
        BY <2>3, FlushStep
    <2>4. CASE shutdown
        BY <2>4, ShutdownStep
    <2>5. CASE ends
        BY <2>5, EndsStep
    <2>6. CASE UNCHANGED deskVars
        BY <2>6, DeskStutter
    <2> QED
        BY <2>1, <2>2, <2>3, <2>4, <2>5, <2>6 DEF DeskNext
<1> QED
    BY <1>1, <1>2, PTL DEF DeskSpec

\* A ticket never counts messages that it does not have, whatever requests
\* overlap, save rows they read before, or die; and it counts them all while
\* requests come one at a time and nothing fails (sendMessage, bulkUpdate).
THEOREM MessagesAlwaysCounted == DeskSpec => []MessagesCounted
<1>1. DeskInv => MessagesCounted
    <2> SUFFICES ASSUME DeskInv, NEW t \in Tickets, Exists(t)
                 PROVE  /\ tickets[t].count <= messages[t]
                        /\ Undisturbed /\ Quiet => tickets[t].count = messages[t]
        BY DEF MessagesCounted
    <2>1. t \in Known
        BY DEF Known
    <2>2. tickets[t].count <= messages[t]
        BY <2>1 DEF DeskInv, NeverTooMany
    <2>3. ASSUME Undisturbed, Quiet PROVE tickets[t].count = messages[t]
        <3>1. Level(tickets, messages, {})
            BY <2>3 DEF DeskInv, CountsExact, Quiet
        <3> QED
            BY <3>1 DEF Level, Exists
    <2> QED
        BY <2>2, <2>3
<1> QED
    BY <1>1, DeskInvariant, PTL

\* While requests come one after the other, some of which die half-way, a
\* ticket whose history says that it was resolved has the date of that
\* (updateTicket, bulkUpdate).
THEOREM ResolvedAlwaysDated == DeskSpec => []ResolvedIsDated
<1>1. DeskInv => ResolvedIsDated
    BY DEF DeskInv, DatesKept, ResolvedIsDated, DatedTickets
<1> QED
    BY <1>1, DeskInvariant, PTL

\* A notice that was queued is about what the history of its ticket tells; and
\* without a fault each is waiting, buffered, in the INSERT, or stored, exactly
\* as often as it was asked for (NotificationService, NotificationProcessor).
THEOREM NoticesAlwaysAccounted == DeskSpec => []NoticesAccounted
<1>1. ASSUME DeskInv PROVE NoticesAccounted
    <2> SUFFICES ASSUME NEW n \in Notices
                 PROVE  /\ asked[n] > 0 => n.kind \in history[n.ticket]
                        /\ failures = 0 =>
                              asked[n] = table[n]
                                  + (IF noticeJob[n] # NoJob /\ noticeJob[n].st = "waiting" THEN 1 ELSE 0)
                                  + Times(n, buffer)
                                  + (IF flushing = NoFlush THEN 0 ELSE Times(n, flushing.batch))
        BY DEF NoticesAccounted, Times
    <2>1. asked[n] > 0 => n.kind \in history[n.ticket]
        BY <1>1 DEF DeskInv, Told
    <2>2. /\ table[n] \in Nat /\ Times(n, buffer) \in Nat
          /\ flushing # NoFlush => Times(n, flushing.batch) \in Nat
        BY <1>1, TimesType DEF DeskInv, DeskTyped, Flushes
    <2>3. failures = 0 => asked[n] = table[n] + OnItsWay(n)
        BY <1>1 DEF DeskInv, Queued
    <2> QED
        BY <2>1, <2>2, <2>3 DEF OnItsWay, Log!Waiting
<1> QED
    BY <1>1, DeskInvariant, PTL
=============================================================================
