----------------------------- MODULE CsdpLedger -----------------------------
(***************************************************************************)
(* The CSDP loan ledger: the webhook controllers, the BullMQ jobs they     *)
(* enqueue, LoanProcessor and RecoveryProcessor with their PostgreSQL      *)
(* transactions, the live feature-row writer, the aging job and the        *)
(* nightly feature-row materializer.                                       *)
(*                                                                         *)
(* Transactions run at READ COMMITTED, PostgreSQL's default, which no code *)
(* of the repository overrides: a statement sees the rows committed when   *)
(* it starts and its own writes, a row written or selected FOR UPDATE      *)
(* stays locked to the end of the transaction, and a statement that needs  *)
(* a locked row waits.  A transaction's last write and its COMMIT are one  *)
(* step where nothing outside the database happens between them.           *)
(*                                                                         *)
(* Abstractions.  A counter column is kept per loan: [Loans -> Nat] says   *)
(* how many increments each loan contributed, the column is their sum.     *)
(* csdp_subscriber.outstanding_naira, always written from a SUM over       *)
(* ISSUED loans, is the set of loans summed.  A missing subscriber or      *)
(* feature row behaves as a row of column defaults, which every INSERT     *)
(* branch of the upserts agrees with.  Time is the 30-day threshold only   *)
(* (aged); the 180-day windows are never left.                             *)
(***************************************************************************)
EXTENDS Integers, Sequences, FiniteSetsExt

CONSTANTS
    Subscribers,        \* MSISDNs
    Loans,              \* loan_id values
    Owner,              \* Owner[l]: the MSISDN of loan l
    Repayable,          \* Repayable[l]: repayable_naira
    SumRepayable,       \* SumRepayable[S]: SQL SUM(repayable_naira) over S
    Recoveries,         \* recovery_id values
    Payer,              \* Payer[r]: the MSISDN of recovery r
    Items,              \* Items[r]: the loan ids of loan_items, in order
    Applied,            \* Applied[r][l]: amount_applied_naira
    Workers,            \* concurrent job slots of the two queues
    None,               \* no job, no lock holder
    LoanDeliveries,     \* bound: webhook deliveries per loan
    RecoveryDeliveries, \* bound: webhook deliveries per recovery
    InternalStatuses,   \* statuses sent on the internal loan route
    RefillColumns,      \* the columns of csdp_cdr_refill in the deployed schema
    MaxAttempts,        \* BullMQ attempts per job (5 in the code)
    MaxFaults,          \* bound: statement, Redis and snapshot errors, worker crashes
    FaultyKinds         \* kinds of job those faults may strike

LoanStatus == {"ISSUED", "PARTIAL", "RECOVERED", "DEFAULTED"}
DtoStatus == {"ISSUED", "RECOVERED", "DEFAULTED", "CANCELLED"}
RecoveredAt == {"null", "within30d", "after30d"}

LoanJob == {"loan"} \X Loans \X (1..LoanDeliveries)
RecoveryJob == {"recovery"} \X Recoveries \X (1..RecoveryDeliveries)
Job == LoanJob \cup RecoveryJob

ASSUME ConstantsAssumption ==
    /\ Owner \in [Loans -> Subscribers]
    /\ Payer \in [Recoveries -> Subscribers]
    /\ Repayable \in [Loans -> Nat]
    /\ SumRepayable \in [SUBSET Loans -> Nat]
    /\ Items \in [Recoveries -> Seq(Loans)]
    /\ \A r \in Recoveries : \A i \in 1..Len(Items[r]) : Owner[Items[r][i]] = Payer[r]
    /\ Applied \in [Recoveries -> [Loans -> Nat]]
    /\ None \notin Workers \cup Job
    /\ LoanDeliveries \in Nat /\ RecoveryDeliveries \in Nat
    /\ InternalStatuses \subseteq DtoStatus
    /\ MaxAttempts \in Nat \ {0} /\ MaxFaults \in Nat
    /\ FaultyKinds \subseteq {"loan", "recovery"}

ASSUME SchemaAssumption == RefillColumns \subseteq STRING

\* SUM over no rows is 0 (COALESCE), one row more adds its amount.
ASSUME SumAssumption ==
    /\ SumRepayable[{}] = 0
    /\ \A S \in SUBSET Loans, l \in Loans :
          IsFiniteSet(S) /\ l \notin S => SumRepayable[S \cup {l}] = SumRepayable[S] + Repayable[l]

VARIABLES
    loan,       \* csdp_loan: status ("ABSENT": no row) and recovered_at
    items,      \* csdp_recovery_loan_item: pairs <<recovery, loan>>
    recoveries, \* csdp_recovery: recovery ids
    sub,        \* csdp_subscriber
    feat,       \* csdp_subscriber_feature_row
    snap,       \* loans with a csdp_loan_features_snapshot row
    disbursed,  \* members of the Redis disbursed-24h sets, by loan
    inbound,    \* dedupe keys of csdp_webhook_inbound_log
    aged,       \* loans whose issued_at is more than 30 days ago
    queue,      \* state of every BullMQ job
    payload,    \* job data of the loan jobs: status and recovered_at
    paidLate,   \* paidLate[r]: items whose loan had aged when r was sent
    attempts,   \* failed attempts of every job
    pc,         \* the next step of each worker; "idle": no job
    job,        \* the worker's job
    prior,      \* priorStatus / wasDefaulted: the status a SELECT returned
    issuedSum,  \* the loans the transaction's SUM covered
    pos,        \* index of the current loan item
    newly,      \* the loans counted in newlyRecoveredCount
    featTx,     \* the transaction's own version of the feature row
    lockLoan, lockSub, lockFeat, lockRec,  \* row lock holders
    faults,     \* faults so far
    mat         \* the running materializer statement: its computed rows

dbVars == <<loan, items, recoveries, sub, feat, snap, disbursed>>
envVars == <<inbound, aged, payload, paidLate>>
txData == <<job, prior, issuedSum, pos, newly, featTx>>
txVars == <<pc, txData>>
locks == <<lockLoan, lockSub, lockFeat, lockRec>>
vars == <<dbVars, envVars, queue, attempts, txVars, locks, faults, mat>>

-----------------------------------------------------------------------------
(* Rows and the queries on them                                            *)

LoanRow == [status : LoanStatus \cup {"ABSENT"}, recoveredAt : RecoveredAt]
SubscriberRow == [outstanding : SUBSET Loans, taken : [Loans -> Nat],
                  recovered : [Loans -> Nat]]
FeatureRow == [taken : [Loans -> Nat], recovered : [Loans -> Nat],
               cured : [Loans -> Nat], uncured : BOOLEAN, kobo : Nat]

Bump(counter, S) == [l \in Loans |-> counter[l] + (IF l \in S THEN 1 ELSE 0)]
Zero == [l \in Loans |-> 0]

\* SELECT SUM(repayable_naira) ... WHERE msisdn = s AND status = 'ISSUED'
IssuedLoans(rows, s) == {l \in Loans : Owner[l] = s /\ rows[l].status = "ISSUED"}

\* EXISTS (SELECT 1 FROM csdp_loan WHERE msisdn = s AND status = 'DEFAULTED')
HasDefault(rows, s) == \E l \in Loans : Owner[l] = s /\ rows[l].status = "DEFAULTED"

RecoveredClass(l) == IF l \in aged THEN "after30d" ELSE "within30d"

\* Upserts of csdp_subscriber
CountTaken(row, l, sum) ==
    [outstanding |-> sum, taken |-> Bump(row.taken, {l}), recovered |-> row.recovered]
SyncOutstanding(row, sum) ==
    [outstanding |-> sum, taken |-> row.taken, recovered |-> row.recovered]
CountRecovered(row, S, sum) ==
    [outstanding |-> sum, taken |-> row.taken, recovered |-> Bump(row.recovered, S)]

\* FeatureRowLiveWriterService.  rows: csdp_loan as the transaction sees it.
onLoanIssued(row, l) ==
    [taken |-> Bump(row.taken, {l}), recovered |-> row.recovered, cured |-> row.cured,
     uncured |-> row.uncured, kobo |-> row.kobo + 100 * Repayable[l]]

\* Mutant: subtracts naira from the kobo column.
onLoanRecovered_naira(row, l, wasDefaulted, rows) ==
    [row EXCEPT !.recovered = Bump(@, {l}),
                !.kobo = IF @ > Repayable[l] THEN @ - Repayable[l] ELSE 0]

onLoanRecovered(row, l, wasDefaulted, rows) ==
    LET kobo == 100 * Repayable[l] IN
    [taken |-> row.taken,
     recovered |-> Bump(row.recovered, {l}),
     cured |-> IF wasDefaulted THEN Bump(row.cured, {l}) ELSE row.cured,
     uncured |-> IF wasDefaulted THEN HasDefault(rows, Owner[l]) ELSE row.uncured,
     kobo |-> IF row.kobo > kobo THEN row.kobo - kobo ELSE 0]

\* FeatureRowMaterializerService.computedColumnsSql
\* Mutant: everything not RECOVERED is outstanding.
Computed_defaulted(rows, s) ==
    LET mine == {l \in Loans : Owner[l] = s /\ rows[l].status # "ABSENT"}
    IN  [taken |-> Bump(Zero, mine), recovered |-> Zero, cured |-> Zero,
         uncured |-> HasDefault(rows, s),
         kobo |-> 100 * SumRepayable[{l \in mine : rows[l].status # "RECOVERED"}]]

Computed(rows, s) ==
    LET mine == {l \in Loans : Owner[l] = s /\ rows[l].status # "ABSENT"}
        repaid == {l \in mine : rows[l].status = "RECOVERED" /\ rows[l].recoveredAt # "null"}
    IN  [taken |-> Bump(Zero, mine),
         recovered |-> Bump(Zero, repaid),
         cured |-> Bump(Zero, {l \in repaid : rows[l].recoveredAt = "after30d"}),
         uncured |-> HasDefault(rows, s),
         kobo |-> 100 * SumRepayable[{l \in mine : rows[l].status \in {"ISSUED", "PARTIAL"}}]]

-----------------------------------------------------------------------------
(* Transactions                                                            *)

LoanSteps == {"selectLoan", "upsertLoan", "upsertSubscriber", "featureRow", "commitLoan"}
RecoverySteps == {"insertRecovery", "item", "creditFeature", "recompute", "countRecovered"}
AfterCommit == {"snapshot", "ack"}
Goto(w, step) == pc' = [pc EXCEPT ![w] = step]

EndJob(w) ==
    /\ Goto(w, "idle")
    /\ job' = [job EXCEPT ![w] = None]
    /\ prior' = [prior EXCEPT ![w] = "ABSENT"]
    /\ issuedSum' = [issuedSum EXCEPT ![w] = {}]
    /\ pos' = [pos EXCEPT ![w] = 0]
    /\ newly' = [newly EXCEPT ![w] = {}]
    /\ featTx' = [featTx EXCEPT ![w] = None]

InTx(w) == pc[w] \in LoanSteps \cup RecoverySteps

Key(w) == job[w][2]  \* the loan or recovery id of w's job
Msisdn(w) == IF job[w][1] = "loan" THEN Owner[Key(w)] ELSE Payer[Key(w)]
Item(w) == Items[Key(w)][pos[w]]

PaidRow(r, l) == [status |-> "RECOVERED",
                  recoveredAt |-> IF l \in paidLate[r] THEN "after30d" ELSE "within30d"]

\* csdp_loan as worker w's transaction sees it: committed rows and own writes.
View(w) ==
    [l \in Loans |->
        IF pc[w] \in {"upsertSubscriber", "featureRow", "commitLoan"} /\ l = Key(w)
        THEN payload[job[w]]
        ELSE IF pc[w] \in RecoverySteps /\ l \in newly[w]
        THEN PaidRow(Key(w), l)
        ELSE loan[l]]

\* Mutant: the prior status is not consulted.
FirstIssue_anyPrior(w) == payload[job[w]].status = "ISSUED"

\* 'ISSUED' and not known when the transaction looked.
FirstIssue(w) == payload[job[w]].status = "ISSUED" /\ prior[w] = "ABSENT"

Freed(lock, w) == [x \in DOMAIN lock |-> IF lock[x] = w THEN None ELSE lock[x]]
ReleaseLocks(w) ==
    /\ lockLoan' = Freed(lockLoan, w)
    /\ lockSub' = Freed(lockSub, w)
    /\ lockFeat' = Freed(lockFeat, w)
    /\ lockRec' = Freed(lockRec, w)

\* One more fault strikes worker w's job, within the bound.
MayFault(w) ==
    /\ pc[w] # "idle"
    /\ job[w][1] \in FaultyKinds
    /\ faults < MaxFaults
    /\ faults' = faults + 1

Available(lock, x, w) == lock[x] \in {None, w}

\* Mutant: the error is swallowed and the job completes.
FailAttempt_swallowed(w) ==
    /\ queue' = [queue EXCEPT ![job[w]] = "done"]
    /\ EndJob(w)
    /\ ReleaseLocks(w)
    /\ UNCHANGED <<dbVars, envVars, attempts, mat>>

\* The attempt failed: BullMQ retries the job until its attempts are used up.
FailAttempt(w) ==
    LET j == job[w] IN
    /\ attempts' = [attempts EXCEPT ![j] = @ + 1]
    /\ queue' = [queue EXCEPT ![j] =
                    IF attempts[j] + 1 >= MaxAttempts THEN "failed" ELSE "waiting"]
    /\ EndJob(w)
    /\ ReleaseLocks(w)
    /\ UNCHANGED <<dbVars, envVars, mat>>

-----------------------------------------------------------------------------
(* Webhooks                                                                *)

\* Copies of one webhook are interchangeable: they are sent in order.
Sendable(j) ==
    /\ queue[j] = "unsent"
    /\ j[3] > 1 => queue[<<j[1], j[2], j[3] - 1>>] # "unsent"

Enqueue(j) ==
    /\ Sendable(j)
    /\ queue' = [queue EXCEPT ![j] = "waiting"]
    /\ inbound' = inbound \cup {j[2]}
    /\ UNCHANGED <<dbVars, aged, attempts, txVars, locks, faults, mat>>

\* AirtelWebhookMapper.mapLoan: a fulfilment is always ISSUED.
mapLoan == [status |-> "ISSUED", recoveredAt |-> "null"]

\* AirtelWebhookController.loanNotification
AirtelLoan(j) ==
    /\ Enqueue(j)
    /\ payload' = [payload EXCEPT ![j] = mapLoan]
    /\ UNCHANGED paidLate

\* IdempotencyGuard.canActivate: the id is known already.  A request that
\* passed the guard and enqueues late is a job that starts late.
DuplicateOf(j) ==
    IF j[1] = "loan" THEN loan[j[2]].status # "ABSENT" ELSE j[2] \in recoveries

\* WebhooksController.loan: a duplicate is answered and dropped.
InternalLoan(j) ==
    /\ ~DuplicateOf(j)
    /\ Enqueue(j)
    /\ \E s \in InternalStatuses :
          \E at \in {"null"} \cup (IF s = "RECOVERED" THEN {RecoveredClass(j[2])} ELSE {}) :
             payload' = [payload EXCEPT ![j] = [status |-> s, recoveredAt |-> at]]
    /\ UNCHANGED paidLate

SendRecovery(j) ==
    /\ Enqueue(j)
    /\ paidLate' = IF j[3] = 1 THEN [paidLate EXCEPT ![j[2]] = aged] ELSE paidLate
    /\ UNCHANGED payload

\* AirtelWebhookController.recoveryNotification: no idempotency guard.
AirtelRecovery(j) == SendRecovery(j)

\* WebhooksController.recovery
InternalRecovery(j) == ~DuplicateOf(j) /\ SendRecovery(j)

\* Time passes: a loan becomes more than 30 days old.
Age(l) ==
    /\ l \notin aged
    /\ loan[l].status # "ABSENT"
    /\ aged' = aged \cup {l}
    /\ UNCHANGED <<dbVars, inbound, payload, paidLate, queue, attempts, txVars, locks, faults, mat>>

-----------------------------------------------------------------------------
(* Workers.  Every step below belongs to one job's process() call.         *)

Start(w, j) ==
    /\ pc[w] = "idle"
    /\ queue[j] = "waiting"
    /\ queue' = [queue EXCEPT ![j] = "active"]
    /\ job' = [job EXCEPT ![w] = j]
    /\ Goto(w, IF j[1] = "loan" THEN "selectLoan" ELSE "insertRecovery")
    /\ UNCHANGED <<prior, issuedSum, pos, newly, featTx>>
    /\ UNCHANGED <<dbVars, envVars, attempts, locks, faults, mat>>

StepUnchanged == UNCHANGED <<envVars, queue, attempts, faults, mat>>

\* SELECT status FROM csdp_loan ... FOR UPDATE.  No committed row, no lock.
SelectLoan(w) ==
    LET l == Key(w) IN
    /\ pc[w] = "selectLoan"
    /\ IF loan[l].status = "ABSENT"
       THEN UNCHANGED lockLoan
       ELSE lockLoan[l] = None /\ lockLoan' = [lockLoan EXCEPT ![l] = w]
    /\ prior' = [prior EXCEPT ![w] = loan[l].status]
    /\ Goto(w, "upsertLoan")
    /\ UNCHANGED <<job, issuedSum, pos, newly, featTx>>
    /\ UNCHANGED <<dbVars, lockSub, lockFeat, lockRec>> /\ StepUnchanged

\* INSERT INTO csdp_loan ... ON CONFLICT DO UPDATE, then the SUM of ISSUED loans.
UpsertLoan(w) ==
    LET l == Key(w)
        rows == [loan EXCEPT ![l] = payload[job[w]]]
    IN
    /\ pc[w] = "upsertLoan"
    /\ payload[job[w]].status \in LoanStatus
    /\ Available(lockLoan, l, w)
    /\ lockLoan' = [lockLoan EXCEPT ![l] = w]
    /\ issuedSum' = [issuedSum EXCEPT ![w] = IssuedLoans(rows, Owner[l])]
    /\ Goto(w, "upsertSubscriber")
    /\ UNCHANGED <<job, prior, pos, newly, featTx>>
    /\ UNCHANGED <<dbVars, lockSub, lockFeat, lockRec>> /\ StepUnchanged

\* The CHECK constraint on csdp_loan.status refuses a CANCELLED row.
UpsertLoanRefused(w) ==
    /\ pc[w] = "upsertLoan"
    /\ payload[job[w]].status \notin LoanStatus
    /\ FailAttempt(w)
    /\ UNCHANGED faults

\* First delivery: loans_taken + 1, the feature row follows.
UpsertSubscriberFirst(w) ==
    /\ pc[w] = "upsertSubscriber"
    /\ FirstIssue(w)
    /\ Available(lockSub, Msisdn(w), w)
    /\ lockSub' = [lockSub EXCEPT ![Msisdn(w)] = w]
    /\ Goto(w, "featureRow") /\ UNCHANGED txData
    /\ UNCHANGED <<dbVars, lockLoan, lockFeat, lockRec>> /\ StepUnchanged

AfterLoanCommit(w) == IF prior[w] = "ABSENT" THEN "snapshot" ELSE "ack"

\* Replay or status change: only outstanding_naira; COMMIT.
UpsertSubscriberReplay(w) ==
    LET s == Msisdn(w) IN
    /\ pc[w] = "upsertSubscriber"
    /\ ~FirstIssue(w)
    /\ Available(lockSub, s, w)
    /\ loan' = View(w)
    /\ sub' = [sub EXCEPT ![s] = SyncOutstanding(@, issuedSum[w])]
    /\ Goto(w, AfterLoanCommit(w)) /\ UNCHANGED txData
    /\ ReleaseLocks(w)
    /\ UNCHANGED <<items, recoveries, feat, snap, disbursed>> /\ StepUnchanged

\* CsdpLiveCountersService.recordDisbursement: ZADD, idempotent by member.
recordDisbursement(l) == disbursed \cup {l}

\* onLoanIssued, then recordDisbursement: the Redis write is not part of the
\* transaction, and its failure is swallowed.
FeatureRowIssued(w) ==
    LET s == Msisdn(w) IN
    /\ pc[w] = "featureRow"
    /\ Available(lockFeat, s, w)
    /\ lockFeat' = [lockFeat EXCEPT ![s] = w]
    /\ \/ disbursed' = recordDisbursement(Key(w)) /\ UNCHANGED faults
       \/ UNCHANGED disbursed /\ MayFault(w)
    /\ Goto(w, "commitLoan") /\ UNCHANGED txData
    /\ UNCHANGED <<loan, items, recoveries, sub, feat, snap, lockLoan, lockSub, lockRec,
                   envVars, queue, attempts, mat>>

\* COMMIT of a first delivery: the loan, both aggregates.
CommitLoan(w) ==
    LET l == Key(w)
        s == Msisdn(w)
    IN
    /\ pc[w] = "commitLoan"
    /\ loan' = View(w)
    /\ sub' = [sub EXCEPT ![s] = CountTaken(@, l, issuedSum[w])]
    /\ feat' = [feat EXCEPT ![s] = onLoanIssued(@, l)]
    /\ Goto(w, AfterLoanCommit(w)) /\ UNCHANGED txData
    /\ ReleaseLocks(w)
    /\ UNCHANGED <<items, recoveries, snap, disbursed>> /\ StepUnchanged

\* LoanSnapshotService.snapshotLoan: ON CONFLICT (loan_id) DO NOTHING.
snapshotLoan(l) == snap \cup {l}

\* The snapshot is written outside the transaction and its failure is swallowed.
SnapshotLoan(w) ==
    /\ pc[w] = "snapshot"
    /\ \/ snap' = snapshotLoan(Key(w)) /\ UNCHANGED faults
       \/ UNCHANGED snap /\ MayFault(w)
    /\ Goto(w, "ack") /\ UNCHANGED txData
    /\ UNCHANGED <<loan, items, recoveries, sub, feat, disbursed, envVars, queue, attempts,
                   locks, mat>>

\* process() returned: BullMQ completes the job.
Acknowledge(w) ==
    /\ pc[w] = "ack"
    /\ queue' = [queue EXCEPT ![job[w]] = "done"]
    /\ EndJob(w)
    /\ UNCHANGED <<dbVars, envVars, attempts, locks, faults, mat>>

\* INSERT INTO csdp_recovery ... ON CONFLICT DO NOTHING: waits for a
\* concurrent insert of the same id, takes no lock when the id is known.
InsertRecovery(w) ==
    LET r == Key(w) IN
    /\ pc[w] = "insertRecovery"
    /\ lockRec[r] = None
    /\ lockRec' = IF r \in recoveries THEN lockRec ELSE [lockRec EXCEPT ![r] = w]
    /\ pos' = [pos EXCEPT ![w] = 1]
    /\ Goto(w, "item")
    /\ UNCHANGED <<job, prior, issuedSum, newly, featTx>>
    /\ UNCHANGED <<dbVars, lockLoan, lockSub, lockFeat>> /\ StepUnchanged

MoreItems(w) == pc[w] = "item" /\ pos[w] <= Len(Items[Key(w)])

\* An item whose loan has no committed row: `continue`.
ItemUnknownLoan(w) ==
    /\ MoreItems(w)
    /\ loan[Item(w)].status = "ABSENT"
    /\ pos' = [pos EXCEPT ![w] = @ + 1]
    /\ UNCHANGED <<pc, job, prior, issuedSum, newly, featTx>>
    /\ UNCHANGED <<dbVars, locks>> /\ StepUnchanged

\* SELECT ... FOR UPDATE of a loan already RECOVERED: `continue`, row locked.
ItemAlreadyRecovered(w) ==
    LET l == Item(w) IN
    /\ MoreItems(w)
    /\ View(w)[l].status = "RECOVERED"
    /\ Available(lockLoan, l, w)
    /\ lockLoan' = [lockLoan EXCEPT ![l] = w]
    /\ pos' = [pos EXCEPT ![w] = @ + 1]
    /\ UNCHANGED <<pc, job, prior, issuedSum, newly, featTx>>
    /\ UNCHANGED <<dbVars, lockSub, lockFeat, lockRec>> /\ StepUnchanged

\* Mutant: SELECT without FOR UPDATE.
ItemRecover_unlocked(w) ==
    LET l == Item(w) IN
    /\ MoreItems(w)
    /\ View(w)[l].status \notin {"ABSENT", "RECOVERED"}
    /\ prior' = [prior EXCEPT ![w] = loan[l].status]
    /\ newly' = [newly EXCEPT ![w] = @ \cup {l}]
    /\ Goto(w, "creditFeature")
    /\ UNCHANGED <<job, issuedSum, pos, featTx>>
    /\ UNCHANGED <<dbVars, locks>> /\ StepUnchanged

\* UPDATE csdp_loan SET status = 'RECOVERED', newlyRecoveredCount += 1.
ItemRecover(w) ==
    LET l == Item(w) IN
    /\ MoreItems(w)
    /\ View(w)[l].status \notin {"ABSENT", "RECOVERED"}
    /\ Available(lockLoan, l, w)
    /\ lockLoan' = [lockLoan EXCEPT ![l] = w]
    /\ prior' = [prior EXCEPT ![w] = loan[l].status]
    /\ newly' = [newly EXCEPT ![w] = @ \cup {l}]
    /\ Goto(w, "creditFeature")
    /\ UNCHANGED <<job, issuedSum, pos, featTx>>
    /\ UNCHANGED <<dbVars, lockSub, lockFeat, lockRec>> /\ StepUnchanged

\* featureRow.onLoanRecovered inside the transaction.
CreditFeature(w) ==
    LET s == Msisdn(w)
        row == IF lockFeat[s] = w THEN featTx[w] ELSE feat[s]
    IN
    /\ pc[w] = "creditFeature"
    /\ Available(lockFeat, s, w)
    /\ lockFeat' = [lockFeat EXCEPT ![s] = w]
    /\ featTx' = [featTx EXCEPT ![w] = onLoanRecovered(row, Item(w),
                                        prior[w] = "DEFAULTED", View(w))]
    /\ pos' = [pos EXCEPT ![w] = @ + 1]
    /\ Goto(w, "item")
    /\ UNCHANGED <<job, prior, issuedSum, newly>>
    /\ UNCHANGED <<dbVars, lockLoan, lockSub, lockRec>> /\ StepUnchanged

\* After the loop: the SUM of ISSUED loans.
Recompute(w) ==
    /\ pc[w] = "item"
    /\ pos[w] > Len(Items[Key(w)])
    /\ issuedSum' = [issuedSum EXCEPT ![w] = IssuedLoans(View(w), Msisdn(w))]
    /\ Goto(w, "countRecovered")
    /\ UNCHANGED <<job, prior, pos, newly, featTx>>
    /\ UNCHANGED <<dbVars, locks>> /\ StepUnchanged

\* Mutant: counts every line item, not the newly recovered loans.
CommitRecovery_allItems(w) ==
    LET r == Key(w)
        s == Msisdn(w)
        all == {Items[r][i] : i \in 1..Len(Items[r])}
    IN
    /\ pc[w] = "countRecovered"
    /\ Available(lockSub, s, w)
    /\ loan' = View(w)
    /\ items' = items \cup ({r} \X all)
    /\ recoveries' = recoveries \cup {r}
    /\ sub' = [sub EXCEPT ![s] = CountRecovered(@, all, issuedSum[w])]
    /\ feat' = IF lockFeat[s] = w THEN [feat EXCEPT ![s] = featTx[w]] ELSE feat
    /\ Goto(w, "ack") /\ UNCHANGED txData
    /\ ReleaseLocks(w)
    /\ UNCHANGED <<snap, disbursed>> /\ StepUnchanged

\* Upsert of csdp_subscriber with loans_recovered + newlyRecoveredCount; COMMIT.
CommitRecovery(w) ==
    LET r == Key(w)
        s == Msisdn(w)
    IN
    /\ pc[w] = "countRecovered"
    /\ Available(lockSub, s, w)
    /\ loan' = View(w)
    /\ items' = items \cup {<<r, Items[r][i]>> : i \in 1..Len(Items[r])}
    /\ recoveries' = recoveries \cup {r}
    /\ sub' = [sub EXCEPT ![s] = CountRecovered(@, newly[w], issuedSum[w])]
    /\ feat' = IF lockFeat[s] = w THEN [feat EXCEPT ![s] = featTx[w]] ELSE feat
    /\ Goto(w, "ack") /\ UNCHANGED txData
    /\ ReleaseLocks(w)
    /\ UNCHANGED <<snap, disbursed>> /\ StepUnchanged

-----------------------------------------------------------------------------
(* Failures                                                                *)

\* The worker whose lock worker w's next statement waits for.
WaitsFor(w) ==
    CASE pc[w] = "selectLoan" /\ loan[Key(w)].status # "ABSENT" -> lockLoan[Key(w)]
      [] pc[w] = "upsertLoan" /\ payload[job[w]].status \in LoanStatus -> lockLoan[Key(w)]
      [] pc[w] \in {"upsertSubscriber", "countRecovered"} -> lockSub[Msisdn(w)]
      [] pc[w] \in {"featureRow", "creditFeature"} -> lockFeat[Msisdn(w)]
      [] pc[w] = "insertRecovery" -> lockRec[Key(w)]
      [] MoreItems(w) /\ loan[Item(w)].status # "ABSENT" -> lockLoan[Item(w)]
      [] OTHER -> None

\* PostgreSQL's deadlock detector aborts one member of a cycle of waiters.
DeadlockAbort(w) ==
    /\ \E C \in SUBSET Workers :
          w \in C /\ \A v \in C : WaitsFor(v) \in C \ {v}
    /\ FailAttempt(w)
    /\ UNCHANGED faults

\* A statement or the connection fails: ROLLBACK, process() throws.
StatementError(w) ==
    /\ MayFault(w)
    /\ InTx(w)
    /\ FailAttempt(w)

\* The worker process dies: ROLLBACK of an open transaction, BullMQ finds the
\* stalled job and hands it out again, or fails a job that stalled before.
WorkerCrash(w) ==
    /\ MayFault(w)
    /\ \E q \in IF faults = 0 THEN {"waiting"} ELSE {"waiting", "failed"} :
          queue' = [queue EXCEPT ![job[w]] = q]
    /\ EndJob(w)
    /\ ReleaseLocks(w)
    /\ UNCHANGED <<dbVars, envVars, attempts, mat>>

-----------------------------------------------------------------------------
(* Scheduled jobs                                                          *)

\* sum(recovery line items) >= repayable_naira
FullyApplied(l) ==
    LET rs == {r \in Recoveries : <<r, l>> \in items}
    IN  rs # {} /\ MapThenSumSet(LAMBDA r : Applied[r][l], rs) >= Repayable[l]

\* Mutant: no status filter.
Overdue_anyStatus == {l \in aged : loan[l].status # "ABSENT"}

Overdue == {l \in aged : loan[l].status \in {"ISSUED", "PARTIAL"}}
\* Mutant: only ISSUED loans converge.
Converging_issued == {l \in Loans : loan[l].status = "ISSUED" /\ FullyApplied(l)}

Converging == {l \in Loans : loan[l].status \notin {"ABSENT", "RECOVERED"} /\ FullyApplied(l)}

\* What runAging collects from the two UPDATE ... RETURNING statements: the
\* driver answers an UPDATE with the pair [rows, count], so `r.msisdn` of its
\* two members is undefined and the list names no subscriber.
AffectedMsisdns(touched) == {}

\* AgingProcessor.runAging, one transaction.
RunAging ==
    LET touched == Overdue \cup Converging
        rows == [l \in Loans |->
                    IF l \in Converging
                    THEN [status |-> "RECOVERED",
                          recoveredAt |-> IF loan[l].recoveredAt = "null"
                                          THEN RecoveredClass(l) ELSE loan[l].recoveredAt]
                    ELSE IF l \in Overdue THEN [loan[l] EXCEPT !.status = "DEFAULTED"]
                    ELSE loan[l]]
    IN
    /\ touched # {}
    /\ \A l \in touched : lockLoan[l] = None
    /\ \A s \in AffectedMsisdns(touched) : lockFeat[s] = None
    /\ loan' = rows
    /\ feat' = [s \in Subscribers |->
                   IF s \in AffectedMsisdns(touched)
                   THEN [feat[s] EXCEPT !.uncured = HasDefault(rows, s)]
                   ELSE feat[s]]
    /\ UNCHANGED <<items, recoveries, sub, snap, disbursed, envVars, queue, attempts,
                   txVars, locks, faults, mat>>

ActiveSubscribers ==
    {s \in Subscribers : \/ \E l \in Loans : Owner[l] = s /\ loan[l].status # "ABSENT"
                         \/ \E r \in recoveries : Payer[r] = s}

\* PostgreSQL plans computedColumnsSql only if every column it names exists.
StatementPlans == "refilled_at" \in RefillColumns

\* refreshActiveSubscribers: the INSERT ... SELECT computes its rows from the
\* snapshot taken when it starts ...
MaterializeBegin ==
    /\ StatementPlans
    /\ mat = None
    /\ ActiveSubscribers # {}
    /\ mat' = [s \in ActiveSubscribers |-> Computed(loan, s)]
    /\ UNCHANGED <<dbVars, envVars, queue, attempts, txVars, locks, faults>>

\* ... and writes them once no live writer holds a row.
MaterializeWrite ==
    /\ mat # None
    /\ \A s \in DOMAIN mat : lockFeat[s] = None
    /\ feat' = [s \in Subscribers |-> IF s \in DOMAIN mat THEN mat[s] ELSE feat[s]]
    /\ mat' = None
    /\ UNCHANGED <<loan, items, recoveries, sub, snap, disbursed, envVars, queue, attempts,
                   txVars, locks, faults>>

-----------------------------------------------------------------------------
(* Specification                                                           *)

Init ==
    /\ loan = [l \in Loans |-> [status |-> "ABSENT", recoveredAt |-> "null"]]
    /\ items = {} /\ recoveries = {} /\ snap = {} /\ disbursed = {} /\ inbound = {}
    /\ aged = {}
    /\ sub = [s \in Subscribers |-> [outstanding |-> {}, taken |-> Zero, recovered |-> Zero]]
    /\ feat = [s \in Subscribers |-> [taken |-> Zero, recovered |-> Zero, cured |-> Zero,
                                      uncured |-> FALSE, kobo |-> 0]]
    /\ queue = [j \in Job |-> "unsent"]
    /\ payload = [j \in LoanJob |-> [status |-> "ISSUED", recoveredAt |-> "null"]]
    /\ paidLate = [r \in Recoveries |-> {}]
    /\ attempts = [j \in Job |-> 0]
    /\ pc = [w \in Workers |-> "idle"]
    /\ job = [w \in Workers |-> None]
    /\ prior = [w \in Workers |-> "ABSENT"]
    /\ issuedSum = [w \in Workers |-> {}]
    /\ pos = [w \in Workers |-> 0]
    /\ newly = [w \in Workers |-> {}]
    /\ featTx = [w \in Workers |-> None]
    /\ lockLoan = [l \in Loans |-> None]
    /\ lockSub = [s \in Subscribers |-> None]
    /\ lockFeat = [s \in Subscribers |-> None]
    /\ lockRec = [r \in Recoveries |-> None]
    /\ faults = 0
    /\ mat = None

Webhook ==
    \/ \E j \in LoanJob : AirtelLoan(j) \/ InternalLoan(j)
    \/ \E j \in RecoveryJob : AirtelRecovery(j) \/ InternalRecovery(j)

WorkerStep(w) ==
    \/ \E j \in Job : Start(w, j)
    \/ SelectLoan(w) \/ UpsertLoan(w) \/ UpsertLoanRefused(w)
    \/ UpsertSubscriberFirst(w) \/ UpsertSubscriberReplay(w) \/ FeatureRowIssued(w)
    \/ CommitLoan(w)
    \/ SnapshotLoan(w) \/ Acknowledge(w)
    \/ InsertRecovery(w) \/ ItemUnknownLoan(w) \/ ItemAlreadyRecovered(w) \/ ItemRecover(w)
    \/ CreditFeature(w) \/ Recompute(w) \/ CommitRecovery(w)
    \/ DeadlockAbort(w)

Fault == \E w \in Workers : StatementError(w) \/ WorkerCrash(w)

Materialize == MaterializeBegin \/ MaterializeWrite

\* Between two nightly runs: everything but the materializer.
LiveNext ==
    \/ Webhook
    \/ \E w \in Workers : WorkerStep(w)
    \/ Fault
    \/ \E l \in Loans : Age(l)
    \/ RunAging

Next == LiveNext \/ Materialize

LiveSpec == Init /\ [][LiveNext]_vars

\* Fairness: BullMQ workers keep taking jobs, PostgreSQL answers, and the
\* repeatable aging and materializer jobs keep firing.  Webhooks, time and
\* faults are not fair.
Fairness ==
    /\ \A w \in Workers : WF_vars(WorkerStep(w))
    /\ WF_vars(RunAging)
    /\ WF_vars(MaterializeBegin) /\ WF_vars(MaterializeWrite)

Spec == Init /\ [][Next]_vars /\ Fairness
-----------------------------------------------------------------------------
(* Properties                                                              *)

Step == {"idle"} \cup LoanSteps \cup RecoverySteps \cup AfterCommit

\* Type invariant.
TypeOK ==
    /\ loan \in [Loans -> LoanRow]
    /\ items \subseteq Recoveries \X Loans
    /\ recoveries \subseteq Recoveries
    /\ sub \in [Subscribers -> SubscriberRow]
    /\ feat \in [Subscribers -> FeatureRow]
    /\ snap \subseteq Loans /\ disbursed \subseteq Loans /\ aged \subseteq Loans
    /\ inbound \subseteq Loans \cup Recoveries
    /\ queue \in [Job -> {"unsent", "waiting", "active", "done", "failed"}]
    /\ payload \in [LoanJob -> [status : DtoStatus, recoveredAt : RecoveredAt]]
    /\ paidLate \in [Recoveries -> SUBSET Loans]
    /\ attempts \in [Job -> Nat]
    /\ pc \in [Workers -> Step]
    /\ job \in [Workers -> Job \cup {None}]
    /\ prior \in [Workers -> LoanStatus \cup {"ABSENT"}]
    /\ issuedSum \in [Workers -> SUBSET Loans]
    /\ pos \in [Workers -> Nat]
    /\ newly \in [Workers -> SUBSET Loans]
    /\ featTx \in [Workers -> FeatureRow \cup {None}]
    /\ lockLoan \in [Loans -> Workers \cup {None}]
    /\ lockSub \in [Subscribers -> Workers \cup {None}]
    /\ lockFeat \in [Subscribers -> Workers \cup {None}]
    /\ lockRec \in [Recoveries -> Workers \cup {None}]
    /\ faults \in Nat
    /\ mat = None \/ \E D \in SUBSET Subscribers : mat \in [D -> FeatureRow]

\* The two aggregates of a subscriber, csdp_subscriber (written by the
\* processors) and csdp_subscriber_feature_row (written by the live writer,
\* once per loan item), count the same loans as taken and as recovered in
\* every committed state: the processors pass their EntityManager down, so
\* both move in one transaction whatever is retried, aborted or redelivered.
CountersAgree ==
    \A s \in Subscribers :
        sub[s].taken = feat[s].taken /\ sub[s].recovered = feat[s].recovered

(* The inductive invariant behind CountersAgree and NoPhantomDisbursement.  *)

\* A worker's step, its job's kind and the job's state belong together.
JobOK(w) ==
    /\ pc[w] = "idle" => newly[w] = {}
    /\ pc[w] # "idle" => job[w] \in Job /\ queue[job[w]] = "active"
    /\ pc[w] \in LoanSteps \cup {"snapshot"} => job[w] \in LoanJob
    /\ pc[w] \in RecoverySteps => job[w] \in RecoveryJob
    /\ pc[w] \in {"upsertSubscriber", "featureRow", "commitLoan"}
          => payload[job[w]].status \in LoanStatus
    /\ pc[w] = "item" => pos[w] > 0
    /\ pc[w] = "creditFeature" => pos[w] \in 1..Len(Items[Key(w)]) /\ Item(w) \in newly[w]

\* BullMQ hands a job to one worker at a time.
OneWorkerPerJob ==
    \A v, w \in Workers :
        v # w /\ pc[v] # "idle" /\ pc[w] # "idle" => job[v] # job[w]

\* The loans w's transaction has recovered and credited to the feature row.
Credited(w) == newly[w] \ (IF pc[w] = "creditFeature" THEN {Item(w)} ELSE {})

\* A recovery's uncommitted feature row is the committed one plus its own
\* credits, and it has no credits without the row lock; a loan's first
\* delivery commits under that lock.
CreditOK(w) ==
    LET s == Msisdn(w) IN
    /\ pc[w] = "insertRecovery" => newly[w] = {} /\ lockFeat[s] # w
    /\ pc[w] \in RecoverySteps =>
          IF lockFeat[s] = w
          THEN /\ featTx[w] \in FeatureRow
               /\ featTx[w].taken = feat[s].taken
               /\ featTx[w].recovered = Bump(feat[s].recovered, Credited(w))
          ELSE Credited(w) = {}
    /\ pc[w] = "commitLoan" => lockFeat[s] = w

\* Only an open transaction holds a feature-row lock, on its own subscriber.
FeatLockOK ==
    \A s \in Subscribers, w \in Workers : lockFeat[s] = w =>
        pc[w] \in RecoverySteps \cup {"commitLoan"} /\ s = Msisdn(w)

\* A loan job past its COMMIT has left a loan row.
CommittedOK(w) ==
    pc[w] \in AfterCommit /\ job[w] \in LoanJob => loan[Key(w)].status # "ABSENT"

\* Holds whatever runs, the materializer included.
BaseInv ==
    /\ TypeOK
    /\ \A w \in Workers : JobOK(w) /\ CreditOK(w) /\ CommittedOK(w)
    /\ OneWorkerPerJob
    /\ FeatLockOK

\* The feature row and the subscriber row count the same loans, for the
\* reason the processors intend: row locks held to COMMIT, one job per worker.
LedgerInv == BaseInv /\ CountersAgree

\* Under redelivered recovery webhooks, retries and concurrent recoveries of
\* one loan, a loan is counted as recovered at most once (SELECT ... FOR
\* UPDATE and the status check of RecoveryProcessor).
RecoveredOnce == \A s \in Subscribers, l \in Loans : sub[s].recovered[l] <= 1

\* A loan is counted as taken at most once (loan.processor.ts, "Only on first
\* delivery - replay (priorStatus !== null) is a no-op").
TakenOnce == \A s \in Subscribers, l \in Loans : sub[s].taken[l] <= 1

\* our_outstanding_kobo, maintained by + and clamped - in separate
\* transactions, is the sum of the loans counted as taken and not yet as
\* recovered: no delta is lost, applied twice or swallowed by the clamp.
KoboMatchesCounters ==
    \A s \in Subscribers :
        feat[s].kobo = 100 * SumRepayable[{l \in Loans :
                                feat[s].taken[l] > 0 /\ feat[s].recovered[l] = 0}]

\* A RECOVERED loan is never reopened: the repeated delivery of a fulfilment
\* webhook is a no-op.
RecoveredIsFinal ==
    [][\A l \in Loans : loan[l].status = "RECOVERED" => loan'[l].status = "RECOVERED"]_vars

\* The Redis disbursed-24h set is written before COMMIT: when it names a loan
\* that does not exist, a job for that loan is still to be retried or is kept
\* in the failed set for an operator; no completed delivery leaves a phantom.
NoPhantomDisbursement ==
    \A l \in disbursed :
        \/ loan[l].status # "ABSENT"
        \/ \E j \in LoanJob : j[2] = l /\ queue[j] \in {"waiting", "active", "failed"}

\* Whatever the order in which a loan and its recoveries arrive, a loan whose
\* line items cover it becomes RECOVERED (the aging job's convergence).
RecoveryConverges ==
    \A l \in Loans :
        loan[l].status # "ABSENT" /\ FullyApplied(l) ~> loan[l].status = "RECOVERED"

FeatureRowTrue(s) ==
    /\ \A l \in Loans : feat[s].taken[l] =
          IF Owner[l] = s /\ loan[l].status # "ABSENT" THEN 1 ELSE 0
    /\ feat[s].uncured = HasDefault(loan, s)
    /\ feat[s].kobo = 100 * SumRepayable[{l \in Loans :
                         Owner[l] = s /\ loan[l].status \in {"ISSUED", "PARTIAL"}}]

\* Once loans stop changing, the nightly recompute repairs every drift of the
\* feature row: double counts, stale flags, deltas lost to a concurrent run
\* (feature-row-materializer.service.ts, "any drift accrued from live writers
\* is corrected").
DriftRepaired == <>[](\A s \in Subscribers : FeatureRowTrue(s))
=============================================================================
