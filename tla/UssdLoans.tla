------------------------------ MODULE UssdLoans ------------------------------
(***************************************************************************)
(* Loans requested over USSD (ussd-loans.service.ts): the offer and the    *)
(* approval of a loan, the four layers that keep a repeated approval from  *)
(* making a second loan (idempotency key, cooldown, Redis lock, second     *)
(* lookup), and the queue that disburses it (loan-disburse.processor.ts).  *)
(*                                                                         *)
(* A request is a small program: every Redis command and every SQL write   *)
(* is a step, and so is every group of reads whose result the next write   *)
(* depends on.  Requests of several servers interleave between any two     *)
(* steps and may die at any of them; so may the workers.                   *)
(*                                                                         *)
(* A Redis key with a TTL may be gone whenever it is read: the session     *)
(* (180 s), the eligible amount (1 h), and the lock (30 s), except that a  *)
(* lock outlives the request that holds it, as its TTL is chosen to.       *)
(*                                                                         *)
(* Left out: interest and due dates, the answer's wording, the other       *)
(* columns of LOANS, users without an account, and loans that reach the    *)
(* tables by the administrators' endpoints (LoanBook).                     *)
(***************************************************************************)
EXTENDS Integers, FiniteSets, FiniteSetsExt

CONSTANTS
    Users,          \* USERS rows, one telephone number each
    Sids,           \* sessionId values of the USSD gateway
    Loans,          \* primary keys available to LOANS
    Calls,          \* HTTP handlers that can be in flight
    Jobs,           \* primary keys of the loan-disbursement queue
    Channels,       \* sessionId (or NoSid) and form of the number a caller sends
    Options,        \* menu options the callers select
    BaseAmount,     \* eligible amount by score, before debts are subtracted
    CreditLimit,    \* user.creditLimit
    Attempts,       \* BullMQ attempts of a job
    MaxStalled,     \* BullMQ maxStalledCount
    Concurrency,    \* jobs the processor runs in parallel
    MaxCalls,       \* bound: requests of a behaviour
    MaxFaults,      \* bound: requests that die, and their Redis commands that fail
    MaxFailures,    \* bound: attempts of jobs that fail or stall
    NoSid, NoRow, NoSession, NoQuote, NoLoan, NoJob

\* What the caller sends as phoneNumber: the local form the service normalises
\* to, or another form of the same number.
Forms == {"local", "other"}

\* Redis session keys: a sessionId, or a telephone number.
SessionKeys == Sids \union (Users \X Forms)

LoanStatus == {"APPROVED", "DISBURSED", "COMPLETED"}

\* A row of LOANS made over USSD.  number is the n of USS-<year>-<n>, skey the
\* sessionKey in the metadata, and recent says it is less than two hours old.
LoanRow == [number : Nat, user : Users, skey : SessionKeys, amount : Nat,
            status : LoanStatus, recent : BOOLEAN]

\* A stored offer: whose, under which form of the number, up to what amount.
OfferSession == [user : Users, form : Forms, eligible : Nat]

PCs == {"idle", "quote", "session", "lookup", "cooldown", "lock", "check",
        "number", "insert", "unlock", "enqueue"}

\* The request holds the lock.
Critical == {"check", "number", "insert", "unlock"}

ASSUME UssdAssumption ==
    /\ NoSid \notin Sids /\ NoRow \notin LoanRow /\ NoSession \notin OfferSession
    /\ NoQuote \notin Nat /\ NoLoan \notin Loans
    /\ Channels \subseteq (Sids \union {NoSid}) \X Forms
    /\ Options \subseteq Nat \ {0}
    /\ {BaseAmount, CreditLimit, MaxStalled, Concurrency, MaxCalls,
        MaxFaults, MaxFailures} \subseteq Nat
    /\ Attempts \in Nat \ {0}

VARIABLES
    loan,       \* LOANS
    session,    \* Redis: ussd:loan-offer:<key>
    quote,      \* Redis: eligible amount of a user
    locked,     \* Redis: ussd:loan:lock:<user>:<key>
    pc, req,    \* where a request is, and what it holds
    job,        \* the queue, and how far the worker of a job is
    calls, faults, failures     \* how much of each bound is used

vars == <<loan, session, quote, locked, pc, req, job, calls, faults, failures>>

\* What a request holds: user, sessionId, form of the number, selected option (0
\* for an offer), an amount (eligible, then selected), the number drawn for a new
\* loan, and the loan it will answer with, in the status it was loaded with.
Req(u, sid, form, opt, a, n, l, st) ==
    [u |-> u, sid |-> sid, form |-> form, opt |-> opt, a |-> a, n |-> n, l |-> l, st |-> st]

-----------------------------------------------------------------------------
\* Keys and queries.

Rows == {l \in Loans : loan[l] # NoRow}
LoansOf(u) == {l \in Rows : loan[l].user = u}

\* The session is looked up under the normalised number ...
OfferKey(q) == IF q.sid = NoSid THEN <<q.u, "local">> ELSE q.sid

\* ... but the loan is filed under the number as it was sent.
LoanKey(q) == IF q.sid = NoSid THEN <<q.u, q.form>> ELSE q.sid

lockKey(q) == <<q.u, LoanKey(q)>>

SameKey(l, q) ==
    loan[l].user = q.u /\ loan[l].skey = LoanKey(q) /\ loan[l].amount = q.a

\* The idempotency:<key> entry in Redis, when it is still there, points to the
\* loan the metadata query finds: it makes the lookup faster, not different.
findLoanByIdempotencyKey(q) == {l \in Rows : SameKey(l, q)}

findRecentLoan(u) ==
    {l \in LoansOf(u) : loan[l].recent /\ loan[l].status \in {"APPROVED", "DISBURSED"}}

\* Debt by status: the quote subtracts approved loans, the credit limit does not.
Owed(u, statuses) ==
    MapThenSumSet(LAMBDA l : loan[l].amount, {l \in LoansOf(u) : loan[l].status \in statuses})

eligibleAmount(u) ==
    LET left == BaseAmount - Owed(u, {"APPROVED", "DISBURSED"})
    IN  IF left > 0 THEN left ELSE 0

\* Half, three quarters and all of it, rounded as Math.round does, without
\* repetition.  (The third band is never above the eligible amount.)
buildOfferBands(e) ==
    {a \in {(e + 1) \div 2, (3 * e + 2) \div 4, e} : a > 0}

\* The amounts an option stands for: none or one, the k-th smallest.
resolveAmount(e, k) ==
    {a \in buildOfferBands(e) : Cardinality({b \in buildOfferBands(e) : b < a}) = k - 1}

generateLoanId == Cardinality(Rows) + 1

-----------------------------------------------------------------------------
\* Control.

At(c, p, q) == pc' = [pc EXCEPT ![c] = p] /\ req' = [req EXCEPT ![c] = q]

Idle == Req(NoLoan, NoSid, "local", 0, 0, 0, NoLoan, "none")

Finish(c) == At(c, "idle", Idle)

\* The same request goes on at p: with amount a and number n ...
Goto(c, p, a, n) ==
    At(c, p, Req(req[c].u, req[c].sid, req[c].form, req[c].opt, a, n, NoLoan, "none"))

\* ... or with its loan, a copy of which has status st.
Holding(c, p, l, st) ==
    At(c, p, Req(req[c].u, req[c].sid, req[c].form, req[c].opt, req[c].a, 0, l, st))

Request(c) == pc[c] = "idle" /\ calls < MaxCalls /\ calls' = calls + 1

Usable(k, u) ==
    session[k] # NoSession /\ session[k].user = u /\ session[k].form = "local"

-----------------------------------------------------------------------------
\* ussd-loans.service.ts, handleLoanOffer and handleLoanApprove.

handleLoanOffer(c, u, sid, form) ==
    /\ Request(c)
    /\ At(c, "quote", Req(u, sid, form, 0, 0, 0, NoLoan, "none"))
    /\ UNCHANGED <<loan, session, quote, locked, job, faults, failures>>

\* A session that is missing or has expired, of another user, or stored under
\* another form of the number is computed again.
handleLoanApprove(c, u, sid, form, opt) ==
    LET q == Req(u, sid, form, opt, 0, 0, NoLoan, "none")
        k == OfferKey(q)
    IN  /\ Request(c)
        /\ \/ At(c, "quote", q)
           \/ /\ Usable(k, u)
              /\ \E a \in resolveAmount(session[k].eligible, opt) :
                    At(c, "lookup", Req(u, sid, form, opt, a, 0, NoLoan, "none"))
        /\ UNCHANGED <<loan, session, quote, locked, job, faults, failures>>

\* credit-score.service.ts: the eligible amount of the last hour, or a new one.
\* An offer of nothing is answered at once; an approval stores the session anyway.
calculateEligibleLoanAmount(c) ==
    LET u == req[c].u
    IN  /\ pc[c] = "quote"
        /\ \E e \in {eligibleAmount(u)} \union ({quote[u]} \ {NoQuote}) :
              /\ quote' = [quote EXCEPT ![u] = e]
              /\ IF e = 0 /\ req[c].opt = 0 THEN Finish(c) ELSE Goto(c, "session", e, 0)
        /\ UNCHANGED <<loan, session, locked, job, calls, faults, failures>>

\* An offer keeps the number as it was sent, an approval the one on record.
saveOfferSession(c) ==
    LET q == req[c]
        chosen == resolveAmount(q.a, q.opt)
    IN  /\ pc[c] = "session"
        /\ session' = [session EXCEPT ![OfferKey(q)] =
              [user |-> q.u, form |-> IF q.opt = 0 THEN q.form ELSE "local",
               eligible |-> q.a]]
        /\ \/ (q.opt = 0 \/ chosen = {}) /\ Finish(c)
           \/ q.opt # 0 /\ \E a \in chosen : Goto(c, "lookup", a, 0)
        /\ UNCHANGED <<loan, quote, locked, job, calls, faults, failures>>

-----------------------------------------------------------------------------
\* createOrReuseUssdLoan.

lookup(c) ==
    LET found == findLoanByIdempotencyKey(req[c])
    IN  /\ pc[c] = "lookup"
        /\ \/ found = {} /\ Goto(c, "cooldown", req[c].a, 0)
           \/ \E l \in found : Holding(c, "enqueue", l, loan[l].status)
        /\ UNCHANGED <<loan, session, quote, locked, job, calls, faults, failures>>

\* A recent loan of the same number: refused.
cooldown(c) ==
    /\ pc[c] = "cooldown"
    /\ \/ findRecentLoan(req[c].u) # {} /\ Finish(c)
       \/ findRecentLoan(req[c].u) = {} /\ Goto(c, "lock", req[c].a, 0)
    /\ UNCHANGED <<loan, session, quote, locked, job, calls, faults, failures>>

Holds(c, k) == pc[c] \in Critical /\ lockKey(req[c]) = k

\* SET ... NX: refused while the key exists, which it may as long as nobody has
\* deleted it, and does as long as its holder runs.
acquireLock(c) ==
    LET k == lockKey(req[c])
    IN  /\ pc[c] = "lock"
        /\ \/ /\ k \in locked
              /\ Finish(c)
              /\ UNCHANGED locked
           \/ /\ k \notin locked \/ \A d \in Calls : ~Holds(d, k)
              /\ locked' = locked \union {k}
              /\ Goto(c, "check", req[c].a, 0)
        /\ UNCHANGED <<loan, session, quote, job, calls, faults, failures>>

\* mutant: the second lookup is dropped.
doubleCheck_once(c) ==
    LET a == req[c].a
        fits == Owed(req[c].u, {"DISBURSED"}) + a <= CreditLimit
    IN  /\ pc[c] = "check"
        /\ \/ ~fits /\ Goto(c, "unlock", a, 0)
           \/ fits /\ Goto(c, "number", a, 0)
        /\ UNCHANGED <<loan, session, quote, locked, job, calls, faults, failures>>

\* mutant: the credit limit is checked outside the try block.
doubleCheck_leak(c) ==
    LET found == findLoanByIdempotencyKey(req[c])
        a == req[c].a
        fits == Owed(req[c].u, {"DISBURSED"}) + a <= CreditLimit
    IN  /\ pc[c] = "check"
        /\ \/ \E l \in found : Holding(c, "unlock", l, loan[l].status)
           \/ found = {} /\ ~fits /\ Finish(c)
           \/ found = {} /\ fits /\ Goto(c, "number", a, 0)
        /\ UNCHANGED <<loan, session, quote, locked, job, calls, faults, failures>>

\* The second lookup, then the credit limit.
doubleCheck(c) ==
    LET found == findLoanByIdempotencyKey(req[c])
        a == req[c].a
        fits == Owed(req[c].u, {"DISBURSED"}) + a <= CreditLimit
    IN  /\ pc[c] = "check"
        /\ \/ \E l \in found : Holding(c, "unlock", l, loan[l].status)
           \/ found = {} /\ ~fits /\ Goto(c, "unlock", a, 0)
           \/ found = {} /\ fits /\ Goto(c, "number", a, 0)
        /\ UNCHANGED <<loan, session, quote, locked, job, calls, faults, failures>>

drawNumber(c) ==
    /\ pc[c] = "number"
    /\ Goto(c, "insert", req[c].a, generateLoanId)
    /\ UNCHANGED <<loan, session, quote, locked, job, calls, faults, failures>>

\* A number another server has taken since violates the unique index.  Otherwise
\* the row goes in under the next free key (and its idempotency entry in Redis).
insertLoan(c) ==
    LET q == req[c]
    IN  /\ pc[c] = "insert"
        /\ \/ /\ \E l \in Rows : loan[l].number = q.n
              /\ Goto(c, "unlock", q.a, 0)
              /\ UNCHANGED loan
           \/ /\ \A l \in Rows : loan[l].number # q.n
              /\ Rows # Loans
              /\ LET l == CHOOSE k \in Loans : loan[k] = NoRow
                 IN /\ loan' = [loan EXCEPT ![l] =
                          [number |-> q.n, user |-> q.u, skey |-> LoanKey(q),
                           amount |-> q.a, status |-> "APPROVED", recent |-> TRUE]]
                    /\ Holding(c, "unlock", l, "APPROVED")
        /\ UNCHANGED <<session, quote, locked, job, calls, faults, failures>>

\* DEL, in the finally block: whoever holds the key by then.
releaseLock(c) ==
    /\ pc[c] = "unlock"
    /\ \/ locked' = locked \ {lockKey(req[c])} /\ UNCHANGED faults
       \/ faults < MaxFaults /\ faults' = faults + 1 /\ UNCHANGED locked
    /\ IF req[c].l = NoLoan THEN Finish(c)
       ELSE Holding(c, "enqueue", req[c].l, req[c].st)
    /\ UNCHANGED <<loan, session, quote, job, calls, failures>>

-----------------------------------------------------------------------------
\* loan-disburse-queue.service.ts and loan-disburse.processor.ts.

NewJob(l) == [loan |-> l, at |-> "wait", failed |-> 0, stalled |-> 0, was |-> FALSE]

\* Queue.add, on the next free key.
addJob(l) ==
    /\ \E j \in Jobs : job[j] = NoJob
    /\ job' = [job EXCEPT ![CHOOSE j \in Jobs : job[j] = NoJob] = NewJob(l)]

\* A loan not disbursed when it was loaded is queued, a reused one again.  A
\* failure of the queue is logged, and the request answers "processing".
enqueue(c) ==
    /\ pc[c] = "enqueue"
    /\ \/ req[c].st = "DISBURSED" /\ UNCHANGED <<job, faults>>
       \/ /\ req[c].st # "DISBURSED"
          /\ addJob(req[c].l)
          /\ UNCHANGED faults
       \/ /\ req[c].st # "DISBURSED"
          /\ faults < MaxFaults /\ faults' = faults + 1
          /\ UNCHANGED job
    /\ Finish(c)
    /\ UNCHANGED <<loan, session, quote, locked, calls, failures>>

\* The job goes on at p, was saying whether it found the loan disbursed.
JobAt(j, p, was) ==
    job' = [job EXCEPT ![j] = [loan |-> job[j].loan, at |-> p, failed |-> job[j].failed,
                               stalled |-> job[j].stalled, was |-> was]]

Running == {j \in Jobs : job[j] # NoJob /\ job[j].at \in {"disburse", "save", "invalidate"}}

\* A worker takes the job and looks at the loan.
process(j) ==
    /\ job[j] # NoJob /\ job[j].at = "wait"
    /\ Cardinality(Running) < Concurrency
    /\ JobAt(j, "disburse", loan[job[j].loan].status = "DISBURSED")
    /\ UNCHANGED <<loan, session, quote, locked, pc, req, calls, faults, failures>>

\* mutant: the first failure is the last.
FailAttempt_final(j, failed, stalled) ==
    job' = [job EXCEPT ![j] = [loan |-> job[j].loan, at |-> "failed", failed |-> failed,
                               stalled |-> stalled, was |-> FALSE]]

\* The job waits for its next attempt, or is kept as failed.
FailAttempt(j, failed, stalled) ==
    job' = [job EXCEPT ![j] =
        [loan |-> job[j].loan,
         at |-> IF failed < Attempts /\ stalled <= MaxStalled THEN "wait" ELSE "failed",
         failed |-> failed, stalled |-> stalled, was |-> FALSE]]

\* loansService.disburse: loads the loan again.  One disbursed already is a
\* success, one that is not approved an error.
disburse(j) ==
    /\ job[j] # NoJob /\ job[j].at = "disburse"
    /\ job[j].loan \in Rows
    /\ LET status == loan[job[j].loan].status
       IN  \/ status = "DISBURSED" /\ JobAt(j, "invalidate", job[j].was)
           \/ status = "APPROVED" /\ JobAt(j, "save", job[j].was)
           \/ status = "COMPLETED" /\ FailAttempt(j, job[j].failed + 1, job[j].stalled)
    /\ UNCHANGED <<loan, session, quote, locked, pc, req, calls, faults, failures>>

WithStatus(l, status) ==
    [loan EXCEPT ![l] = [number |-> loan[l].number, user |-> loan[l].user,
                         skey |-> loan[l].skey, amount |-> loan[l].amount,
                         status |-> status, recent |-> loan[l].recent]]

\* The copy is saved, whatever the row has become (nothing here deletes it).
disburseSave(j) ==
    /\ job[j] # NoJob /\ job[j].at = "save"
    /\ job[j].loan \in Rows
    /\ loan' = WithStatus(job[j].loan, "DISBURSED")
    /\ JobAt(j, "invalidate", job[j].was)
    /\ UNCHANGED <<session, quote, locked, pc, req, calls, faults, failures>>

\* The session is dropped by the job that disbursed the loan, and by no retry
\* that finds it disbursed.
invalidateSession(j) ==
    /\ job[j] # NoJob /\ job[j].at = "invalidate"
    /\ session' = IF job[j].was THEN session
                  ELSE [session EXCEPT ![loan[job[j].loan].skey] = NoSession]
    /\ job' = [job EXCEPT ![j] = NoJob]
    /\ UNCHANGED <<loan, quote, locked, pc, req, calls, faults, failures>>

\* An attempt throws, or its worker dies and BullMQ finds the job stalled.
jobFails(j) ==
    /\ j \in Running /\ failures < MaxFailures /\ failures' = failures + 1
    /\ \/ FailAttempt(j, job[j].failed + 1, job[j].stalled)
       \/ FailAttempt(j, job[j].failed, job[j].stalled + 1)
    /\ UNCHANGED <<loan, session, quote, locked, pc, req, calls, faults>>

-----------------------------------------------------------------------------
\* The environment.

\* The process dies under the request: the lock stays.
Crash(c) ==
    /\ pc[c] # "idle" /\ faults < MaxFaults /\ faults' = faults + 1
    /\ Finish(c)
    /\ UNCHANGED <<loan, session, quote, locked, job, calls, failures>>

\* Two hours pass.
cooldownEnds(l) ==
    /\ l \in Rows /\ loan[l].recent
    /\ loan' = [loan EXCEPT ![l] = [number |-> loan[l].number, user |-> loan[l].user,
                                    skey |-> loan[l].skey, amount |-> loan[l].amount,
                                    status |-> loan[l].status, recent |-> FALSE]]
    /\ UNCHANGED <<session, quote, locked, pc, req, job, calls, faults, failures>>

\* The loan is repaid (LoanBook), and the award drops the cached eligible amount.
repaid(l) ==
    /\ l \in Rows /\ loan[l].status = "DISBURSED"
    /\ loan' = WithStatus(l, "COMPLETED")
    /\ quote' = [quote EXCEPT ![loan[l].user] = NoQuote]
    /\ UNCHANGED <<session, locked, pc, req, job, calls, faults, failures>>

-----------------------------------------------------------------------------
Init ==
    /\ loan = [l \in Loans |-> NoRow]
    /\ session = [k \in SessionKeys |-> NoSession]
    /\ quote = [u \in Users |-> NoQuote]
    /\ locked = {}
    /\ pc = [c \in Calls |-> "idle"] /\ req = [c \in Calls |-> Idle]
    /\ job = [j \in Jobs |-> NoJob]
    /\ calls = 0 /\ faults = 0 /\ failures = 0

Arrive(c) ==
    \E u \in Users, ch \in Channels :
        \/ handleLoanOffer(c, u, ch[1], ch[2])
        \/ \E opt \in Options : handleLoanApprove(c, u, ch[1], ch[2], opt)

Step(c) ==
    \/ calculateEligibleLoanAmount(c) \/ saveOfferSession(c)
    \/ lookup(c) \/ cooldown(c) \/ acquireLock(c) \/ doubleCheck(c)
    \/ drawNumber(c) \/ insertLoan(c) \/ releaseLock(c) \/ enqueue(c)

Work(j) == process(j) \/ disburse(j) \/ disburseSave(j) \/ invalidateSession(j)

Next ==
    \/ \E c \in Calls : Arrive(c) \/ Step(c) \/ Crash(c)
    \/ \E j \in Jobs : Work(j) \/ jobFails(j)
    \/ \E l \in Loans : cooldownEnds(l) \/ repaid(l)

Spec == Init /\ [][Next]_vars

\* A handler runs on until it answers, and a worker serves its job; nobody has
\* to call, and nothing has to expire.
FairSpec ==
    /\ Spec
    /\ \A c \in Calls : WF_vars(Step(c))
    /\ \A j \in Jobs : WF_vars(Work(j))

-----------------------------------------------------------------------------
\* Properties.

\* Tables, Redis keys and the queue hold what they can hold; no offer is negative
\* and no job has more attempts than it is given.
TypeOK ==
    /\ loan \in [Loans -> LoanRow \union {NoRow}]
    /\ session \in [SessionKeys -> OfferSession \union {NoSession}]
    /\ quote \in [Users -> Nat \union {NoQuote}]
    /\ locked \subseteq Users \X SessionKeys
    /\ pc \in [Calls -> PCs]
    /\ \A c \in Calls : pc[c] # "idle" =>
          /\ req[c].u \in Users /\ req[c].sid \in Sids \union {NoSid}
          /\ req[c].form \in Forms /\ req[c].a \in Nat /\ req[c].n \in Nat
          /\ req[c].l \in Rows \union {NoLoan}
    /\ \A j \in Jobs : job[j] # NoJob => job[j].loan \in Rows /\ job[j].failed <= Attempts
    /\ calls \in 0..MaxCalls /\ faults \in 0..MaxFaults /\ failures \in 0..MaxFailures

\* However often an approval is repeated, by whichever server, wherever a request
\* dies and whatever Redis has forgotten, one user, session and amount make one
\* loan.
OneLoanPerKey ==
    \A l, k \in Rows :
        /\ loan[l].user = loan[k].user /\ loan[l].skey = loan[k].skey
        /\ loan[l].amount = loan[k].amount
        => l = k

\* No path through the handler leaves the lock behind: unless a process died or
\* Redis failed, every lock belongs to a request that is still running.
LocksOwned ==
    faults = 0 => \A k \in locked : \E c \in Calls : Holds(c, k)

Queued(l) ==
    l \in Rows /\ \E j \in Jobs :
        job[j] # NoJob /\ job[j].loan = l /\ job[j].at # "failed"

\* With fewer failures than attempts, a queued loan is disbursed in the end, even
\* when several jobs of the same loan overlap.
QueuedDisbursed ==
    \A l \in Loans : (Queued(l) /\ loan[l].status = "APPROVED") ~>
                          (l \in Rows /\ loan[l].status # "APPROVED")

====
