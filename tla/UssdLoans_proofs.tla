-------------------------- MODULE UssdLoans_proofs --------------------------
(***************************************************************************)
(* OneLoanPerKey and LocksOwned hold in every behaviour of UssdLoans, for  *)
(* any number of users, sessions, requests, jobs and failures.             *)
(*                                                                         *)
(* OneLoanPerKey is not inductive by itself: between the second lookup and *)
(* the insertion a request relies on what it saw.  What protects it is the *)
(* lock: requests inside the critical section hold their lock, no two of   *)
(* them hold the same one, and so what one of them saw stays true.  The    *)
(* lock is per user and session, the key also has the amount; requests     *)
(* with the same key therefore always share the lock.                      *)
(*                                                                         *)
(* The last part proves the types.  They need that the eligible amount,    *)
(* from which a sum over the user's loans is subtracted, is a number, and  *)
(* so that the sum exists for every finite table.                          *)
(***************************************************************************)
EXTENDS UssdLoans, FiniteSetTheorems, WellFoundedInduction, TLAPS

Domains ==
    /\ DOMAIN pc = Calls /\ DOMAIN req = Calls /\ DOMAIN loan = Loans
    /\ faults \in Nat

\* A request inside the critical section holds its lock ...
HoldersLocked == \A c \in Calls : pc[c] \in Critical => lockKey(req[c]) \in locked

\* ... and no other request inside holds the same one.
Exclusive ==
    \A c, d \in Calls :
        pc[c] \in Critical /\ pc[d] \in Critical /\ lockKey(req[c]) = lockKey(req[d])
            => c = d

\* What the second lookup found is still so when the loan is inserted.
StillNone ==
    \A c \in Calls : pc[c] \in {"number", "insert"} =>
        \A l \in Loans : loan[l] # NoRow => ~SameKey(l, req[c])

UssdInv == Domains /\ HoldersLocked /\ Exclusive /\ StillNone /\ OneLoanPerKey /\ LocksOwned

\* The step is of request c: the others stay where they are.
Moves(c) ==
    /\ DOMAIN pc' = Calls /\ DOMAIN req' = Calls
    /\ \A d \in Calls : d # c => pc'[d] = pc[d] /\ req'[d] = req[d]

\* At moves its request only.
LEMMA AtMoves ==
    ASSUME UssdInv, NEW c \in Calls, NEW p, NEW q, At(c, p, q)
    PROVE  Moves(c) /\ pc'[c] = p /\ req'[c] = q
BY DEF UssdInv, Domains, At, Moves

\* A request that goes on keeps its lock key.
LEMMA GotoMoves ==
    ASSUME UssdInv, NEW c \in Calls, NEW p, NEW a, NEW n, Goto(c, p, a, n)
    PROVE  /\ Moves(c) /\ pc'[c] = p
           /\ lockKey(req'[c]) = lockKey(req[c]) /\ LoanKey(req'[c]) = LoanKey(req[c])
           /\ req'[c].u = req[c].u /\ req'[c].a = a /\ req'[c].l = NoLoan
<1>1. /\ Moves(c) /\ pc'[c] = p
      /\ req'[c] = Req(req[c].u, req[c].sid, req[c].form, req[c].opt, a, n, NoLoan, "none")
    BY AtMoves DEF Goto
<1> QED
    BY <1>1 DEF Req, lockKey, LoanKey

\* So does one that carries its loan on.
LEMMA HoldingMoves ==
    ASSUME UssdInv, NEW c \in Calls, NEW p, NEW l, NEW st, Holding(c, p, l, st)
    PROVE  Moves(c) /\ pc'[c] = p /\ lockKey(req'[c]) = lockKey(req[c])
<1>1. /\ Moves(c) /\ pc'[c] = p
      /\ req'[c] = Req(req[c].u, req[c].sid, req[c].form, req[c].opt, req[c].a, 0, l, st)
    BY AtMoves DEF Holding
<1> QED
    BY <1>1 DEF Req, lockKey, LoanKey

\* The invariant in the initial states.
LEMMA InitUssd == Init => UssdInv
<1> SUFFICES ASSUME Init PROVE UssdInv
    OBVIOUS
<1>1. \A c \in Calls : pc[c] = "idle"
    BY DEF Init
<1>2. Rows = {}
    BY DEF Init, Rows
<1>3. Domains
    BY DEF Init, Domains
<1>4. HoldersLocked /\ Exclusive /\ StillNone
    BY <1>1 DEF HoldersLocked, Exclusive, StillNone, Critical
<1>5. OneLoanPerKey /\ LocksOwned
    BY <1>2 DEF OneLoanPerKey, LocksOwned, Init
<1> QED
    BY <1>3, <1>4, <1>5 DEF UssdInv

\* Steps outside the critical section that write neither loans nor locks.
LEMMA OutsideKeeps ==
    ASSUME UssdInv, NEW c \in Calls, Moves(c), UNCHANGED <<loan, locked>>,
           faults' \in Nat, faults' = 0 => faults = 0,
           pc[c] \notin Critical, pc'[c] \notin Critical
    PROVE  UssdInv'
<1>1. Domains'
    BY DEF UssdInv, Domains, Moves
<1>2. HoldersLocked' /\ Exclusive'
    BY DEF UssdInv, HoldersLocked, Exclusive, Moves
<1>3. StillNone'
    BY DEF UssdInv, StillNone, Moves, Critical, SameKey
<1>4. OneLoanPerKey'
    BY DEF UssdInv, OneLoanPerKey, Rows
<1>5. LocksOwned'
    BY DEF UssdInv, LocksOwned, Holds, Moves
<1> QED
    BY <1>1, <1>2, <1>3, <1>4, <1>5 DEF UssdInv

\* Steps inside the critical section that write neither loans nor locks.
LEMMA InsideKeeps ==
    ASSUME UssdInv, NEW c \in Calls, Moves(c), UNCHANGED <<loan, locked, faults>>,
           pc[c] \in Critical, pc'[c] \in Critical, lockKey(req'[c]) = lockKey(req[c]),
           pc'[c] \in {"number", "insert"} =>
               \A l \in Loans : loan[l] # NoRow => ~SameKey(l, req'[c])
    PROVE  UssdInv'
<1>1. Domains'
    BY DEF UssdInv, Domains, Moves
<1>2. HoldersLocked'
    BY DEF UssdInv, HoldersLocked, Moves
<1>3. Exclusive'
    BY DEF UssdInv, Exclusive, Moves
<1>4. StillNone'
    BY DEF UssdInv, StillNone, Moves, SameKey
<1>5. OneLoanPerKey'
    BY DEF UssdInv, OneLoanPerKey, Rows
<1>6. LocksOwned'
    BY DEF UssdInv, LocksOwned, Holds, Moves
<1> QED
    BY <1>1, <1>2, <1>3, <1>4, <1>5, <1>6 DEF UssdInv

\* Steps of the workers and of the rest of the system: no loan changes its key.
LEMMA LoansKeep ==
    ASSUME UssdInv, UNCHANGED <<pc, req, locked, faults>>, DOMAIN loan' = Loans,
           \A l \in Loans : loan'[l] # NoRow =>
               /\ loan[l] # NoRow
               /\ loan'[l].user = loan[l].user /\ loan'[l].skey = loan[l].skey
               /\ loan'[l].amount = loan[l].amount
    PROVE  UssdInv'
<1>1. Domains' /\ HoldersLocked' /\ Exclusive'
    BY DEF UssdInv, Domains, HoldersLocked, Exclusive
<1>2. StillNone'
    BY DEF UssdInv, StillNone, SameKey
<1>3. OneLoanPerKey'
    BY DEF UssdInv, OneLoanPerKey, Rows
<1>4. LocksOwned'
    BY DEF UssdInv, LocksOwned, Holds
<1> QED
    BY <1>1, <1>2, <1>3, <1>4 DEF UssdInv

\* Requests arrive, and ask for the eligible amount.
LEMMA ArriveKeeps ==
    ASSUME UssdInv, NEW c \in Calls, Arrive(c)
    PROVE  UssdInv'
<1>1. /\ pc[c] = "idle" /\ UNCHANGED <<loan, locked, faults>>
      /\ \E p \in {"quote", "lookup"} : \E q : At(c, p, q)
    BY DEF Arrive, handleLoanOffer, handleLoanApprove, Request
<1>2. Moves(c) /\ pc'[c] \in {"quote", "lookup"}
    BY <1>1, AtMoves
<1>3. faults \in Nat
    BY DEF UssdInv, Domains
<1> QED
    BY <1>1, <1>2, <1>3, OutsideKeeps DEF Critical

\* The steps before the lock and after it.
LEMMA OutsideStepsKeep ==
    ASSUME UssdInv, NEW c \in Calls,
           \/ calculateEligibleLoanAmount(c) \/ saveOfferSession(c)
           \/ lookup(c) \/ cooldown(c) \/ enqueue(c)
    PROVE  UssdInv'
<1>1. /\ pc[c] \in {"quote", "session", "lookup", "cooldown", "enqueue"}
      /\ UNCHANGED <<loan, locked>> /\ (faults' = faults \/ faults' = faults + 1)
    BY DEF calculateEligibleLoanAmount, saveOfferSession, lookup, cooldown, enqueue
<1>2. \E p \in {"idle", "session", "lookup", "cooldown", "enqueue", "lock"} : \E q : At(c, p, q)
    BY DEF calculateEligibleLoanAmount, saveOfferSession, lookup, cooldown, enqueue,
           Finish, Goto, Holding
<1>3. Moves(c) /\ pc'[c] \in {"idle", "session", "lookup", "cooldown", "enqueue", "lock"}
    BY <1>2, AtMoves
<1>4. faults \in Nat
    BY DEF UssdInv, Domains
<1>5. faults' \in Nat /\ (faults' = 0 => faults = 0)
    BY <1>1, <1>4
<1>6. pc[c] \notin Critical /\ pc'[c] \notin Critical
    BY <1>1, <1>3 DEF Critical
<1> QED
    BY <1>1, <1>3, <1>5, <1>6, OutsideKeeps

\* SET NX succeeds only when nobody inside holds the lock.
LEMMA AcquireKeeps ==
    ASSUME UssdInv, NEW c \in Calls, acquireLock(c)
    PROVE  UssdInv'
<1> DEFINE k == lockKey(req[c])
<1>0. pc[c] = "lock" /\ UNCHANGED <<loan, faults>> /\ faults \in Nat
    BY DEF acquireLock, UssdInv, Domains
<1>1. CASE Finish(c) /\ UNCHANGED locked
    <2>1. Moves(c) /\ pc'[c] = "idle"
        BY <1>1, AtMoves DEF Finish
    <2> QED
        BY <1>0, <1>1, <2>1, OutsideKeeps DEF Critical
<1>2. CASE /\ k \notin locked \/ \A d \in Calls : ~Holds(d, k)
           /\ locked' = locked \union {k}
           /\ Goto(c, "check", req[c].a, 0)
    <2>1. Moves(c) /\ pc'[c] = "check" /\ lockKey(req'[c]) = k
        BY <1>2, GotoMoves
    <2>2. \A d \in Calls : ~Holds(d, k)
        BY <1>2 DEF UssdInv, HoldersLocked, Holds
    <2>3. Domains'
        BY <1>0, <2>1 DEF UssdInv, Domains, Moves
    <2>4. HoldersLocked'
        BY <1>2, <2>1 DEF UssdInv, HoldersLocked, Moves
    <2>5. Exclusive'
        BY <2>1, <2>2 DEF UssdInv, Exclusive, Moves, Holds
    <2>6. StillNone'
        BY <1>0, <2>1 DEF UssdInv, StillNone, Moves, SameKey
    <2>7. OneLoanPerKey'
        BY <1>0 DEF UssdInv, OneLoanPerKey, Rows
    <2>8. LocksOwned'
        BY <1>0, <1>2, <2>1 DEF UssdInv, LocksOwned, Holds, Moves, Critical
    <2> QED
        BY <2>3, <2>4, <2>5, <2>6, <2>7, <2>8 DEF UssdInv
<1> QED
    BY <1>1, <1>2 DEF acquireLock

\* The second lookup establishes StillNone for its request.
LEMMA DoubleCheckKeeps ==
    ASSUME UssdInv, NEW c \in Calls, doubleCheck(c)
    PROVE  UssdInv'
<1>0. pc[c] = "check" /\ UNCHANGED <<loan, locked, faults>>
    BY DEF doubleCheck
<1>1. CASE \E l, st : Holding(c, "unlock", l, st)
    <2>1. Moves(c) /\ pc'[c] = "unlock" /\ lockKey(req'[c]) = lockKey(req[c])
        BY <1>1, HoldingMoves
    <2> QED
        BY <1>0, <2>1, InsideKeeps DEF Critical
<1>2. CASE Goto(c, "unlock", req[c].a, 0)
    <2>1. Moves(c) /\ pc'[c] = "unlock" /\ lockKey(req'[c]) = lockKey(req[c])
        BY <1>2, GotoMoves
    <2> QED
        BY <1>0, <2>1, InsideKeeps DEF Critical
<1>3. CASE Goto(c, "number", req[c].a, 0) /\ findLoanByIdempotencyKey(req[c]) = {}
    <2>1. /\ Moves(c) /\ pc'[c] = "number" /\ lockKey(req'[c]) = lockKey(req[c])
          /\ LoanKey(req'[c]) = LoanKey(req[c])
          /\ req'[c].u = req[c].u /\ req'[c].a = req[c].a
        BY <1>3, GotoMoves
    <2>2. \A l \in Loans : loan[l] # NoRow => ~SameKey(l, req'[c])
        BY <1>3, <2>1 DEF findLoanByIdempotencyKey, Rows, SameKey
    <2> QED
        BY <1>0, <2>1, <2>2, InsideKeeps DEF Critical
<1> QED
    BY <1>1, <1>2, <1>3 DEF doubleCheck

\* Drawing a number changes nothing else.
LEMMA DrawNumberKeeps ==
    ASSUME UssdInv, NEW c \in Calls, drawNumber(c)
    PROVE  UssdInv'
<1>1. /\ pc[c] = "number" /\ UNCHANGED <<loan, locked, faults>>
      /\ Moves(c) /\ pc'[c] = "insert" /\ lockKey(req'[c]) = lockKey(req[c])
      /\ LoanKey(req'[c]) = LoanKey(req[c])
      /\ req'[c].u = req[c].u /\ req'[c].a = req[c].a
    BY GotoMoves DEF drawNumber
<1>2. \A l \in Loans : loan[l] # NoRow => ~SameKey(l, req'[c])
    BY <1>1 DEF UssdInv, StillNone, SameKey
<1> QED
    BY <1>1, <1>2, InsideKeeps DEF Critical

\* The new loan is the only one with its key, and no other request inside the
\* critical section is about to insert the same key: it would hold the same lock.
LEMMA InsertKeeps ==
    ASSUME UssdInv, NEW c \in Calls, insertLoan(c)
    PROVE  UssdInv'
<1> DEFINE q == req[c]
<1>0. pc[c] = "insert" /\ UNCHANGED <<locked, faults>>
    BY DEF insertLoan
<1>1. CASE Goto(c, "unlock", q.a, 0) /\ UNCHANGED loan
    <2>1. Moves(c) /\ pc'[c] = "unlock" /\ lockKey(req'[c]) = lockKey(q)
        BY <1>1, GotoMoves
    <2> QED
        BY <1>0, <1>1, <2>1, InsideKeeps DEF Critical
<1>2. CASE \E l \in Loans :
              /\ loan[l] = NoRow
              /\ loan' = [loan EXCEPT ![l] =
                    [number |-> q.n, user |-> q.u, skey |-> LoanKey(q),
                     amount |-> q.a, status |-> "APPROVED", recent |-> TRUE]]
              /\ Holding(c, "unlock", l, "APPROVED")
    <2>1. PICK l \in Loans :
              /\ loan[l] = NoRow
              /\ loan' = [loan EXCEPT ![l] =
                    [number |-> q.n, user |-> q.u, skey |-> LoanKey(q),
                     amount |-> q.a, status |-> "APPROVED", recent |-> TRUE]]
              /\ Holding(c, "unlock", l, "APPROVED")
        BY <1>2
    <2>2. Moves(c) /\ pc'[c] = "unlock" /\ lockKey(req'[c]) = lockKey(q)
        BY <2>1, HoldingMoves
    <2>3. /\ DOMAIN loan' = Loans
          /\ loan'[l].user = q.u /\ loan'[l].skey = LoanKey(q) /\ loan'[l].amount = q.a
          /\ \A k \in Loans : k # l => loan'[k] = loan[k]
        BY <2>1 DEF UssdInv, Domains
    <2>4. Domains'
        BY <1>0, <2>2, <2>3 DEF UssdInv, Domains, Moves
    <2>5. HoldersLocked' /\ Exclusive'
        BY <1>0, <2>2 DEF UssdInv, HoldersLocked, Exclusive, Moves, Critical
    <2>6. StillNone'
        <3> SUFFICES ASSUME NEW d \in Calls, pc'[d] \in {"number", "insert"},
                            NEW k \in Loans, loan'[k] # NoRow, SameKey(k, req[d])'
                     PROVE  FALSE
            BY DEF StillNone
        <3>1. d # c /\ pc[d] \in {"number", "insert"} /\ req'[d] = req[d]
            BY <2>2 DEF Moves
        <3>2. CASE k # l
            BY <2>3, <3>1, <3>2 DEF UssdInv, StillNone, SameKey
        <3>3. CASE k = l
            <4>1. req[d].u = q.u /\ LoanKey(req[d]) = LoanKey(q)
                BY <2>3, <3>1, <3>3 DEF SameKey
            <4>2. lockKey(req[d]) = lockKey(q)
                BY <4>1 DEF lockKey
            <4> QED
                BY <1>0, <3>1, <4>2 DEF UssdInv, Exclusive, Critical
        <3> QED
            BY <3>2, <3>3
    <2>7. OneLoanPerKey'
        <3>1. \A k \in Loans : loan[k] # NoRow => ~SameKey(k, q)
            BY <1>0 DEF UssdInv, StillNone
        <3>2. \A k \in Loans : k # l /\ loan'[k] # NoRow =>
                 ~(loan'[k].user = loan'[l].user /\ loan'[k].skey = loan'[l].skey
                     /\ loan'[k].amount = loan'[l].amount)
            BY <2>3, <3>1 DEF SameKey
        <3>3. \A j, k \in Loans : j # l /\ k # l /\ loan'[j] # NoRow /\ loan'[k] # NoRow
                 /\ loan'[j].user = loan'[k].user /\ loan'[j].skey = loan'[k].skey
                 /\ loan'[j].amount = loan'[k].amount => j = k
            BY <2>3 DEF UssdInv, OneLoanPerKey, Rows
        <3> QED
            BY <3>2, <3>3 DEF OneLoanPerKey, Rows
    <2>8. LocksOwned'
        BY <1>0, <2>2 DEF UssdInv, LocksOwned, Holds, Moves, Critical
    <2> QED
        BY <2>4, <2>5, <2>6, <2>7, <2>8 DEF UssdInv
<1>3. (\E l \in Loans : loan[l] = NoRow) =>
          /\ (CHOOSE k \in Loans : loan[k] = NoRow) \in Loans
          /\ loan[CHOOSE k \in Loans : loan[k] = NoRow] = NoRow
    OBVIOUS
<1> QED
    BY <1>1, <1>2, <1>3 DEF insertLoan, Rows

\* DEL gives up the lock of this request and of no other.
LEMMA ReleaseKeeps ==
    ASSUME UssdInv, NEW c \in Calls, releaseLock(c)
    PROVE  UssdInv'
<1> DEFINE k == lockKey(req[c])
<1>0. pc[c] = "unlock" /\ UNCHANGED loan /\ faults \in Nat
    BY DEF releaseLock, UssdInv, Domains
<1>1. Moves(c) /\ pc'[c] \in {"idle", "enqueue"}
    BY AtMoves, HoldingMoves DEF releaseLock, Finish
<1>2. \/ locked' = locked \ {k} /\ faults' = faults
      \/ locked' = locked /\ faults' = faults + 1
    BY DEF releaseLock
<1>3. \A d \in Calls : d # c /\ pc[d] \in Critical => lockKey(req[d]) # k
    BY <1>0 DEF UssdInv, Exclusive, Critical
<1>4. Domains'
    BY <1>0, <1>1, <1>2 DEF UssdInv, Domains, Moves
<1>5. HoldersLocked'
    BY <1>1, <1>2, <1>3 DEF UssdInv, HoldersLocked, Moves, Critical
<1>6. Exclusive'
    BY <1>1 DEF UssdInv, Exclusive, Moves, Critical
<1>7. StillNone'
    BY <1>0, <1>1 DEF UssdInv, StillNone, Moves, SameKey
<1>8. OneLoanPerKey'
    BY <1>0 DEF UssdInv, OneLoanPerKey, Rows
<1>9. LocksOwned'
    <2>1. CASE faults' = faults + 1
        BY <1>0, <2>1 DEF LocksOwned
    <2>2. CASE locked' = locked \ {k} /\ faults' = faults
        BY <1>1, <2>2 DEF UssdInv, LocksOwned, Holds, Moves
    <2> QED
        BY <1>2, <2>1, <2>2
<1> QED
    BY <1>4, <1>5, <1>6, <1>7, <1>8, <1>9 DEF UssdInv

\* A request that dies leaves its lock, which nobody holds from then on.
LEMMA CrashKeeps ==
    ASSUME UssdInv, NEW c \in Calls, Crash(c)
    PROVE  UssdInv'
<1>1. /\ Moves(c) /\ pc'[c] = "idle" /\ UNCHANGED <<loan, locked>>
      /\ faults' = faults + 1 /\ faults \in Nat
    BY AtMoves DEF Crash, Finish, UssdInv, Domains
<1>2. Domains'
    BY <1>1 DEF UssdInv, Domains, Moves
<1>3. HoldersLocked' /\ Exclusive'
    BY <1>1 DEF UssdInv, HoldersLocked, Exclusive, Moves, Critical
<1>4. StillNone'
    BY <1>1 DEF UssdInv, StillNone, Moves, SameKey
<1>5. OneLoanPerKey'
    BY <1>1 DEF UssdInv, OneLoanPerKey, Rows
<1>6. LocksOwned'
    BY <1>1 DEF LocksOwned
<1> QED
    BY <1>2, <1>3, <1>4, <1>5, <1>6 DEF UssdInv

\* Workers, repayment and the passing of time change no loan's key.
LEMMA EnvironmentKeeps ==
    ASSUME UssdInv,
           \/ \E j \in Jobs : Work(j) \/ jobFails(j)
           \/ \E l \in Loans : cooldownEnds(l) \/ repaid(l)
    PROVE  UssdInv'
<1>1. UNCHANGED <<pc, req, locked, faults>>
    BY DEF Work, process, disburse, disburseSave, invalidateSession, jobFails,
           cooldownEnds, repaid
<1>2. \/ UNCHANGED loan
      \/ \E l \in Rows : \E status, recent :
            loan' = [loan EXCEPT ![l] =
                [number |-> loan[l].number, user |-> loan[l].user, skey |-> loan[l].skey,
                 amount |-> loan[l].amount, status |-> status, recent |-> recent]]
    BY DEF Work, process, disburse, disburseSave, invalidateSession, jobFails,
           cooldownEnds, repaid, WithStatus
<1>3. CASE UNCHANGED loan
    BY <1>1, <1>3, LoansKeep DEF UssdInv, Domains
<1>4. CASE \E l \in Rows : \E status, recent :
              loan' = [loan EXCEPT ![l] =
                  [number |-> loan[l].number, user |-> loan[l].user, skey |-> loan[l].skey,
                   amount |-> loan[l].amount, status |-> status, recent |-> recent]]
    <2>1. PICK l \in Rows : \E status, recent :
              loan' = [loan EXCEPT ![l] =
                  [number |-> loan[l].number, user |-> loan[l].user, skey |-> loan[l].skey,
                   amount |-> loan[l].amount, status |-> status, recent |-> recent]]
        BY <1>4
    <2>2. /\ DOMAIN loan' = Loans /\ l \in Loans /\ loan[l] # NoRow
          /\ \A k \in Loans : k # l => loan'[k] = loan[k]
          /\ loan'[l].user = loan[l].user /\ loan'[l].skey = loan[l].skey
          /\ loan'[l].amount = loan[l].amount
        BY <2>1 DEF UssdInv, Domains, Rows
    <2>3. \A k \in Loans : loan'[k] # NoRow =>
              /\ loan[k] # NoRow
              /\ loan'[k].user = loan[k].user /\ loan'[k].skey = loan[k].skey
              /\ loan'[k].amount = loan[k].amount
        BY <2>2
    <2> QED
        BY <1>1, <2>2, <2>3, LoansKeep
<1> QED
    BY <1>2, <1>3, <1>4

\* The invariant holds in every reachable state.
THEOREM UssdInvariant == Spec => []UssdInv
<1>1. UssdInv /\ [Next]_vars => UssdInv'
    <2> SUFFICES ASSUME UssdInv, [Next]_vars PROVE UssdInv'
        OBVIOUS
    <2>1. CASE UNCHANGED vars
        BY <2>1, LoansKeep DEF vars, UssdInv, Domains
    <2>2. ASSUME NEW c \in Calls, Arrive(c) \/ Step(c) \/ Crash(c) PROVE UssdInv'
        <3>1. CASE Arrive(c)
            BY <3>1, ArriveKeeps
        <3>2. CASE Step(c)
            BY <3>2, OutsideStepsKeep, AcquireKeeps, DoubleCheckKeeps, DrawNumberKeeps,
               InsertKeeps, ReleaseKeeps DEF Step
        <3>3. CASE Crash(c)
            BY <3>3, CrashKeeps
        <3> QED
            BY <2>2, <3>1, <3>2, <3>3
    <2>3. CASE \/ \E j \in Jobs : Work(j) \/ jobFails(j)
               \/ \E l \in Loans : cooldownEnds(l) \/ repaid(l)
        BY <2>3, EnvironmentKeeps
    <2> QED
        BY <2>1, <2>2, <2>3 DEF Next
<1> QED
    BY <1>1, InitUssd, PTL DEF Spec

\* One user, session and amount make one loan, however often, from however many
\* servers and with whatever failures the approval is repeated.
THEOREM OneLoanForEachKey == Spec => []OneLoanPerKey
<1>1. UssdInv => OneLoanPerKey
    BY DEF UssdInv
<1> QED
    BY <1>1, UssdInvariant, PTL

\* As long as no process dies and no Redis command fails, no path through the
\* handler leaves a lock without a request that will release it.
THEOREM EveryLockIsOwned == Spec => []LocksOwned
<1>1. UssdInv => LocksOwned
    BY DEF UssdInv
<1> QED
    BY <1>1, UssdInvariant, PTL

-----------------------------------------------------------------------------
\* Types.  The eligible amount subtracts a sum, which MapThenSumSet takes from a
\* function that has to exist first.

\* g sums w over every subset of S, as MapThenSumSet does.
Sums(g, w, S) ==
    g = [s \in SUBSET S |->
            IF s = {} THEN 0
            ELSE w[CHOOSE x \in s : TRUE] + g[s \ {CHOOSE x \in s : TRUE}]]

\* One more step of the definition of Sums.
LEMMA SumsStep ==
    ASSUME NEW S, NEW w, NEW g, Sums(g, w, S)
    PROVE  /\ g[{}] = 0
           /\ \A s \in SUBSET S : s # {} =>
                 \E x \in s : g[s] = w[x] + g[s \ {x}]
<1> DEFINE F == [s \in SUBSET S |->
                    IF s = {} THEN 0
                    ELSE w[CHOOSE x \in s : TRUE] + g[s \ {CHOOSE x \in s : TRUE}]]
<1>1. g = F
    BY DEF Sums
<1>2. F[{}] = 0
    OBVIOUS
<1>3. ASSUME NEW s \in SUBSET S, s # {}
      PROVE  \E x \in s : F[s] = w[x] + g[s \ {x}]
    <2>1. (CHOOSE x \in s : TRUE) \in s
        BY <1>3
    <2>2. F[s] = w[CHOOSE x \in s : TRUE] + g[s \ {CHOOSE x \in s : TRUE}]
        BY <1>3
    <2> QED
        BY <2>1, <2>2
<1> HIDE DEF F
<1> QED
    BY <1>1, <1>2, <1>3

\* A set of naturals that is not empty has a least element.
LEMMA LeastNatural ==
    ASSUME NEW N \in SUBSET Nat, N # {}
    PROVE  \E n \in N : \A m \in N : n <= m
<1>1. PICK n \in N : \A m \in N : <<m, n>> \notin OpToRel(<, Nat)
    BY WFMin, NatLessThanWellFounded, Zenon
<1>2. \A m \in N : ~(m < n)
    BY <1>1, Zenon DEF OpToRel
<1> QED
    BY <1>2

\* Among finite sets, one of the smallest.
LEMMA SmallestSet ==
    ASSUME NEW C, C # {}, \A s \in C : IsFiniteSet(s)
    PROVE  \E s \in C : \A z \in C : Cardinality(s) <= Cardinality(z)
<1> DEFINE N == {Cardinality(s) : s \in C}
<1>1. N \in SUBSET Nat /\ N # {}
    BY FS_CardinalityType
<1>2. PICK n \in N : \A m \in N : n <= m
    BY <1>1, LeastNatural
<1> QED
    BY <1>2

\* There is such a function for every finite set.
LEMMA SumsExist ==
    ASSUME NEW S, IsFiniteSet(S), NEW w
    PROVE  \E g : Sums(g, w, S)
<1> DEFINE Small(n) == {s \in SUBSET S : Cardinality(s) <= n}
           F(g, n) == [s \in Small(n) |->
                         IF s = {} THEN 0
                         ELSE w[CHOOSE x \in s : TRUE] + g[s \ {CHOOSE x \in s : TRUE}]]
           Reached == {n \in Nat : \E g : g = F(g, n)}
<1>s. \A s \in SUBSET S : IsFiniteSet(s) /\ Cardinality(s) \in Nat
    BY FS_Subset, FS_CardinalityType
<1>1. ASSUME NEW n \in Nat, NEW s \in Small(n), s # {}
      PROVE  LET x == CHOOSE x \in s : TRUE
             IN  /\ s \ {x} \in Small(n) /\ Cardinality(s \ {x}) = Cardinality(s) - 1
                 /\ s \ {x} \in SUBSET S
    <2> DEFINE x == CHOOSE x \in s : TRUE
    <2>1. x \in s
        BY <1>1
    <2>2. IsFiniteSet(s) /\ Cardinality(s) \in Nat /\ s \in SUBSET S /\ Cardinality(s) <= n
        BY <1>s
    <2>3. Cardinality(s \ {x}) = Cardinality(s) - 1
        BY <2>1, <2>2, FS_RemoveElement
    <2>4. s \ {x} \in SUBSET S
        BY <2>2
    <2> HIDE DEF x
    <2>5. s \ {x} \in Small(n)
        BY <2>2, <2>3, <2>4
    <2> QED
        BY <2>3, <2>4, <2>5 DEF x
<1>2. 0 \in Reached
    <2> DEFINE g == [s \in Small(0) |-> 0]
    <2>1. \A s \in Small(0) : s = {}
        BY <1>s, FS_EmptySet
    <2>2. g = F(g, 0)
        BY <2>1
    <2> QED
        BY <2>2
<1>3. ASSUME NEW n \in Nat, n \in Reached
      PROVE  n + 1 \in Reached
    <2>1. PICK g : g = F(g, n)
        BY <1>3
    <2>2. PICK h : h = [s \in Small(n + 1) |->
                            IF s = {} THEN 0
                            ELSE w[CHOOSE x \in s : TRUE] + g[s \ {CHOOSE x \in s : TRUE}]]
        OBVIOUS
    <2>3. ASSUME NEW s \in Small(n)
          PROVE  h[s] = g[s]
        <3>1. s \in Small(n + 1)
            BY <1>s
        <3>2. g[s] = F(g, n)[s]
            BY <2>1
        <3> QED
            BY <2>2, <3>1, <3>2
    <2>4. ASSUME NEW s \in Small(n + 1), s # {}
          PROVE  s \ {CHOOSE x \in s : TRUE} \in Small(n)
        <3> DEFINE x == CHOOSE x \in s : TRUE
        <3>0. n + 1 \in Nat /\ Cardinality(s) <= n + 1 /\ Cardinality(s) \in Nat
            BY <1>s
        <3>1. Cardinality(s \ {x}) = Cardinality(s) - 1 /\ s \ {x} \in SUBSET S
            BY <1>1, <2>4, <3>0
        <3> HIDE DEF x
        <3>2. Cardinality(s \ {x}) <= n
            BY <3>0, <3>1
        <3> QED
            BY <3>1, <3>2 DEF x
    <2>5. \A s \in Small(n + 1) : s # {} =>
              h[s \ {CHOOSE x \in s : TRUE}] = g[s \ {CHOOSE x \in s : TRUE}]
        BY <2>3, <2>4
    <2> HIDE DEF Small
    <2>6. h = F(h, n + 1)
        <3> DEFINE A(s) == IF s = {} THEN 0
                           ELSE w[CHOOSE x \in s : TRUE] + g[s \ {CHOOSE x \in s : TRUE}]
                   B(s) == IF s = {} THEN 0
                           ELSE w[CHOOSE x \in s : TRUE] + h[s \ {CHOOSE x \in s : TRUE}]
        <3>1. \A s \in Small(n + 1) : A(s) = B(s)
            BY <2>5
        <3> HIDE DEF A, B
        <3>2. [s \in Small(n + 1) |-> A(s)] = [s \in Small(n + 1) |-> B(s)]
            BY <3>1
        <3> QED
            BY <2>2, <3>2 DEF A, B
    <2> QED
        BY <2>6
<1>4. \A n \in Nat : n \in Reached
    <2> SUFFICES ASSUME Nat \ Reached # {} PROVE FALSE
        OBVIOUS
    <2>1. PICK n \in Nat \ Reached : \A m \in Nat \ Reached : n <= m
        BY LeastNatural
    <2> HIDE DEF Reached
    <2>2. n # 0 /\ n - 1 \in Nat
        BY <1>2, <2>1
    <2>3. n - 1 \in Reached
        BY <2>1, <2>2
    <2>4. (n - 1) + 1 \in Reached
        BY <1>3, <2>2, <2>3
    <2> QED
        BY <2>1, <2>4
<1>5. PICK g : g = F(g, Cardinality(S))
    BY <1>4, <1>s
<1>6. Small(Cardinality(S)) = SUBSET S
    BY FS_Subset
<1> QED
    BY <1>5, <1>6 DEF Sums

\* It sums to a natural number where the values are.
LEMMA SumsNatural ==
    ASSUME NEW S, IsFiniteSet(S), NEW w, \A x \in S : w[x] \in Nat, NEW g, Sums(g, w, S)
    PROVE  g[S] \in Nat
<1> DEFINE C == {s \in SUBSET S : g[s] \notin Nat}
<1>s. \A s \in SUBSET S : IsFiniteSet(s) /\ Cardinality(s) \in Nat
    BY FS_Subset, FS_CardinalityType
<1> SUFFICES ASSUME C # {} PROVE FALSE
    OBVIOUS
<1>1. PICK s \in C : \A z \in C : Cardinality(s) <= Cardinality(z)
    BY <1>s, SmallestSet
<1>2. s \in SUBSET S /\ g[s] \notin Nat
    OBVIOUS
<1> HIDE DEF C
<1>3. s # {}
  <2>1. g[{}] = 0
      BY SumsStep
  <2> QED
      BY <1>2, <2>1
<1>4. PICK x \in s : g[s] = w[x] + g[s \ {x}]
    BY <1>2, <1>3, SumsStep
<1>5. Cardinality(s \ {x}) = Cardinality(s) - 1 /\ Cardinality(s) \in Nat
    BY <1>s, <1>2, FS_RemoveElement
<1>6. s \ {x} \notin C
    BY <1>1, <1>5
<1> USE DEF C
<1>7. g[s \ {x}] \in Nat /\ w[x] \in Nat
    BY <1>2, <1>6
<1> QED
    BY <1>2, <1>4, <1>7

\* What a request holds, when the rows are those in R.
HoldsTypes(q, R) ==
    /\ q.u \in Users /\ q.sid \in Sids \union {NoSid} /\ q.form \in Forms
    /\ q.opt \in Nat /\ q.a \in Nat /\ q.n \in Nat
    /\ q.l \in R \union {NoLoan}

CallTyped(c) ==
    pc[c] # "idle" =>
        HoldsTypes(req[c], Rows) /\ (pc[c] = "enqueue" => req[c].l # NoLoan)

\* A job that is to run again has attempts left.
JobTyped(j) ==
    job[j] # NoJob =>
        /\ job[j].loan \in Rows /\ job[j].failed \in 0..Attempts /\ job[j].stalled \in Nat
        /\ job[j].at # "failed" => job[j].failed < Attempts

TablesTyped ==
    /\ loan \in [Loans -> LoanRow \union {NoRow}] /\ IsFiniteSet(Rows)
    /\ session \in [SessionKeys -> OfferSession \union {NoSession}]
    /\ quote \in [Users -> Nat \union {NoQuote}]
    /\ locked \subseteq Users \X SessionKeys
    /\ calls \in 0..MaxCalls /\ faults \in 0..MaxFaults /\ failures \in 0..MaxFailures

TypeInv ==
    /\ TablesTyped /\ pc \in [Calls -> PCs]
    /\ \A c \in Calls : CallTyped(c)
    /\ DOMAIN job = Jobs /\ \A j \in Jobs : JobTyped(j)

LEMMA InitTyped == Init => TypeInv
<1> SUFFICES ASSUME Init PROVE TypeInv
    OBVIOUS
<1>1. Rows = {} /\ IsFiniteSet({})
    BY FS_EmptySet DEF Init, Rows
<1>2. TablesTyped
    BY <1>1, UssdAssumption DEF Init, TablesTyped
<1>3. pc \in [Calls -> PCs] /\ \A c \in Calls : CallTyped(c)
    BY DEF Init, PCs, CallTyped
<1>4. DOMAIN job = Jobs /\ \A j \in Jobs : JobTyped(j)
    BY DEF Init, JobTyped
<1> QED
    BY <1>2, <1>3, <1>4 DEF TypeInv

\* What is owed is a number.
LEMMA OwedNatural ==
    ASSUME TypeInv, NEW u \in Users, NEW statuses
    PROVE  Owed(u, statuses) \in Nat
<1> DEFINE S == {l \in LoansOf(u) : loan[l].status \in statuses}
           w == [l \in Loans |-> loan[l].amount]
           Body(g) == [s \in SUBSET S |->
                          IF s = {} THEN 0
                          ELSE LET x == CHOOSE x \in s : TRUE IN loan[x].amount + g[s \ {x}]]
<1>1. S \in SUBSET Loans /\ \A l \in S : w[l] \in Nat
    BY DEF TypeInv, TablesTyped, LoansOf, Rows, LoanRow
<1>2. IsFiniteSet(S)
    BY FS_Subset DEF TypeInv, TablesTyped, LoansOf
<1>3. Owed(u, statuses) = (CHOOSE g : g = Body(g))[S]
    BY Zenon DEF Owed, MapThenSumSet, MapThenFoldSet
<1> HIDE DEF S
<1>4. ASSUME NEW g
      PROVE  g = Body(g) <=> Sums(g, w, S)
    <2>1. \A s \in SUBSET S : s # {} => (CHOOSE x \in s : TRUE) \in Loans
        BY <1>1
    <2>2. Body(g) = [s \in SUBSET S |->
                        IF s = {} THEN 0
                        ELSE w[CHOOSE x \in s : TRUE] + g[s \ {CHOOSE x \in s : TRUE}]]
        BY <2>1
    <2> QED
        BY <2>2 DEF Sums
<1> HIDE DEF w
<1>5. PICK h : Sums(h, w, S)
    BY <1>2, SumsExist
<1> HIDE DEF Body
<1>6. h = Body(h)
    BY <1>4, <1>5
<1>7. (CHOOSE g : g = Body(g)) = Body(CHOOSE g : g = Body(g))
    BY <1>6, Zenon
<1>8. Sums(CHOOSE g : g = Body(g), w, S)
    BY <1>4, <1>7
<1> QED
    BY <1>1, <1>2, <1>3, <1>8, SumsNatural

LEMMA OffersNatural ==
    ASSUME NEW e \in Nat, NEW k, NEW a \in resolveAmount(e, k)
    PROVE  a \in Nat
<1>1. (e + 1) \div 2 \in Nat /\ (3 * e + 2) \div 4 \in Nat
    OBVIOUS
<1> QED
    BY <1>1 DEF resolveAmount, buildOfferBands

\* The keys of a request are keys of Redis.
LEMMA KeysTyped ==
    ASSUME NEW q, NEW R, HoldsTypes(q, R)
    PROVE  OfferKey(q) \in SessionKeys /\ LoanKey(q) \in SessionKeys
           /\ lockKey(q) \in Users \X SessionKeys
BY DEF HoldsTypes, OfferKey, LoanKey, lockKey, SessionKeys, Forms

\* A step of a request that writes no row and no job.
LEMMA RequestTyped ==
    ASSUME UssdInv, TypeInv, NEW c \in Calls, Moves(c), UNCHANGED <<loan, job>>,
           TablesTyped', pc' = [pc EXCEPT ![c] = pc'[c]], pc'[c] \in PCs,
           pc'[c] # "idle" =>
               HoldsTypes(req'[c], Rows) /\ (pc'[c] = "enqueue" => req'[c].l # NoLoan)
    PROVE  TypeInv'
<1>1. Rows' = Rows
    BY DEF Rows
<1>2. pc' \in [Calls -> PCs]
    BY DEF TypeInv
<1>3. \A d \in Calls : CallTyped(d)'
    BY <1>1 DEF TypeInv, CallTyped, Moves
<1>4. DOMAIN job' = Jobs /\ \A j \in Jobs : JobTyped(j)'
    BY <1>1 DEF TypeInv, JobTyped
<1> QED
    BY <1>2, <1>3, <1>4 DEF TypeInv

\* The tables that a step leaves alone keep their types.
LEMMA TablesKept ==
    ASSUME TablesTyped, UNCHANGED loan,
           session' \in [SessionKeys -> OfferSession \union {NoSession}],
           quote' \in [Users -> Nat \union {NoQuote}], locked' \subseteq Users \X SessionKeys,
           calls' \in 0..MaxCalls, faults' \in 0..MaxFaults, failures' \in 0..MaxFailures
    PROVE  TablesTyped'
BY DEF TablesTyped, Rows

LEMMA ArriveTyped ==
    ASSUME UssdInv, TypeInv, NEW c \in Calls, Arrive(c)
    PROVE  TypeInv'
<1>1. PICK u \in Users, ch \in Channels :
          \/ handleLoanOffer(c, u, ch[1], ch[2])
          \/ \E opt \in Options : handleLoanApprove(c, u, ch[1], ch[2], opt)
    BY DEF Arrive
<1>2. ch[1] \in Sids \union {NoSid} /\ ch[2] \in Forms /\ Options \subseteq Nat
    BY UssdAssumption
<1>3. /\ UNCHANGED <<loan, session, quote, locked, job, faults, failures>>
      /\ pc[c] = "idle" /\ calls < MaxCalls /\ calls' = calls + 1
    BY <1>1 DEF handleLoanOffer, handleLoanApprove, Request
<1>4. TablesTyped'
  <2>1. calls' \in 0..MaxCalls
      BY <1>3, UssdAssumption DEF TypeInv, TablesTyped
  <2> QED
      BY <1>3, <2>1, TablesKept DEF TypeInv, TablesTyped
<1>5. \A k \in SessionKeys, opt \in Nat, v \in Users :
          Usable(k, v) => \A a \in resolveAmount(session[k].eligible, opt) : a \in Nat
  <2> SUFFICES ASSUME NEW k \in SessionKeys, NEW opt \in Nat, NEW v \in Users, Usable(k, v),
                      NEW a \in resolveAmount(session[k].eligible, opt)
               PROVE  a \in Nat
      OBVIOUS
  <2>1. session[k].eligible \in Nat
      BY DEF Usable, TypeInv, TablesTyped, OfferSession
  <2> QED
      BY <2>1, OffersNatural
<1>6. \E p \in {"quote", "lookup"}, opt \in Nat, a \in Nat :
          At(c, p, Req(u, ch[1], ch[2], opt, a, 0, NoLoan, "none"))
  <2>1. CASE handleLoanOffer(c, u, ch[1], ch[2])
      BY <2>1 DEF handleLoanOffer
  <2>2. ASSUME NEW opt \in Options, handleLoanApprove(c, u, ch[1], ch[2], opt)
        PROVE  \E p \in {"quote", "lookup"}, a \in Nat :
                   At(c, p, Req(u, ch[1], ch[2], opt, a, 0, NoLoan, "none"))
    <3> DEFINE q == Req(u, ch[1], ch[2], opt, 0, 0, NoLoan, "none")
    <3>1. OfferKey(q) \in SessionKeys
        BY <1>2 DEF OfferKey, Req, SessionKeys, Forms
    <3> QED
        BY <1>2, <1>5, <2>2, <3>1 DEF handleLoanApprove
  <2> QED
      BY <1>1, <1>2, <2>1, <2>2
<1>7. PICK p \in {"quote", "lookup"}, opt \in Nat, a \in Nat :
          At(c, p, Req(u, ch[1], ch[2], opt, a, 0, NoLoan, "none"))
    BY <1>6
<1>8. /\ Moves(c) /\ pc'[c] = p /\ pc' = [pc EXCEPT ![c] = p]
      /\ req'[c] = Req(u, ch[1], ch[2], opt, a, 0, NoLoan, "none")
    BY <1>7, AtMoves DEF At
<1>9. HoldsTypes(req'[c], Rows)
    BY <1>2, <1>8 DEF HoldsTypes, Req
<1> QED
    BY <1>3, <1>4, <1>8, <1>9, RequestTyped DEF PCs

\* Where a request goes on, with what it held.
LEMMA GotoTyped ==
    ASSUME UssdInv, TypeInv, NEW c \in Calls, pc[c] # "idle",
           NEW p \in PCs \ {"enqueue"}, NEW a \in Nat, NEW n \in Nat, Goto(c, p, a, n),
           UNCHANGED <<loan, job>>, TablesTyped'
    PROVE  TypeInv'
<1>1. /\ Moves(c) /\ pc'[c] = p /\ pc' = [pc EXCEPT ![c] = p]
      /\ req'[c] = Req(req[c].u, req[c].sid, req[c].form, req[c].opt, a, n, NoLoan, "none")
    BY AtMoves DEF Goto, At
<1>2. HoldsTypes(req'[c], Rows)
    BY <1>1 DEF TypeInv, CallTyped, HoldsTypes, Req
<1> QED
    BY <1>1, <1>2, RequestTyped

LEMMA HoldingTyped ==
    ASSUME UssdInv, TypeInv, NEW c \in Calls, pc[c] # "idle",
           NEW p \in PCs, NEW l \in Rows, NEW st, Holding(c, p, l, st),
           UNCHANGED <<loan, job>>, TablesTyped'
    PROVE  TypeInv'
<1>1. /\ Moves(c) /\ pc'[c] = p /\ pc' = [pc EXCEPT ![c] = p]
      /\ req'[c] = Req(req[c].u, req[c].sid, req[c].form, req[c].opt, req[c].a, 0, l, st)
    BY AtMoves DEF Holding, At
<1>2. HoldsTypes(req'[c], Rows)
    BY <1>1 DEF TypeInv, CallTyped, HoldsTypes, Req
<1>3. req'[c].l # NoLoan
    BY <1>1, UssdAssumption DEF Req, Rows
<1> QED
    BY <1>1, <1>2, <1>3, RequestTyped

LEMMA FinishTyped ==
    ASSUME UssdInv, TypeInv, NEW c \in Calls, Finish(c), UNCHANGED <<loan, job>>, TablesTyped'
    PROVE  TypeInv'
<1>1. Moves(c) /\ pc'[c] = "idle" /\ pc' = [pc EXCEPT ![c] = "idle"]
    BY AtMoves DEF Finish, At
<1> QED
    BY <1>1, RequestTyped DEF PCs

\* One more of a bounded counter.
LEMMA FaultsTyped ==
    ASSUME TablesTyped, faults' = faults \/ (faults < MaxFaults /\ faults' = faults + 1)
    PROVE  faults' \in 0..MaxFaults
BY UssdAssumption DEF TablesTyped

LEMMA QuoteTyped ==
    ASSUME UssdInv, TypeInv, NEW c \in Calls, calculateEligibleLoanAmount(c)
    PROVE  TypeInv'
<1> DEFINE u == req[c].u
<1>1. u \in Users /\ pc[c] # "idle"
    BY DEF calculateEligibleLoanAmount, TypeInv, CallTyped, HoldsTypes
<1>2. eligibleAmount(u) \in Nat
  <2>1. Owed(u, {"APPROVED", "DISBURSED"}) \in Nat /\ BaseAmount \in Nat
      BY <1>1, OwedNatural, UssdAssumption
  <2> QED
      BY <2>1 DEF eligibleAmount
<1>3. PICK e \in {eligibleAmount(u)} \union ({quote[u]} \ {NoQuote}) :
          /\ quote' = [quote EXCEPT ![u] = e]
          /\ IF e = 0 /\ req[c].opt = 0 THEN Finish(c) ELSE Goto(c, "session", e, 0)
    BY DEF calculateEligibleLoanAmount
<1>4. e \in Nat /\ quote' \in [Users -> Nat \union {NoQuote}]
    BY <1>1, <1>2, <1>3 DEF TypeInv, TablesTyped
<1>5. UNCHANGED <<loan, session, locked, job, calls, faults, failures>>
    BY DEF calculateEligibleLoanAmount
<1>6. TablesTyped'
    BY <1>4, <1>5, TablesKept DEF TypeInv, TablesTyped
<1> QED
    BY <1>1, <1>3, <1>4, <1>5, <1>6, FinishTyped, GotoTyped DEF PCs

LEMMA SessionTyped ==
    ASSUME UssdInv, TypeInv, NEW c \in Calls, saveOfferSession(c)
    PROVE  TypeInv'
<1> DEFINE q == req[c]
<1>1. pc[c] # "idle" /\ HoldsTypes(q, Rows) /\ UNCHANGED <<loan, quote, locked, job, calls, faults, failures>>
    BY DEF saveOfferSession, TypeInv, CallTyped
<1>2. session' \in [SessionKeys -> OfferSession \union {NoSession}]
  <2>1. [user |-> q.u, form |-> IF q.opt = 0 THEN q.form ELSE "local", eligible |-> q.a] \in OfferSession
      BY <1>1 DEF HoldsTypes, OfferSession, Forms
  <2> QED
      BY <2>1 DEF saveOfferSession, TypeInv, TablesTyped
<1>3. TablesTyped'
    BY <1>1, <1>2, TablesKept DEF TypeInv, TablesTyped
<1>4. \A a \in resolveAmount(q.a, q.opt) : a \in Nat
    BY <1>1, OffersNatural DEF HoldsTypes
<1>5. Finish(c) \/ \E a \in Nat : Goto(c, "lookup", a, 0)
    BY <1>4 DEF saveOfferSession
<1> QED
    BY <1>1, <1>3, <1>5, FinishTyped, GotoTyped DEF PCs

\* Steps that write no table but the locks.
LEMMA LookStepsTyped ==
    ASSUME UssdInv, TypeInv, NEW c \in Calls,
           lookup(c) \/ cooldown(c) \/ acquireLock(c) \/ doubleCheck(c) \/ drawNumber(c)
    PROVE  TypeInv'
<1>1. pc[c] # "idle" /\ UNCHANGED <<loan, session, quote, job, calls, faults, failures>>
    BY DEF lookup, cooldown, acquireLock, doubleCheck, drawNumber
<1>2. HoldsTypes(req[c], Rows)
    BY <1>1 DEF TypeInv, CallTyped
<1>3. locked' \subseteq Users \X SessionKeys
  <2>1. lockKey(req[c]) \in Users \X SessionKeys
      BY <1>2, KeysTyped
  <2> QED
      BY <2>1 DEF lookup, cooldown, acquireLock, doubleCheck, drawNumber, TypeInv, TablesTyped
<1>4. TablesTyped'
    BY <1>1, <1>3, TablesKept DEF TypeInv, TablesTyped
<1>5. req[c].a \in Nat /\ generateLoanId \in Nat
  <2>1. Cardinality(Rows) \in Nat
      BY FS_CardinalityType DEF TypeInv, TablesTyped
  <2> QED
      BY <1>2, <2>1 DEF HoldsTypes, generateLoanId
<1>6. \/ Finish(c)
      \/ \E p \in PCs \ {"enqueue"}, n \in Nat : Goto(c, p, req[c].a, n)
      \/ \E p \in PCs, l \in Rows : Holding(c, p, l, loan[l].status)
    BY <1>5 DEF lookup, cooldown, acquireLock, doubleCheck, drawNumber,
                findLoanByIdempotencyKey, PCs
<1> QED
    BY <1>1, <1>4, <1>5, <1>6, FinishTyped, GotoTyped, HoldingTyped

\* A row changes or is added, and no row goes.
LEMMA RowWritten ==
    ASSUME TypeInv, NEW l \in Loans, NEW r \in LoanRow, loan' = [loan EXCEPT ![l] = r]
    PROVE  /\ loan' \in [Loans -> LoanRow \union {NoRow}]
           /\ Rows' = Rows \union {l} /\ IsFiniteSet(Rows')
<1>1. /\ loan' \in [Loans -> LoanRow \union {NoRow}] /\ loan'[l] = r
      /\ \A k \in Loans : k # l => loan'[k] = loan[k]
    BY DEF TypeInv, TablesTyped
<1>2. Rows' = Rows \union {l}
    BY <1>1, UssdAssumption DEF Rows
<1>3. IsFiniteSet(Rows \union {l})
    BY FS_AddElement DEF TypeInv, TablesTyped
<1> QED
    BY <1>1, <1>2, <1>3

LEMMA InsertTyped ==
    ASSUME UssdInv, TypeInv, NEW c \in Calls, insertLoan(c)
    PROVE  TypeInv'
<1> DEFINE q == req[c]
<1>1. pc[c] # "idle" /\ UNCHANGED <<session, quote, locked, job, calls, faults, failures>>
    BY DEF insertLoan
<1>2. HoldsTypes(q, Rows) /\ LoanKey(q) \in SessionKeys
    BY <1>1, KeysTyped DEF TypeInv, CallTyped
<1>3. CASE Goto(c, "unlock", q.a, 0) /\ UNCHANGED loan
  <2>1. TablesTyped'
      BY <1>1, <1>3, TablesKept DEF TypeInv, TablesTyped
  <2> QED
      BY <1>1, <1>2, <1>3, <2>1, GotoTyped DEF HoldsTypes, PCs
<1>4. CASE /\ Rows # Loans
           /\ LET l == CHOOSE k \in Loans : loan[k] = NoRow
              IN /\ loan' = [loan EXCEPT ![l] =
                       [number |-> q.n, user |-> q.u, skey |-> LoanKey(q),
                        amount |-> q.a, status |-> "APPROVED", recent |-> TRUE]]
                 /\ Holding(c, "unlock", l, "APPROVED")
  <2>1. \E k \in Loans : loan[k] = NoRow
      BY <1>4 DEF Rows
  <2>2. PICK l \in Loans :
          /\ loan' = [loan EXCEPT ![l] =
                  [number |-> q.n, user |-> q.u, skey |-> LoanKey(q),
                   amount |-> q.a, status |-> "APPROVED", recent |-> TRUE]]
          /\ Holding(c, "unlock", l, "APPROVED")
      BY <1>4, <2>1
  <2>3. [number |-> q.n, user |-> q.u, skey |-> LoanKey(q),
         amount |-> q.a, status |-> "APPROVED", recent |-> TRUE] \in LoanRow
      BY <1>2 DEF HoldsTypes, LoanRow, LoanStatus
  <2>4. /\ loan' \in [Loans -> LoanRow \union {NoRow}]
        /\ Rows' = Rows \union {l} /\ IsFiniteSet(Rows')
      BY <2>2, <2>3, RowWritten
  <2>5. TablesTyped'
      BY <1>1, <2>4 DEF TypeInv, TablesTyped
  <2>6. /\ Moves(c) /\ pc'[c] = "unlock" /\ pc' = [pc EXCEPT ![c] = "unlock"]
        /\ req'[c] = Req(q.u, q.sid, q.form, q.opt, q.a, 0, l, "APPROVED")
      BY <2>2, AtMoves DEF Holding, At
  <2>7. \A d \in Calls : CallTyped(d)'
    <3>1. HoldsTypes(req'[c], Rows')
        BY <1>2, <2>4, <2>6 DEF HoldsTypes, Req
    <3>2. \A d \in Calls : pc[d] # "idle" => HoldsTypes(req[d], Rows')
        BY <2>4 DEF TypeInv, CallTyped, HoldsTypes
    <3> QED
        BY <2>6, <3>1, <3>2 DEF TypeInv, CallTyped, Moves
  <2>8. \A j \in Jobs : JobTyped(j)'
      BY <1>1, <2>4 DEF TypeInv, JobTyped
  <2>9. pc' \in [Calls -> PCs] /\ DOMAIN job' = Jobs
      BY <1>1, <2>6 DEF TypeInv, PCs
  <2> QED
      BY <2>5, <2>7, <2>8, <2>9 DEF TypeInv
<1> QED
    BY <1>3, <1>4 DEF insertLoan

LEMMA ReleaseTyped ==
    ASSUME UssdInv, TypeInv, NEW c \in Calls, releaseLock(c)
    PROVE  TypeInv'
<1>1. pc[c] # "idle" /\ UNCHANGED <<loan, session, quote, job, calls, failures>>
    BY DEF releaseLock
<1>2. locked' \subseteq Users \X SessionKeys /\ faults' \in 0..MaxFaults
    BY FaultsTyped DEF releaseLock, TypeInv, TablesTyped
<1>3. TablesTyped'
    BY <1>1, <1>2, TablesKept DEF TypeInv, TablesTyped
<1>4. CASE Finish(c)
    BY <1>1, <1>3, <1>4, FinishTyped
<1>5. CASE req[c].l # NoLoan /\ Holding(c, "enqueue", req[c].l, req[c].st)
  <2>1. req[c].l \in Rows
      BY <1>1, <1>5 DEF TypeInv, CallTyped, HoldsTypes
  <2> QED
      BY <1>1, <1>3, <1>5, <2>1, HoldingTyped DEF PCs
<1> QED
    BY <1>4, <1>5 DEF releaseLock

\* A job is written under its own type.
LEMMA JobWritten ==
    ASSUME TypeInv, Rows' = Rows, NEW j \in Jobs, NEW r, job' = [job EXCEPT ![j] = r],
           r # NoJob =>
               /\ r.loan \in Rows /\ r.failed \in 0..Attempts /\ r.stalled \in Nat
               /\ r.at # "failed" => r.failed < Attempts
    PROVE  DOMAIN job' = Jobs /\ \A k \in Jobs : JobTyped(k)'
<1>1. DOMAIN job' = Jobs /\ job'[j] = r /\ \A k \in Jobs : k # j => job'[k] = job[k]
    BY DEF TypeInv
<1>2. JobTyped(j)'
    BY <1>1 DEF JobTyped
<1>3. \A k \in Jobs : k # j => JobTyped(k)'
    BY <1>1 DEF TypeInv, JobTyped
<1> QED
    BY <1>1, <1>2, <1>3

LEMMA EnqueueTyped ==
    ASSUME UssdInv, TypeInv, NEW c \in Calls, enqueue(c)
    PROVE  TypeInv'
<1> DEFINE l == req[c].l
<1>1. /\ pc[c] = "enqueue" /\ UNCHANGED <<loan, session, quote, locked, calls, failures>>
      /\ Finish(c)
    BY DEF enqueue
<1>2. Rows' = Rows /\ l \in Rows
    BY <1>1 DEF TypeInv, CallTyped, HoldsTypes, Rows
<1>3. TablesTyped'
  <2>1. faults' \in 0..MaxFaults
      BY FaultsTyped DEF enqueue, TypeInv
  <2> QED
      BY <1>1, <2>1, TablesKept DEF TypeInv, TablesTyped
<1>4. CASE UNCHANGED job
    BY <1>1, <1>3, <1>4, FinishTyped
<1>5. CASE addJob(l)
  <2>1. PICK j \in Jobs : job' = [job EXCEPT ![j] = NewJob(l)]
      BY <1>5 DEF addJob
  <2>2. DOMAIN job' = Jobs /\ \A k \in Jobs : JobTyped(k)'
    <3>1. /\ NewJob(l).loan \in Rows /\ NewJob(l).failed \in 0..Attempts
          /\ NewJob(l).stalled \in Nat /\ NewJob(l).failed < Attempts
        BY <1>2, UssdAssumption DEF NewJob
    <3> QED
        BY <1>2, <2>1, <3>1, JobWritten
  <2>3. Moves(c) /\ pc'[c] = "idle" /\ pc' = [pc EXCEPT ![c] = "idle"]
      BY <1>1, AtMoves DEF Finish, At
  <2>4. pc' \in [Calls -> PCs] /\ \A d \in Calls : CallTyped(d)'
      BY <1>2, <2>3 DEF TypeInv, CallTyped, Moves, PCs
  <2> QED
      BY <1>3, <2>2, <2>4 DEF TypeInv
<1> QED
    BY <1>4, <1>5 DEF enqueue

LEMMA CrashTyped ==
    ASSUME UssdInv, TypeInv, NEW c \in Calls, Crash(c)
    PROVE  TypeInv'
<1>1. faults' \in 0..MaxFaults
    BY FaultsTyped DEF Crash, TypeInv
<1>2. TablesTyped'
    BY <1>1, TablesKept DEF Crash, TypeInv, TablesTyped
<1> QED
    BY <1>2, FinishTyped DEF Crash

\* Requests stay typed when no row goes.
LEMMA CallsKept ==
    ASSUME TypeInv, UNCHANGED <<pc, req>>, Rows \subseteq Rows'
    PROVE  pc' \in [Calls -> PCs] /\ \A c \in Calls : CallTyped(c)'
BY DEF TypeInv, CallTyped, HoldsTypes

\* What happens to a job that is there.
LEMMA AttemptTyped ==
    ASSUME TypeInv, Rows' = Rows, NEW j \in Jobs, job[j] # NoJob,
           \/ \E p, was : JobAt(j, p, was) /\ job[j].at # "failed"
           \/ job[j].at # "failed" /\ FailAttempt(j, job[j].failed + 1, job[j].stalled)
           \/ job[j].at # "failed" /\ FailAttempt(j, job[j].failed, job[j].stalled + 1)
    PROVE  DOMAIN job' = Jobs /\ \A k \in Jobs : JobTyped(k)'
<1>1. /\ job[j].loan \in Rows /\ job[j].failed \in 0..Attempts /\ job[j].stalled \in Nat
      /\ job[j].at # "failed" => job[j].failed < Attempts
    BY DEF TypeInv, JobTyped
<1>2. ASSUME NEW p, NEW was, JobAt(j, p, was), job[j].at # "failed"
      PROVE  DOMAIN job' = Jobs /\ \A k \in Jobs : JobTyped(k)'
    BY <1>1, <1>2, JobWritten DEF JobAt
<1>3. ASSUME NEW failed \in 0..Attempts, NEW stalled \in Nat, FailAttempt(j, failed, stalled)
      PROVE  DOMAIN job' = Jobs /\ \A k \in Jobs : JobTyped(k)'
    BY <1>1, <1>3, JobWritten DEF FailAttempt
<1>4. /\ job[j].at # "failed" => job[j].failed + 1 \in 0..Attempts
      /\ job[j].stalled + 1 \in Nat
    BY <1>1, UssdAssumption
<1> QED
    BY <1>1, <1>2, <1>3, <1>4

LEMMA StatusTyped ==
    ASSUME TypeInv, NEW l \in Rows, NEW status \in LoanStatus, NEW recent \in BOOLEAN,
           loan' = [loan EXCEPT ![l] =
               [number |-> loan[l].number, user |-> loan[l].user, skey |-> loan[l].skey,
                amount |-> loan[l].amount, status |-> status, recent |-> recent]]
    PROVE  /\ loan' \in [Loans -> LoanRow \union {NoRow}]
           /\ Rows' = Rows /\ IsFiniteSet(Rows')
<1>1. l \in Loans /\ loan[l] \in LoanRow
    BY DEF TypeInv, TablesTyped, Rows
<1>2. [number |-> loan[l].number, user |-> loan[l].user, skey |-> loan[l].skey,
       amount |-> loan[l].amount, status |-> status, recent |-> recent] \in LoanRow
    BY <1>1 DEF LoanRow
<1>3. /\ loan' \in [Loans -> LoanRow \union {NoRow}]
      /\ Rows' = Rows \union {l} /\ IsFiniteSet(Rows')
    BY <1>1, <1>2, RowWritten
<1> QED
    BY <1>3

LEMMA WorkTyped ==
    ASSUME TypeInv, NEW j \in Jobs, Work(j) \/ jobFails(j)
    PROVE  TypeInv'
<1>1. job[j] # NoJob /\ UNCHANGED <<quote, locked, pc, req, calls, faults>>
    BY DEF Work, process, disburse, disburseSave, invalidateSession, jobFails, Running
<1>2. CASE process(j) \/ disburse(j) \/ jobFails(j)
  <2>1. UNCHANGED <<loan, session>> /\ Rows' = Rows
      BY <1>2 DEF process, disburse, jobFails, Rows
  <2>2. failures' \in 0..MaxFailures
      BY <1>2, UssdAssumption DEF process, disburse, jobFails, TypeInv, TablesTyped
  <2>3. TablesTyped'
      BY <1>1, <2>1, <2>2, TablesKept DEF TypeInv, TablesTyped
  <2>4. \/ \E p, was : JobAt(j, p, was) /\ job[j].at # "failed"
        \/ job[j].at # "failed" /\ FailAttempt(j, job[j].failed + 1, job[j].stalled)
        \/ job[j].at # "failed" /\ FailAttempt(j, job[j].failed, job[j].stalled + 1)
      BY <1>2 DEF process, disburse, jobFails, Running
  <2> QED
      BY <1>1, <2>1, <2>3, <2>4, AttemptTyped, CallsKept DEF TypeInv
<1>3. CASE disburseSave(j)
  <2>1. job[j].loan \in Rows /\ loan[job[j].loan].recent \in BOOLEAN
      BY <1>3 DEF disburseSave, TypeInv, TablesTyped, Rows, LoanRow
  <2>2. /\ loan' \in [Loans -> LoanRow \union {NoRow}]
        /\ Rows' = Rows /\ IsFiniteSet(Rows')
      BY <1>3, <2>1, StatusTyped DEF disburseSave, WithStatus, LoanStatus
  <2>3. TablesTyped'
      BY <1>1, <1>3, <2>2 DEF disburseSave, TypeInv, TablesTyped
  <2> QED
      BY <1>1, <1>3, <2>2, <2>3, AttemptTyped, CallsKept DEF disburseSave, TypeInv
<1>4. CASE invalidateSession(j)
  <2>1. UNCHANGED <<loan, failures>> /\ Rows' = Rows
      BY <1>4 DEF invalidateSession, Rows
  <2>2. session' \in [SessionKeys -> OfferSession \union {NoSession}]
      BY <1>4 DEF invalidateSession, TypeInv, TablesTyped
  <2>3. TablesTyped'
      BY <1>1, <2>1, <2>2, TablesKept DEF TypeInv, TablesTyped
  <2> QED
      BY <1>1, <1>4, <2>1, <2>3, JobWritten, CallsKept DEF invalidateSession, TypeInv
<1> QED
    BY <1>2, <1>3, <1>4 DEF Work

LEMMA TimeTyped ==
    ASSUME TypeInv, NEW l \in Loans, cooldownEnds(l) \/ repaid(l)
    PROVE  TypeInv'
<1>1. /\ l \in Rows /\ loan[l] \in LoanRow
      /\ UNCHANGED <<session, locked, pc, req, job, calls, faults, failures>>
    BY DEF cooldownEnds, repaid, TypeInv, TablesTyped, Rows
<1>2. /\ loan' \in [Loans -> LoanRow \union {NoRow}]
      /\ Rows' = Rows /\ IsFiniteSet(Rows')
    BY <1>1, StatusTyped DEF cooldownEnds, repaid, WithStatus, LoanRow, LoanStatus
<1>3. quote' \in [Users -> Nat \union {NoQuote}]
    BY DEF cooldownEnds, repaid, TypeInv, TablesTyped
<1>4. TablesTyped'
    BY <1>1, <1>2, <1>3 DEF TypeInv, TablesTyped
<1>5. DOMAIN job' = Jobs /\ \A j \in Jobs : JobTyped(j)'
    BY <1>1, <1>2 DEF TypeInv, JobTyped
<1> QED
    BY <1>1, <1>2, <1>4, <1>5, CallsKept DEF TypeInv

\* Whatever requests overlap, die and repeat, and whatever Redis forgets: rows,
\* keys, jobs and what a request holds have their types, a job refers to a row,
\* and one that will run again has attempts left (ussd-loans.service.ts).
THEOREM TypeInvariant == Spec => []TypeInv
<1>1. UssdInv /\ TypeInv /\ [Next]_vars => TypeInv'
  <2> SUFFICES ASSUME UssdInv, TypeInv, [Next]_vars PROVE TypeInv'
      OBVIOUS
  <2>1. CASE UNCHANGED vars
    <3>1. TablesTyped' /\ Rows' = Rows
        BY <2>1, TablesKept DEF vars, TypeInv, TablesTyped, Rows
    <3> QED
        BY <2>1, <3>1 DEF vars, TypeInv, CallTyped, JobTyped
  <2>2. ASSUME NEW c \in Calls, Arrive(c) \/ Step(c) \/ Crash(c) PROVE TypeInv'
      BY <2>2, ArriveTyped, CrashTyped, QuoteTyped, SessionTyped, LookStepsTyped,
         InsertTyped, ReleaseTyped, EnqueueTyped DEF Step
  <2>3. ASSUME NEW j \in Jobs, Work(j) \/ jobFails(j) PROVE TypeInv'
      BY <2>3, WorkTyped
  <2>4. ASSUME NEW l \in Loans, cooldownEnds(l) \/ repaid(l) PROVE TypeInv'
      BY <2>4, TimeTyped
  <2> QED
      BY <2>1, <2>2, <2>3, <2>4 DEF Next
<1> QED
    BY <1>1, InitTyped, UssdInvariant, PTL DEF Spec

\* In particular no offer is negative and no job has more attempts than it is
\* given (calculateEligibleLoanAmount, LoanDisburseProcessor).
THEOREM TypeCorrect == Spec => []TypeOK
<1>1. TypeInv => TypeOK
    BY DEF TypeInv, TablesTyped, CallTyped, HoldsTypes, JobTyped, TypeOK
<1> QED
    BY <1>1, TypeInvariant, PTL
=============================================================================
