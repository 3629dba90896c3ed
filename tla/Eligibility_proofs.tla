------------------------- MODULE Eligibility_proofs -------------------------
(***************************************************************************)
(* For any number of requests and trans_refs, any partner and scoring      *)
(* limits, batch size, threshold and number of failures: Eligibility       *)
(* implements ProfileContract, drops no decision while nothing fails, and  *)
(* closes the breaker only below its threshold.                            *)
(*                                                                         *)
(* The refinement needs to know that whatever row is on its way to the     *)
(* audit table, be it in the queue, in memory or in an INSERT, is read     *)
(* back as the limit that was served when it was written (RowsSound), and  *)
(* that a leg whose result may still be served has one that can be         *)
(* (LegsSound).                                                            *)
(***************************************************************************)
EXTENDS Eligibility, WellFoundedInduction, TLAPS

\* Jobs that are not given up have attempts left.
AttemptsLeft ==
    \A j \in Calls : job[j] # NoJob /\ job[j].st # "failed" => job[j].tries < Attempts

Typed == TypeOK /\ AttemptsLeft

\* A row tells what was served to the request it is about.
Tells(row) ==
    /\ row \in LogRows
    /\ call[row.id] = "answered" /\ answer[row.id] = deriveResponseLimit(row)

RowsSound ==
    /\ \A j \in Calls : job[j] # NoJob => Tells(job[j].data)
    /\ \A i \in DOMAIN buffer : Tells(buffer[i])
    /\ Locked => \A i \in DOMAIN flushing.batch : Tells(flushing.batch[i])
    /\ \A t \in Refs : table[t] # Unknown => Tells(table[t]) /\ RefOf[table[t].id] = t

\* What the legacy leg can come to.
FromLeg(r) ==
    /\ r \in Results /\ r.rim = Unknown
    /\ \/ r.winner = "TEAMWEE" /\ r.teamwee = r.limit
       \/ r.winner \in {"STUB", "FALLBACK"} /\ r.limit = 0

LegsSound ==
    \A c \in Calls : call[c] = "deciding" /\ leg[c].pc = "done" => FromLeg(leg[c].result)

Unanswered == \A c \in Calls : call[c] # "answered" => answer[c] = Unknown

Sound == Typed /\ RowsSound /\ LegsSound /\ Unanswered

\* Without faults no job is given up and the process does not stop, and a job
\* that is active has its row in the INSERT.
Carried ==
    faults = 0 =>
        /\ ~closing
        /\ \A j \in Calls : job[j] # NoJob /\ job[j].st = "active" =>
              Locked /\ \E i \in DOMAIN flushing.batch : flushing.batch[i] = job[j].data
        /\ \A j \in Calls : job[j] # NoJob => job[j].st # "failed"

\* Only a request that has come in has a leg.
NotBegun == \A c \in Calls : call[c] = "new" => leg[c].pc = "off"

\* The first row of a trans_ref in a batch is well defined.
LEMMA FirstOf ==
    ASSUME NEW S \in SUBSET Nat, S # {}
    PROVE  \E i \in S : \A j \in S : i <= j
<1>1. PICK i \in S : \A j \in S : <<j, i>> \notin OpToRel(<, Nat)
    BY WFMin, NatLessThanWellFounded, Zenon
<1>2. \A j \in S : ~(j < i)
    BY <1>1, Zenon DEF OpToRel
<1> QED
    BY <1>2

\* What an INSERT leaves in the audit table: rows that were there stay, a new
\* row is one of the batch with that trans_ref, and no trans_ref of the batch
\* is left without a row (bulkInsert).
LEMMA InsertOne ==
    ASSUME NEW rows \in [Refs -> Maybe(LogRows)], NEW batch \in Seq(LogRows), NEW t \in Refs
    PROVE  LET new == Insert(rows, batch)[t]
           IN  /\ rows[t] # Unknown => new = rows[t]
               /\ new # rows[t] => \E i \in DOMAIN batch : RefOf[batch[i].id] = t /\ new = batch[i]
               /\ \A i \in DOMAIN batch : RefOf[batch[i].id] = t => new # Unknown
<1> DEFINE of == {i \in DOMAIN batch : RefOf[batch[i].id] = t}
           new == Insert(rows, batch)[t]
<1>1. new = IF rows[t] # Unknown \/ of = {} THEN rows[t]
            ELSE batch[CHOOSE i \in of : \A j \in of : i <= j]
    BY DEF Insert
<1>2. CASE rows[t] # Unknown \/ of = {}
    BY <1>1, <1>2
<1>3. CASE ~(rows[t] # Unknown \/ of = {})
  <2>1. of \in SUBSET Nat
      OBVIOUS
  <2>2. \E i \in of : \A j \in of : i <= j
      BY <2>1, <1>3, FirstOf
  <2>3. PICK i \in of : new = batch[i]
      BY <2>2, <1>1, <1>3
  <2>4. batch[i] \in LogRows
      BY <2>3
  <2> QED
      BY <2>3, <2>4, <1>3, NullsAssumption
<1> QED
    BY <1>2, <1>3

LEMMA InsertType ==
    ASSUME NEW rows \in [Refs -> Maybe(LogRows)], NEW batch \in Seq(LogRows)
    PROVE  Insert(rows, batch) \in [Refs -> Maybe(LogRows)]
<1>1. \A t \in Refs : Insert(rows, batch)[t] \in Maybe(LogRows)
  <2> SUFFICES ASSUME NEW t \in Refs PROVE Insert(rows, batch)[t] \in Maybe(LogRows)
      OBVIOUS
  <2>1. CASE Insert(rows, batch)[t] = rows[t]
      BY <2>1
  <2>2. CASE Insert(rows, batch)[t] # rows[t]
    <3>1. PICK i \in DOMAIN batch : Insert(rows, batch)[t] = batch[i]
        BY <2>2, InsertOne
    <3> QED
        BY <3>1 DEF Maybe
  <2> QED
      BY <2>1, <2>2
<1> QED
    BY <1>1 DEF Insert

-----------------------------------------------------------------------------
\* What is selected can be served, and the row that is logged of it is read
\* back as the same limit (selectFinal, enqueue, deriveResponseLimit).
LEMMA SelectFinal ==
    ASSUME NEW c \in Calls, NEW legacy, FromLeg(legacy), NEW score \in Maybe(ScoreLimits)
    PROVE  LET result == selectFinal(c, legacy, score)
               row == Payload(c, result, score)
           IN  /\ result.limit \in Limits
               /\ row \in LogRows /\ row.id = c
               /\ deriveResponseLimit(row) = result.limit
<1> DEFINE result == selectFinal(c, legacy, score)
           row == Payload(c, result, score)
<1>1. legacy \in Results /\ legacy.limit \in Limits /\ score \in Maybe(Limits)
    BY DEF FromLeg, Results, Maybe, Limits
<1>2. \/ result \in Results /\ result.limit = legacy.limit /\ result.teamwee = legacy.teamwee
         /\ result.rim = Unknown /\ result.winner = legacy.winner
      \/ result \in Results /\ result.winner = "RIM" /\ score # Unknown
         /\ result.rim = score /\ result.limit = score
    BY <1>1 DEF FromLeg, selectFinal, Result, Results, Maybe, Limits, Modes, Winners
<1>3. row = [id |-> c, teamwee |-> result.teamwee,
             rim |-> IF score # Unknown THEN score ELSE result.rim,
             final |-> score, winner |-> result.winner, mode |-> result.mode]
    BY DEF Payload
<1>4. row \in LogRows /\ row.id = c
    BY <1>1, <1>2, <1>3 DEF LogRows, Results, Maybe
<1>5. deriveResponseLimit(row) = result.limit
  <2>1. CASE result.winner = "RIM" /\ score # Unknown /\ result.limit = score
      BY <2>1, <1>3 DEF deriveResponseLimit
  <2>2. CASE result.winner = "TEAMWEE" /\ result.teamwee = result.limit
    <3>1. result.teamwee # Unknown
        BY <2>2, <1>2, EligibilityAssumption DEF Results
    <3> QED
        BY <2>2, <3>1, <1>3 DEF deriveResponseLimit
  <2>3. CASE result.winner \in {"STUB", "FALLBACK"} /\ result.limit = 0
      BY <2>3, <1>3 DEF deriveResponseLimit
  <2> QED
      BY <1>2, <2>1, <2>2, <2>3 DEF FromLeg
<1> QED
    BY <1>2, <1>4, <1>5 DEF Results

\* Results of the legacy leg.
LEMMA LegResults ==
    ASSUME NEW v
    PROVE  /\ resolveMode(v) \in Modes
           /\ FromLeg(stubDeny(resolveMode(v))) /\ FromLeg(unavailable(resolveMode(v)))
           /\ FromLeg(fallback)
           /\ \A x \in PartnerLimits : FromLeg(proxied(x, resolveMode(v)))
<1>1. resolveMode(v) \in Modes /\ "STUB_DENY" \in Modes
    BY DEF resolveMode, isDecisionMode, Modes
<1> QED
    BY <1>1 DEF FromLeg, stubDeny, unavailable, fallback, proxied, Result, Results, Limits, Winners, Maybe

\* A row that is logged is read back as a limit.
LEMMA RowLimit ==
    ASSUME NEW row \in LogRows
    PROVE  deriveResponseLimit(row) \in Limits
BY DEF deriveResponseLimit, LogRows, Maybe, Limits

-----------------------------------------------------------------------------
\* Types.

JobRecords == [st : JobStates, tries : 0 .. Attempts, data : LogRows]

LEMMA JobsNotNull == \A r \in JobRecords : r # NoJob
BY EligibilityAssumption, NullsAssumption DEF JobRecords

LEMMA FlushesNotNull ==
    ASSUME NEW b \in Triggers, NEW s \in Seq(LogRows)
    PROVE  [by |-> b, batch |-> s] # NoFlush
BY NullsAssumption

\* The INSERT of a batch.
LEMMA InsertTypes ==
    ASSUME LogTypeOK, Locked
    PROVE  flushing.batch \in Seq(LogRows)
           /\ Insert(table, flushing.batch) \in [Refs -> Maybe(LogRows)]
<1>1. flushing.batch \in Seq(LogRows)
    BY DEF LogTypeOK, Locked
<1> QED
    BY <1>1, InsertType DEF LogTypeOK

Flushes == [by : Triggers, batch : Seq(LogRows)]

\* LogTypeOK in these terms.
LEMMA LogTypeParts ==
    /\ LogTypeOK <=> /\ job \in [Calls -> JobRecords \union {NoJob}]
                     /\ buffer \in Seq(LogRows) /\ flushing \in Flushes \union {NoFlush}
                     /\ timer \in BOOLEAN /\ closing \in BOOLEAN
                     /\ table \in [Refs -> Maybe(LogRows)] /\ faults \in 0 .. MaxFaults
    /\ LogTypeOK' <=> /\ job' \in [Calls -> JobRecords \union {NoJob}]
                      /\ buffer' \in Seq(LogRows) /\ flushing' \in Flushes \union {NoFlush}
                      /\ timer' \in BOOLEAN /\ closing' \in BOOLEAN
                      /\ table' \in [Refs -> Maybe(LogRows)] /\ faults' \in 0 .. MaxFaults
BY DEF LogTypeOK, JobRecords, Flushes

LEMMA BeginTypes ==
    ASSUME NEW b \in Triggers, NEW s \in Seq(LogRows), Begin(b, s)
    PROVE  flushing' \in Flushes /\ buffer' \in Seq(LogRows) /\ timer' \in BOOLEAN
<1>1. flushing' = [by |-> b, batch |-> s] /\ buffer' = <<>> /\ timer' = FALSE
    BY DEF Begin
<1>2. <<>> \in Seq(LogRows)
    OBVIOUS
<1> QED
    BY <1>1, <1>2 DEF Flushes

\* A job that is given a record.
LEMMA JobTypes ==
    ASSUME LogTypeOK, AttemptsLeft, NEW j \in Calls, NEW r \in JobRecords, r.tries < Attempts,
           job' = [job EXCEPT ![j] = r]
    PROVE  job' \in [Calls -> JobRecords \union {NoJob}] /\ AttemptsLeft'
<1>1. job \in [Calls -> JobRecords \union {NoJob}]
    BY LogTypeParts
<1> QED
    BY <1>1 DEF AttemptsLeft

LEMMA LogTypes ==
    ASSUME Typed, LogNext
    PROVE  LogTypeOK' /\ AttemptsLeft'
<1> USE EligibilityAssumption
<1>a. LogTypeOK /\ AttemptsLeft /\ Attempts \in Nat \ {0} /\ BatchSize \in Nat \ {0} /\ MaxFaults \in Nat
    BY DEF Typed, TypeOK
<1>1. ASSUME NEW j \in Calls, process(j) PROVE LogTypeOK' /\ AttemptsLeft'
  <2>1. job[j] \in JobRecords /\ job[j].data \in LogRows /\ job[j].tries < Attempts
      BY <1>a, <1>1 DEF LogTypeOK, AttemptsLeft, process, processFull, processFullLocked,
         processBuffered, Waiting, JobRecords
  <2>2. Append(buffer, job[j].data) \in Seq(LogRows)
      BY <2>1, <1>a DEF LogTypeOK
  <2>3. CASE processFull(j)
    <3>1. Job("active", job[j].tries, job[j].data) \in JobRecords
          /\ Job("active", job[j].tries, job[j].data).tries < Attempts
        BY <2>1 DEF Job, JobRecords, JobStates
    <3>2. job' \in [Calls -> JobRecords \union {NoJob}] /\ AttemptsLeft'
        BY <3>1, <2>3, <1>a, JobTypes DEF processFull, Started
    <3>3. flushing' \in Flushes /\ buffer' \in Seq(LogRows) /\ timer' \in BOOLEAN
        BY <2>2, <2>3, BeginTypes DEF processFull, Triggers
    <3> QED
        BY <3>2, <3>3, <2>3, <1>a, LogTypeParts DEF processFull
  <2>4. CASE processFullLocked(j) \/ processBuffered(j)
      BY <2>1, <2>2, <2>4, <1>a DEF LogTypeOK, AttemptsLeft, processFullLocked, processBuffered, Completed
  <2> QED
      BY <1>1, <2>3, <2>4 DEF process
<1>2. CASE timerFires
  <2>1. flushing' \in Flushes /\ buffer' \in Seq(LogRows) /\ timer' \in BOOLEAN
      BY <1>2, <1>a, LogTypeParts, BeginTypes DEF timerFires, Triggers
  <2> QED
      BY <2>1, <1>2, <1>a, LogTypeParts DEF timerFires, AttemptsLeft
<1>3. CASE flushDone
    BY <1>3, <1>a, InsertTypes DEF LogTypeOK, AttemptsLeft, flushDone, Completed
<1>4. CASE flushFails
  <2>1. ASSUME NEW j \in Calls
        PROVE  /\ job'[j] \in JobRecords \union {NoJob}
               /\ job'[j] # NoJob /\ job'[j].st # "failed" => job'[j].tries < Attempts
    <3>1. job[j] \in JobRecords \union {NoJob}
        BY <1>a DEF LogTypeOK, JobRecords
    <3>2. CASE j \in Active
      <4>1. job[j] \in JobRecords /\ job[j].tries < Attempts
          BY <3>1, <3>2, <1>a DEF Active, AttemptsLeft
      <4>2. job'[j] = Job(IF job[j].tries + 1 < Attempts THEN "waiting" ELSE "failed",
                          job[j].tries + 1, job[j].data)
          BY <1>4, <3>2 DEF flushFails, Retried
      <4> QED
          BY <4>1, <4>2, <1>a DEF JobRecords, Job, JobStates
    <3>3. CASE j \notin Active
        BY <3>1, <3>3, <1>4, <1>a DEF flushFails, Retried, AttemptsLeft
    <3> QED
        BY <3>2, <3>3
  <2>2. job' = [j \in Calls |-> job'[j]]
      BY <1>4 DEF flushFails, Retried
  <2>3. job' \in [Calls -> JobRecords \union {NoJob}] /\ AttemptsLeft'
      BY <2>1, <2>2 DEF AttemptsLeft
  <2> QED
      BY <2>3, <1>4, <1>a DEF LogTypeOK, JobRecords, flushFails
<1>5. CASE onModuleDestroy
  <2>1. flushing' \in Flushes \union {NoFlush} /\ buffer' \in Seq(LogRows) /\ timer' \in BOOLEAN
      BY <1>5, <1>a, LogTypeParts, BeginTypes DEF onModuleDestroy, Triggers
  <2>2. faults' \in 0 .. MaxFaults
      BY <1>5, <1>a, LogTypeParts DEF onModuleDestroy
  <2> QED
      BY <2>1, <2>2, <1>5, <1>a, LogTypeParts DEF onModuleDestroy, AttemptsLeft
<1>6. ASSUME Restart PROVE table' \in [Refs -> Maybe(LogRows)] /\ AttemptsLeft'
                            /\ job' \in [Calls -> JobRecords \union {NoJob}]
                            /\ buffer' \in Seq(LogRows) /\ flushing' = NoFlush
                            /\ timer' = FALSE /\ closing' = FALSE
  <2>1. table' \in [Refs -> Maybe(LogRows)]
      BY <1>6, <1>a, InsertTypes DEF Restart, LogTypeOK
  <2>2. ASSUME NEW j \in Calls
        PROVE  /\ job'[j] \in JobRecords \union {NoJob}
               /\ job'[j] # NoJob /\ job'[j].st # "failed" => job'[j].tries < Attempts
      BY <1>6, <1>a DEF Restart, LogTypeOK, AttemptsLeft, Job, JobRecords, JobStates
  <2>3. job' \in [Calls -> JobRecords \union {NoJob}] /\ AttemptsLeft'
      BY <2>2, <1>6 DEF Restart, AttemptsLeft
  <2> QED
      BY <2>1, <2>3, <1>6 DEF Restart
<1>7. CASE exit
    BY <1>6, <1>7, <1>a DEF exit, LogTypeOK, JobRecords
<1>8. CASE crash
    BY <1>6, <1>8, <1>a DEF crash, LogTypeOK, JobRecords
<1> QED
    BY <1>1, <1>2, <1>3, <1>4, <1>5, <1>7, <1>8 DEF LogNext

\* A request that is answered has handed its row to the queue, or failed to.
LEMMA RespondTypes ==
    ASSUME Typed, NEW c \in Calls, NEW legacy, FromLeg(legacy), respond(c, legacy)
    PROVE  /\ LogTypeOK' /\ AttemptsLeft'
           /\ answer' \in [Calls -> Maybe(Limits)] /\ call' \in [Calls -> {"new", "deciding", "answered"}]
           /\ snapshots' \subseteq Refs
<1> USE EligibilityAssumption
<1>1. PICK score \in Maybe(ScoreLimits) :
        LET result == selectFinal(c, legacy, score)
        IN  /\ call' = [call EXCEPT ![c] = "answered"]
            /\ answer' = [answer EXCEPT ![c] = result.limit]
            /\ \/ /\ addJob(c, Payload(c, result, score)) /\ UNCHANGED faults
                  /\ snapshots' = IF score # Unknown THEN snapshots \union {RefOf[c]} ELSE snapshots
               \/ /\ faults < MaxFaults /\ faults' = faults + 1
                  /\ UNCHANGED <<job, snapshots>>
            /\ UNCHANGED <<buffer, flushing, timer, closing, table>>
    BY DEF respond
<1>2. /\ selectFinal(c, legacy, score).limit \in Limits
      /\ Payload(c, selectFinal(c, legacy, score), score) \in LogRows
    BY SelectFinal
<1>3. answer' \in [Calls -> Maybe(Limits)] /\ call' \in [Calls -> {"new", "deciding", "answered"}]
      /\ snapshots' \subseteq Refs
    BY <1>1, <1>2 DEF Typed, TypeOK, Maybe
<1>4. CASE addJob(c, Payload(c, selectFinal(c, legacy, score), score)) /\ UNCHANGED faults
  <2> DEFINE r == Job("waiting", 0, Payload(c, selectFinal(c, legacy, score), score))
  <2>1. r \in JobRecords /\ r.tries < Attempts
      BY <1>2 DEF Job, JobRecords, JobStates
  <2>2. job' \in [Calls -> JobRecords \union {NoJob}] /\ AttemptsLeft'
      BY <2>1, <1>4, JobTypes DEF addJob, Typed, TypeOK
  <2> QED
      BY <2>2, <1>1, <1>3, <1>4, LogTypeParts DEF Typed, TypeOK
<1>5. CASE faults < MaxFaults /\ faults' = faults + 1 /\ UNCHANGED job
  <2>1. faults' \in 0 .. MaxFaults
      BY <1>5, LogTypeParts DEF Typed, TypeOK
  <2> QED
      BY <2>1, <1>1, <1>3, <1>5, LogTypeParts DEF Typed, TypeOK, AttemptsLeft
<1> QED
    BY <1>1, <1>3, <1>4, <1>5

-----------------------------------------------------------------------------
\* Steps of the legacy leg.

LegRecords == [pc : {"off", "cache", "row", "fill", "sent", "done"},
               flag : Maybe(FlagValues), result : Maybe(Results)]

LEMMA NewLeg ==
    ASSUME Sound, NEW c \in Calls, NEW r \in LegRecords, leg' = [leg EXCEPT ![c] = r], call' = call,
           call[c] = "deciding" /\ r.pc = "done" => FromLeg(r.result)
    PROVE  leg' \in [Calls -> LegRecords] /\ LegsSound'
<1>1. leg \in [Calls -> LegRecords]
    BY DEF Sound, Typed, TypeOK, LegRecords
<1>2. leg' \in [Calls -> LegRecords]
    BY <1>1
<1>3. ASSUME NEW d \in Calls, call'[d] = "deciding", leg'[d].pc = "done"
      PROVE  FromLeg(leg'[d].result)
  <2>1. CASE d = c
      BY <2>1, <1>1, <1>3
  <2>2. CASE d # c
      BY <2>2, <1>1, <1>3 DEF Sound, LegsSound
  <2> QED
      BY <2>1, <2>2
<1> QED
    BY <1>2, <1>3 DEF LegsSound

LEMMA SettledLeg ==
    ASSUME NEW c \in Calls, NEW r, FromLeg(r)
    PROVE  /\ Settled(c, r) \in LegRecords /\ Settled(c, r).pc = "done"
           /\ call[c] = "deciding" => FromLeg(Settled(c, r).result)
BY DEF Settled, Leg, LegRecords, Maybe, FromLeg

LEMMA OpenLeg ==
    ASSUME NEW p \in {"cache", "row", "fill", "sent"}, NEW v \in Maybe(FlagValues)
    PROVE  Leg(p, v, Unknown) \in LegRecords /\ Leg(p, v, Unknown).pc = p
BY DEF Leg, LegRecords, Maybe

\* The breaker.  It is closed only below its threshold after each of its moves.
Healthy(b) == b \in Circuits /\ (b.state = "CLOSED" => b.failures < CbThreshold)

LEMMA BreakerMoves ==
    ASSUME NEW b, Healthy(b)
    PROVE  Healthy(evaluateCircuit(b)) /\ Healthy(onSuccess(b)) /\ Healthy(onFailure(b))
<1> USE EligibilityAssumption
<1>1. /\ b.failures \in Nat /\ b.cooled \in BOOLEAN /\ b.over \in BOOLEAN
      /\ b.state \in {"CLOSED", "OPEN", "HALF_OPEN"}
    BY DEF Healthy, Circuits
<1>2. \A s \in {"CLOSED", "OPEN", "HALF_OPEN"} : \A n \in Nat : \A x, y \in BOOLEAN :
        /\ Circuit(s, n, x, y) \in Circuits
        /\ Circuit(s, n, x, y).state = s /\ Circuit(s, n, x, y).failures = n
    BY DEF Circuit, Circuits
<1>3. Healthy(evaluateCircuit(b))
    BY <1>1, <1>2 DEF evaluateCircuit, Healthy
<1>4. Healthy(onSuccess(b))
  <2>1. 0 \in Nat /\ 0 < CbThreshold /\ FALSE \in BOOLEAN
      OBVIOUS
  <2>2. CASE b.state = "HALF_OPEN"
    <3>1. onSuccess(b) = Circuit("CLOSED", 0, b.cooled, FALSE)
        BY <2>2 DEF onSuccess
    <3>2. /\ Circuit("CLOSED", 0, b.cooled, FALSE) \in Circuits
          /\ Circuit("CLOSED", 0, b.cooled, FALSE).failures = 0
        BY <2>1, <1>1 DEF Circuit, Circuits
    <3> QED
        BY <3>1, <3>2, <2>1 DEF Healthy
  <2> QED
      BY <2>2 DEF onSuccess
<1>5. Healthy(onFailure(b))
  <2> DEFINE n == 1 + (IF b.over THEN 0 ELSE b.failures)
  <2>1. n \in Nat
      BY <1>1
  <2>2. CASE b.state = "HALF_OPEN"
      BY <2>2, <1>1, <1>2 DEF onFailure, Healthy
  <2>3. CASE b.state # "HALF_OPEN" /\ n >= CbThreshold
      BY <2>1, <2>3, <1>1, <1>2 DEF onFailure, Healthy
  <2>4. CASE b.state # "HALF_OPEN" /\ ~(n >= CbThreshold)
    <3>1. onFailure(b) = Circuit(b.state, n, b.cooled, FALSE)
        BY <2>4, Zenon DEF onFailure
    <3>2. n < CbThreshold /\ FALSE \in BOOLEAN
        BY <2>1, <2>4
    <3> HIDE DEF n
    <3>3. /\ Circuit(b.state, n, b.cooled, FALSE) \in Circuits
          /\ Circuit(b.state, n, b.cooled, FALSE).failures = n
        BY <2>1, <3>2, <1>1 DEF Circuit, Circuits
    <3> QED
        BY <3>1, <3>2, <3>3 DEF Healthy
  <2> QED
      BY <2>2, <2>3, <2>4
<1> QED
    BY <1>3, <1>4, <1>5

\* A leg that knows the flag's value.
LEMMA Routes ==
    ASSUME Sound, Healthy(circuit), NEW c \in Calls, NEW v \in Maybe(FlagValues), route(c, v), call' = call
    PROVE  leg' \in [Calls -> LegRecords] /\ LegsSound' /\ Healthy(circuit')
<1>1. PICK r : leg' = [leg EXCEPT ![c] = r]
               /\ \/ r = Settled(c, stubDeny(resolveMode(v)))
                  \/ r = Settled(c, unavailable(resolveMode(v)))
                  \/ r = Leg("sent", v, Unknown)
    BY DEF route
<1>2. r \in LegRecords /\ (call[c] = "deciding" /\ r.pc = "done" => FromLeg(r.result))
    BY <1>1, LegResults, SettledLeg, OpenLeg
<1>3. leg' \in [Calls -> LegRecords] /\ LegsSound'
    BY <1>1, <1>2, NewLeg
<1>4. circuit' = circuit \/ circuit' = evaluateCircuit(circuit)
    BY DEF route
<1> QED
    BY <1>3, <1>4, BreakerMoves

LEMMA LegSteps ==
    ASSUME Sound, Healthy(circuit), NEW c \in Calls, legStep(c)
    PROVE  /\ leg' \in [Calls -> LegRecords] /\ LegsSound' /\ Healthy(circuit')
           /\ flagCache' \in Maybe(FlagValues)
           /\ UNCHANGED <<flag, writer, sets, call, answer, snapshots, aged, auditVars>>
<1>1. flag \in Maybe(FlagValues) /\ flagCache \in Maybe(FlagValues) /\ leg[c].flag \in Maybe(FlagValues)
    BY DEF Sound, Typed, TypeOK
<1>2. CASE readFlagCache(c)
  <2>1. CASE flagCache # Unknown
      BY <2>1, <1>1, <1>2, Routes DEF readFlagCache, flagVars
  <2>2. CASE flagCache = Unknown
      BY <2>2, <1>1, <1>2, NewLeg, OpenLeg DEF readFlagCache, flagVars, Maybe
  <2> QED
      BY <2>1, <2>2
<1>3. CASE readFlagRow(c)
  <2>1. CASE flag = Unknown
      BY <2>1, <1>1, <1>3, Routes DEF readFlagRow, flagVars
  <2>2. CASE flag # Unknown
      BY <2>2, <1>1, <1>3, NewLeg, OpenLeg DEF readFlagRow, flagVars
  <2> QED
      BY <2>1, <2>2
<1>4. CASE fillFlagCache(c)
    BY <1>1, <1>4, Routes DEF fillFlagCache
<1>5. CASE partnerAnswers(c)
  <2>1. PICK x \in PartnerLimits :
          leg' = [leg EXCEPT ![c] = Settled(c, proxied(x, resolveMode(leg[c].flag)))]
      BY <1>5 DEF partnerAnswers
  <2> QED
      BY <2>1, <1>1, <1>5, NewLeg, SettledLeg, LegResults, BreakerMoves DEF partnerAnswers, flagVars
<1>6. CASE partnerFails(c)
    BY <1>1, <1>6, NewLeg, SettledLeg, LegResults, BreakerMoves DEF partnerFails, flagVars
<1> QED
    BY <1>2, <1>3, <1>4, <1>5, <1>6 DEF legStep

-----------------------------------------------------------------------------
\* The rows on their way, after a step.
RowsTold ==
    /\ \A j \in Calls : job'[j] # NoJob => Tells(job'[j].data)
    /\ \A i \in DOMAIN buffer' : Tells(buffer'[i])
    /\ flushing' # NoFlush => \A i \in DOMAIN flushing'.batch : Tells(flushing'.batch[i])
    /\ \A t \in Refs : table'[t] # Unknown => Tells(table'[t]) /\ RefOf[table'[t].id] = t

\* A row keeps telling what was served: an answer is never changed.
LEMMA StillTold ==
    ASSUME RowsTold,
           \A c \in Calls : call[c] = "answered" => call'[c] = "answered" /\ answer'[c] = answer[c]
    PROVE  RowsSound'
<1>1. \A row : Tells(row) => /\ row \in LogRows /\ call'[row.id] = "answered"
                             /\ answer'[row.id] = deriveResponseLimit(row)
    BY DEF Tells, LogRows
<1> QED
    BY <1>1 DEF RowsTold, RowsSound, Tells, Locked

LEMMA AppendTold ==
    ASSUME NEW s \in Seq(LogRows), NEW r, Tells(r), \A i \in DOMAIN s : Tells(s[i])
    PROVE  \A i \in DOMAIN Append(s, r) : Tells(Append(s, r)[i])
<1>1. r \in LogRows
    BY DEF Tells
<1>2. ASSUME NEW i \in DOMAIN Append(s, r) PROVE Append(s, r)[i] = r \/ (i \in DOMAIN s /\ Append(s, r)[i] = s[i])
    BY <1>1, <1>2
<1> QED
    BY <1>2

\* An INSERT puts rows of its batch into the table, each under its trans_ref.
LEMMA InsertTold ==
    ASSUME Sound, Locked, NEW t \in Refs, NEW new, new = Insert(table, flushing.batch)[t], new # table[t]
    PROVE  table[t] = Unknown /\ Tells(new) /\ RefOf[new.id] = t
<1>1. table \in [Refs -> Maybe(LogRows)] /\ flushing.batch \in Seq(LogRows)
    BY InsertTypes DEF Sound, Typed, TypeOK, LogTypeOK
<1>2. table[t] = Unknown /\ \E i \in DOMAIN flushing.batch :
          RefOf[flushing.batch[i].id] = t /\ new = flushing.batch[i]
    BY <1>1, InsertOne
<1> QED
    BY <1>2 DEF Sound, RowsSound

LEMMA TableStep ==
    ASSUME LogNext
    PROVE  table' = table \/ (Locked /\ table' = Insert(table, flushing.batch))
BY DEF LogNext, process, processFull, processFullLocked, processBuffered, timerFires, flushDone,
   flushFails, onModuleDestroy, exit, crash, Restart

LEMMA LogRowsTold ==
    ASSUME Sound, LogNext
    PROVE  RowsTold
<1>1. ASSUME NEW t \in Refs, table'[t] # Unknown
      PROVE  Tells(table'[t]) /\ RefOf[table'[t].id] = t
  <2>1. CASE table'[t] = table[t]
      BY <2>1, <1>1 DEF Sound, RowsSound
  <2>2. CASE table'[t] # table[t]
      BY <2>2, TableStep, InsertTold
  <2> QED
      BY <2>1, <2>2
<1>2. job \in [Calls -> JobRecords \union {NoJob}] /\ buffer \in Seq(LogRows)
    BY LogTypeParts DEF Sound, Typed, TypeOK
<1>3. ASSUME NEW j \in Calls PROVE job'[j] # NoJob => job[j] # NoJob /\ job'[j].data = job[j].data
    BY <1>2, <1>3, JobsNotNull DEF LogNext, process, processFull, processFullLocked, processBuffered, Waiting,
       timerFires, flushDone, flushFails, onModuleDestroy, exit, crash, Restart, Started, Completed,
       Retried, Job, Active
<1>4. \A j \in Calls : job'[j] # NoJob => Tells(job'[j].data)
    BY <1>3 DEF Sound, RowsSound
<1>5. ASSUME NEW j \in Calls, process(j)
      PROVE  /\ \A i \in DOMAIN buffer' : Tells(buffer'[i])
             /\ flushing' # NoFlush => \A i \in DOMAIN flushing'.batch : Tells(flushing'.batch[i])
  <2>1. Tells(job[j].data)
      BY <1>5 DEF process, processFull, processFullLocked, processBuffered, Waiting, Sound, RowsSound
  <2>2. \A i \in DOMAIN Append(buffer, job[j].data) : Tells(Append(buffer, job[j].data)[i])
      BY <1>2, <2>1, AppendTold DEF Sound, RowsSound
  <2>3. CASE processFull(j)
      BY <2>2, <2>3 DEF processFull, Begin
  <2>4. CASE processFullLocked(j) \/ processBuffered(j)
      BY <2>2, <2>4 DEF processFullLocked, processBuffered, Sound, RowsSound, Locked
  <2> QED
      BY <1>5, <2>3, <2>4 DEF process
<1>6. ASSUME NEW trigger, Begin(trigger, buffer)
      PROVE  /\ \A i \in DOMAIN buffer' : Tells(buffer'[i])
             /\ flushing' # NoFlush => \A i \in DOMAIN flushing'.batch : Tells(flushing'.batch[i])
    BY <1>6 DEF Begin, Sound, RowsSound
<1>7. \/ \E j \in Calls : process(j)
      \/ \E trigger : Begin(trigger, buffer)
      \/ (buffer' = buffer \/ buffer' = <<>>) /\ (flushing' = flushing \/ flushing' = NoFlush)
    BY DEF LogNext, timerFires, flushDone, flushFails, onModuleDestroy, exit, crash, Restart
<1>8. /\ \A i \in DOMAIN buffer' : Tells(buffer'[i])
      /\ flushing' # NoFlush => \A i \in DOMAIN flushing'.batch : Tells(flushing'.batch[i])
    BY <1>5, <1>6, <1>7 DEF Sound, RowsSound, Locked
<1> QED
    BY <1>1, <1>4, <1>8 DEF RowsTold

\* A request that is answered: others keep their answers, and the row that may
\* be logged tells what was served.
LEMMA RespondSound ==
    ASSUME Sound, Healthy(circuit), NEW c \in Calls, NEW legacy, FromLeg(legacy),
           call[c] = "deciding", respond(c, legacy)
    PROVE  /\ RowsSound' /\ LegsSound' /\ Unanswered' /\ leg' \in [Calls -> LegRecords]
           /\ answer'[c] \in Limits
           /\ UNCHANGED <<flagVars, circuit, aged, buffer, flushing, timer, closing, table>>
<1>1. PICK score \in Maybe(ScoreLimits) :
        LET result == selectFinal(c, legacy, score)
        IN  /\ call' = [call EXCEPT ![c] = "answered"]
            /\ answer' = [answer EXCEPT ![c] = result.limit]
            /\ leg' = [leg EXCEPT ![c] = Leg(leg[c].pc, leg[c].flag, Unknown)]
            /\ addJob(c, Payload(c, result, score)) \/ UNCHANGED job
            /\ UNCHANGED <<flagVars, circuit, aged, buffer, flushing, timer, closing, table>>
    BY DEF respond
<1> DEFINE result == selectFinal(c, legacy, score)
           row == Payload(c, result, score)
<1>2. result.limit \in Limits /\ row \in LogRows /\ row.id = c /\ deriveResponseLimit(row) = result.limit
    BY SelectFinal
<1>3. /\ call \in [Calls -> {"new", "deciding", "answered"}] /\ answer \in [Calls -> Maybe(Limits)]
      /\ leg \in [Calls -> LegRecords]
    BY DEF Sound, Typed, TypeOK, LegRecords
<1> HIDE DEF result, row
<1>4. call'[c] = "answered" /\ answer'[c] = result.limit
      /\ \A d \in Calls : d # c => call'[d] = call[d] /\ answer'[d] = answer[d] /\ leg'[d] = leg[d]
    BY <1>1, <1>3 DEF result
<1>5. leg' \in [Calls -> LegRecords] /\ LegsSound' /\ Unanswered'
  <2>1. Leg(leg[c].pc, leg[c].flag, Unknown) \in LegRecords
      BY <1>3 DEF Leg, LegRecords, Maybe
  <2> QED
      BY <2>1, <1>1, <1>3, <1>4 DEF Sound, LegsSound, Unanswered
<1>6. \A x : Tells(x) => /\ x \in LogRows /\ call'[x.id] = "answered"
                         /\ answer'[x.id] = deriveResponseLimit(x)
    BY <1>4 DEF Tells, LogRows
<1>7. ASSUME NEW j \in Calls, job'[j] # NoJob
      PROVE  \/ job'[j].data = row
             \/ job[j] # NoJob /\ job'[j] = job[j]
  <2>1. CASE job' = job
      BY <2>1, <1>7
  <2>2. CASE addJob(c, row)
    <3>1. job' = [job EXCEPT ![c] = Job("waiting", 0, row)] /\ job \in [Calls -> JobRecords \union {NoJob}]
        BY <2>2, LogTypeParts DEF addJob, Sound, Typed, TypeOK
    <3> QED
        BY <3>1, <1>7 DEF Job
  <2> QED
      BY <2>1, <2>2, <1>1 DEF row, result
<1>8. RowsSound'
  <2>1. \A j \in Calls : job'[j] # NoJob =>
          /\ job'[j].data \in LogRows /\ call'[job'[j].data.id] = "answered"
          /\ answer'[job'[j].data.id] = deriveResponseLimit(job'[j].data)
      BY <1>2, <1>4, <1>6, <1>7 DEF Sound, RowsSound
  <2> QED
      BY <2>1, <1>1, <1>6 DEF Sound, RowsSound, Tells, Locked
<1> QED
    BY <1>1, <1>2, <1>4, <1>5, <1>8

-----------------------------------------------------------------------------
\* The inductive invariant.
Inv == Sound /\ Healthy(circuit)

LEMMA TypeParts ==
    TypeOK' <=> /\ flag' \in Maybe(FlagValues) /\ flagCache' \in Maybe(FlagValues)
                /\ writer' \in [pc : {"idle", "fill", "save", "del"}, value : Maybe(FlagValues)]
                /\ sets' \in 0 .. MaxSets
                /\ circuit' \in Circuits
                /\ call' \in [Calls -> {"new", "deciding", "answered"}]
                /\ leg' \in [Calls -> LegRecords]
                /\ answer' \in [Calls -> Maybe(Limits)]
                /\ snapshots' \subseteq Refs /\ aged' \subseteq Refs
                /\ LogTypeOK'
BY DEF TypeOK, LegRecords

\* A step that leaves the audit log alone.
LEMMA LogKept ==
    ASSUME Sound, UNCHANGED auditVars,
           \A c \in Calls : call[c] = "answered" => call'[c] = "answered" /\ answer'[c] = answer[c]
    PROVE  LogTypeOK' /\ AttemptsLeft' /\ RowsSound'
<1>1. LogTypeOK' /\ AttemptsLeft'
    BY DEF Sound, Typed, TypeOK, LogTypeOK, AttemptsLeft, auditVars
<1>2. RowsTold
    BY DEF Sound, RowsSound, RowsTold, auditVars, Locked
<1> QED
    BY <1>1, <1>2, StillTold

LEMMA InitInv == Init => Inv
<1> SUFFICES ASSUME Init PROVE Inv
    OBVIOUS
<1> USE EligibilityAssumption
<1>1. LogTypeOK /\ AttemptsLeft
  <2>1. <<>> \in Seq(LogRows) /\ 0 \in 0 .. MaxFaults
      OBVIOUS
  <2> QED
      BY <2>1 DEF Init, LogInit, LogTypeOK, AttemptsLeft, Maybe
<1>2. TypeOK
    BY <1>1 DEF Init, TypeOK, Maybe, Circuits
<1>3. RowsSound /\ LegsSound /\ Unanswered
    BY DEF Init, LogInit, RowsSound, LegsSound, Unanswered, Locked
<1>4. circuit.state = "CLOSED" => circuit.failures < CbThreshold
    BY DEF Init
<1> QED
    BY <1>1, <1>2, <1>3, <1>4 DEF Inv, Sound, Typed, Healthy, TypeOK

\* The flag and the clocks: neither requests nor the log.
LEMMA BesideSteps ==
    ASSUME Inv,
           \/ flagUpdate \/ writerStep \/ flagExpires \/ circuitCools \/ circuitWindowEnds
           \/ \E t \in Refs : windowEnds(t)
    PROVE  Inv' /\ UNCHANGED <<call, leg, answer, auditVars>>
<1> USE EligibilityAssumption
<1>1. UNCHANGED <<call, leg, answer, snapshots, auditVars>>
    BY DEF flagUpdate, writerStep, flagUpdateFill, flagSave, flagDel, flagExpires, circuitCools,
       circuitWindowEnds, windowEnds, requestVars
<1>2. LogTypeOK' /\ AttemptsLeft' /\ RowsSound'
    BY <1>1, LogKept DEF Inv
<1>3. LegsSound' /\ Unanswered'
    BY <1>1 DEF Inv, Sound, LegsSound, Unanswered
<1>4. /\ flag \in Maybe(FlagValues) /\ flagCache \in Maybe(FlagValues)
      /\ writer \in [pc : {"idle", "fill", "save", "del"}, value : Maybe(FlagValues)]
      /\ sets \in 0 .. MaxSets /\ aged \subseteq Refs /\ snapshots \subseteq Refs
      /\ call \in [Calls -> {"new", "deciding", "answered"}]
      /\ leg \in [Calls -> LegRecords] /\ answer \in [Calls -> Maybe(Limits)]
    BY DEF Inv, Sound, Typed, TypeOK, LegRecords
<1>5. /\ flag' \in Maybe(FlagValues) /\ flagCache' \in Maybe(FlagValues)
      /\ writer' \in [pc : {"idle", "fill", "save", "del"}, value : Maybe(FlagValues)]
      /\ sets' \in 0 .. MaxSets
  <2>1. CASE flagUpdate
      BY <2>1, <1>4 DEF flagUpdate, Maybe
  <2>2. CASE writerStep
      BY <2>2, <1>4 DEF writerStep, flagUpdateFill, flagSave, flagDel, Maybe
  <2>3. CASE flagExpires
      BY <2>3, <1>4 DEF flagExpires, Maybe
  <2>4. CASE circuitCools \/ circuitWindowEnds \/ \E t \in Refs : windowEnds(t)
      BY <2>4, <1>4 DEF circuitCools, circuitWindowEnds, windowEnds, flagVars
  <2> QED
      BY <2>1, <2>2, <2>3, <2>4
<1>6. aged' \subseteq Refs
    BY <1>4 DEF flagUpdate, writerStep, flagUpdateFill, flagSave, flagDel, flagExpires, circuitCools,
       circuitWindowEnds, windowEnds, requestVars
<1>7. Healthy(circuit')
  <2>1. CASE circuit' = circuit
      BY <2>1 DEF Inv
  <2>2. CASE circuit' = [circuit EXCEPT !.cooled = TRUE] \/ circuit' = [circuit EXCEPT !.over = TRUE]
      BY <2>2 DEF Inv, Healthy, Circuits
  <2> QED
      BY <2>1, <2>2 DEF flagUpdate, writerStep, flagUpdateFill, flagSave, flagDel, flagExpires, circuitCools,
         circuitWindowEnds, windowEnds, requestVars
<1> QED
    BY <1>1, <1>2, <1>3, <1>4, <1>5, <1>6, <1>7, TypeParts DEF Inv, Sound, Typed, Healthy

\* A request that comes in.
LEMMA ArrivalSteps ==
    ASSUME Inv, NEW c \in Calls, replay(c) \/ begin(c)
    PROVE  Inv'
<1>1. /\ call \in [Calls -> {"new", "deciding", "answered"}]
      /\ leg \in [Calls -> LegRecords] /\ answer \in [Calls -> Maybe(Limits)]
    BY DEF Inv, Sound, Typed, TypeOK, LegRecords
<1>2. CASE replay(c)
  <2>1. table[RefOf[c]] \in LogRows
      BY <1>2, EligibilityAssumption DEF replay, Remembered, Inv, Sound, Typed, TypeOK, LogTypeOK, Maybe
  <2>2. deriveResponseLimit(table[RefOf[c]]) \in Maybe(Limits)
      BY <2>1, RowLimit DEF Maybe
  <2>3. call' = [call EXCEPT ![c] = "answered"]
        /\ answer' = [answer EXCEPT ![c] = deriveResponseLimit(table[RefOf[c]])] /\ call[c] = "new"
      BY <1>2 DEF replay
  <2>4. LogTypeOK' /\ AttemptsLeft' /\ RowsSound'
      BY <2>3, <1>1, <1>2, LogKept DEF replay, Inv
  <2>5. LegsSound' /\ Unanswered'
      BY <2>3, <1>1, <1>2 DEF replay, Inv, Sound, LegsSound, Unanswered
  <2>6. call' \in [Calls -> {"new", "deciding", "answered"}] /\ answer' \in [Calls -> Maybe(Limits)]
      BY <2>2, <2>3, <1>1
  <2> QED
      BY <2>4, <2>5, <2>6, <1>1, <1>2, TypeParts DEF replay, flagVars, Inv, Sound, Typed, TypeOK
<1>3. CASE begin(c)
  <2>1. Leg("cache", Unknown, Unknown) \in LegRecords /\ Leg("cache", Unknown, Unknown).pc = "cache"
      BY OpenLeg DEF Maybe
  <2>2. call' = [call EXCEPT ![c] = "deciding"] /\ call[c] = "new" /\ answer' = answer
        /\ leg' = [leg EXCEPT ![c] = Leg("cache", Unknown, Unknown)]
      BY <1>3 DEF begin
  <2>3. LogTypeOK' /\ AttemptsLeft' /\ RowsSound'
      BY <2>2, <1>1, <1>3, LogKept DEF begin, Inv
  <2>4. LegsSound' /\ Unanswered'
      BY <2>1, <2>2, <1>1 DEF Inv, Sound, LegsSound, Unanswered
  <2>5. call' \in [Calls -> {"new", "deciding", "answered"}] /\ leg' \in [Calls -> LegRecords]
      BY <2>1, <2>2, <1>1
  <2> QED
      BY <2>2, <2>3, <2>4, <2>5, <1>1, <1>3, TypeParts DEF begin, flagVars, Inv, Sound, Typed, TypeOK
<1> QED
    BY <1>2, <1>3

\* An answer: which decision it takes, and that it is the end of the request.
LEMMA RespondSteps ==
    ASSUME Inv, NEW c \in Calls, respondInTime(c) \/ respondOutOfBudget(c)
    PROVE  \E legacy : FromLeg(legacy) /\ call[c] = "deciding" /\ respond(c, legacy)
<1>1. FromLeg(fallback)
    BY LegResults
<1>2. CASE respondInTime(c)
    BY <1>2 DEF respondInTime, Inv, Sound, LegsSound
<1>3. CASE respondOutOfBudget(c)
    BY <1>1, <1>3 DEF respondOutOfBudget
<1> QED
    BY <1>2, <1>3

LEMMA AnswerSteps ==
    ASSUME Inv, NEW c \in Calls, respondInTime(c) \/ respondOutOfBudget(c)
    PROVE  Inv'
<1>1. PICK legacy : FromLeg(legacy) /\ call[c] = "deciding" /\ respond(c, legacy)
    BY RespondSteps
<1>2. /\ RowsSound' /\ LegsSound' /\ Unanswered' /\ leg' \in [Calls -> LegRecords]
      /\ UNCHANGED <<flagVars, circuit, aged, buffer, flushing, timer, closing, table>>
    BY <1>1, RespondSound DEF Inv
<1>3. /\ LogTypeOK' /\ AttemptsLeft'
      /\ answer' \in [Calls -> Maybe(Limits)] /\ call' \in [Calls -> {"new", "deciding", "answered"}]
      /\ snapshots' \subseteq Refs
    BY <1>1, RespondTypes DEF Inv, Sound
<1> QED
    BY <1>2, <1>3, TypeParts DEF flagVars, Inv, Sound, Typed, TypeOK

LEMMA LegInv ==
    ASSUME Inv, NEW c \in Calls, legStep(c)
    PROVE  Inv'
<1>1. /\ leg' \in [Calls -> LegRecords] /\ LegsSound' /\ Healthy(circuit')
      /\ flagCache' \in Maybe(FlagValues)
      /\ UNCHANGED <<flag, writer, sets, call, answer, snapshots, aged, auditVars>>
    BY LegSteps DEF Inv
<1>2. LogTypeOK' /\ AttemptsLeft' /\ RowsSound'
    BY <1>1, LogKept DEF Inv
<1> QED
    BY <1>1, <1>2, TypeParts DEF Inv, Sound, Typed, TypeOK, Unanswered, Healthy

LEMMA LogInv ==
    ASSUME Inv, logStep
    PROVE  Inv'
<1>1. LogTypeOK' /\ AttemptsLeft' /\ RowsTold
    BY LogTypes, LogRowsTold DEF logStep, Inv, Sound
<1>2. RowsSound'
    BY <1>1, StillTold DEF logStep, requestVars
<1> QED
    BY <1>1, <1>2, TypeParts DEF logStep, flagVars, requestVars, Inv, Sound, Typed, TypeOK, Unanswered,
       LegsSound, LegRecords

LEMMA NextInv == Inv /\ [Next]_vars => Inv'
<1> SUFFICES ASSUME Inv, [Next]_vars PROVE Inv'
    OBVIOUS
<1>1. CASE UNCHANGED vars
  <2>1. LogTypeOK' /\ AttemptsLeft' /\ RowsSound'
      BY <1>1, LogKept DEF vars, flagVars, requestVars, Inv
  <2> QED
      BY <2>1, <1>1, TypeParts DEF vars, flagVars, requestVars, Inv, Sound, Typed, TypeOK, Unanswered,
         LegsSound, LegRecords
<1>2. CASE \E c \in Calls : replay(c) \/ begin(c)
    BY <1>2, ArrivalSteps
<1>3. CASE \E c \in Calls : legStep(c)
    BY <1>3, LegInv
<1>4. CASE \E c \in Calls : respondInTime(c) \/ respondOutOfBudget(c)
    BY <1>4, AnswerSteps
<1>5. CASE flagUpdate \/ writerStep \/ flagExpires \/ circuitCools \/ circuitWindowEnds
           \/ \E t \in Refs : windowEnds(t)
    BY <1>5, BesideSteps
<1>6. CASE logStep
    BY <1>6, LogInv
<1> QED
    BY <1>1, <1>2, <1>3, <1>4, <1>5, <1>6 DEF Next

\* In every behaviour, whatever row is on its way to the audit table, or in it,
\* is read back as the limit its request was answered with, and everything has
\* its type (EligibilityController.profile, EligibilityLogProcessor).
THEOREM EligibilityInvariant == Spec => []Inv
<1> QED
    BY InitInv, NextInv, PTL DEF Spec

\* The breaker is closed only below its threshold, for every threshold, number
\* of requests in flight and order of their answers (TeamweeAdapter).
THEOREM BreakerClosedBelowThreshold == Spec => []ClosedBelowThreshold
<1>1. Inv => ClosedBelowThreshold
    BY DEF Inv, Healthy, ClosedBelowThreshold
<1> QED
    BY <1>1, EligibilityInvariant, PTL

-----------------------------------------------------------------------------
\* Eligibility implements ProfileContract.

\* What the contract sees.
Asking == {c \in Calls : call[c] = "deciding"}
Recorded == [t \in Refs |-> IF table[t] = Unknown THEN Unknown ELSE deriveResponseLimit(table[t])]

LEMMA ContractInit == Init => Contract!Init
BY DEF Init, Contract!Init

\* What is on file is a limit, and the null only when nothing is.
LEMMA OnFile ==
    ASSUME Inv
    PROVE  /\ Recorded \in [Refs -> Maybe(Limits)]
           /\ \A t \in Refs : Recorded[t] = Unknown <=> table[t] = Unknown
<1>1. table \in [Refs -> Maybe(LogRows)] /\ Unknown \notin Limits
    BY EligibilityAssumption DEF Inv, Sound, Typed, TypeOK, LogTypeOK
<1>2. ASSUME NEW t \in Refs, table[t] # Unknown PROVE Recorded[t] \in Limits
    BY <1>1, <1>2, RowLimit DEF Recorded, Maybe
<1>3. \A t \in Refs : table[t] = Unknown => Recorded[t] = Unknown
    BY DEF Recorded
<1> QED
    BY <1>1, <1>2, <1>3 DEF Recorded, Maybe

LEMMA RecordedType == Inv => Recorded \in [Refs -> Maybe(Limits)]
BY OnFile

\* The contract sees nothing of a step that leaves these alone.
LEMMA Unseen ==
    ASSUME UNCHANGED <<call, answer, table, aged>>
    PROVE  UNCHANGED Contract!contractVars
BY DEF Contract!contractVars

LEMMA ContractArrival ==
    ASSUME Inv, NEW c \in Calls, replay(c) \/ begin(c)
    PROVE  Contract!Replay(c) \/ Contract!Ask(c)
<1> USE EligibilityAssumption
<1>1. RefOf[c] \in Refs /\ call \in [Calls -> {"new", "deciding", "answered"}]
      /\ answer \in [Calls -> Maybe(Limits)] /\ call[c] = "new" /\ answer[c] = Unknown
    BY DEF Inv, Sound, Typed, TypeOK, Unanswered, replay, begin
<1>2. CASE replay(c)
  <2>1. table[RefOf[c]] # Unknown /\ RefOf[c] \notin aged
        /\ call' = [call EXCEPT ![c] = "answered"]
        /\ answer' = [answer EXCEPT ![c] = deriveResponseLimit(table[RefOf[c]])]
        /\ UNCHANGED <<table, aged>>
      BY <1>2 DEF replay, Remembered, auditVars
  <2>2. Recorded[RefOf[c]] # Unknown /\ Recorded[RefOf[c]] = deriveResponseLimit(table[RefOf[c]])
      BY <2>1, <1>1, OnFile DEF Recorded
  <2>3. Asking' = Asking
      BY <2>1, <1>1 DEF Asking
  <2> QED
      BY <1>1, <2>1, <2>2, <2>3 DEF Contract!Replay, Asking, Recorded
<1>3. CASE begin(c)
  <2>1. ~(table[RefOf[c]] # Unknown /\ RefOf[c] \notin aged)
        /\ call' = [call EXCEPT ![c] = "deciding"] /\ UNCHANGED <<answer, table, aged>>
      BY <1>3 DEF begin, Remembered, auditVars
  <2>2. RefOf[c] \in Refs \ aged => Recorded[RefOf[c]] = Unknown
      BY <2>1, <1>1, OnFile
  <2>3. Asking' = Asking \union {c}
      BY <2>1, <1>1 DEF Asking
  <2> QED
      BY <1>1, <2>1, <2>2, <2>3 DEF Contract!Ask, Asking, Recorded
<1> QED
    BY <1>2, <1>3

LEMMA ContractAnswer ==
    ASSUME Inv, NEW c \in Calls, respondInTime(c) \/ respondOutOfBudget(c)
    PROVE  Contract!Decide(c)
<1>1. PICK legacy : FromLeg(legacy) /\ call[c] = "deciding" /\ respond(c, legacy)
    BY RespondSteps
<1>2. answer'[c] \in Limits /\ UNCHANGED <<aged, table>>
    BY <1>1, RespondSound DEF Inv
<1>3. call' = [call EXCEPT ![c] = "answered"] /\ \E v : answer' = [answer EXCEPT ![c] = v]
    BY <1>1 DEF respond
<1>4. call \in [Calls -> {"new", "deciding", "answered"}] /\ answer \in [Calls -> Maybe(Limits)]
    BY DEF Inv, Sound, Typed, TypeOK
<1>5. Asking' = Asking \ {c} /\ c \in Asking
    BY <1>1, <1>3, <1>4 DEF Asking
<1>6. \E v \in Limits : answer' = [answer EXCEPT ![c] = v]
    BY <1>2, <1>3, <1>4
<1> QED
    BY <1>2, <1>5, <1>6 DEF Contract!Decide, Asking

LEMMA ContractRecord ==
    ASSUME Inv, logStep
    PROVE  Contract!Record
<1>1. UNCHANGED <<call, answer, aged>> /\ Inv'
    BY LogInv DEF logStep, requestVars
<1>2. (Recorded \in [Refs -> Maybe(Limits)])'
    BY <1>1, RecordedType, PTL
<1>3. ASSUME NEW t \in Refs, Recorded'[t] # Recorded[t]
      PROVE  Recorded[t] = Unknown /\ Recorded'[t] \in Contract!Served(t)
  <2>1. table'[t] # table[t] /\ Locked /\ table' = Insert(table, flushing.batch)
      BY <1>3, TableStep DEF Recorded, logStep
  <2>2. table[t] = Unknown /\ Tells(table'[t]) /\ RefOf[table'[t].id] = t
      BY <2>1, InsertTold DEF Inv
  <2>3. table'[t] # Unknown /\ table'[t].id \in Calls
      BY <2>2, NullsAssumption DEF Tells, LogRows
  <2>4. Recorded'[t] = answer[table'[t].id]
      BY <2>2, <2>3 DEF Recorded, Tells
  <2>5. Recorded[t] = Unknown
      BY <2>2 DEF Recorded
  <2> QED
      BY <1>3, <2>2, <2>3, <2>4, <2>5 DEF Contract!Served
<1> QED
    BY <1>1, <1>2, <1>3 DEF Contract!Record, Recorded, Maybe

LEMMA ContractStep == Inv /\ [Next]_vars => [Contract!Next]_(Contract!contractVars)
<1> SUFFICES ASSUME Inv, [Next]_vars PROVE [Contract!Next]_(Contract!contractVars)
    OBVIOUS
<1>1. CASE UNCHANGED vars
    BY <1>1, Unseen DEF vars, requestVars, auditVars
<1>2. CASE \E c \in Calls : replay(c) \/ begin(c)
    BY <1>2, ContractArrival DEF Contract!Next
<1>3. CASE \E c \in Calls : legStep(c)
    BY <1>3, LegSteps, Unseen DEF Inv, auditVars
<1>4. CASE \E c \in Calls : respondInTime(c) \/ respondOutOfBudget(c)
    BY <1>4, ContractAnswer DEF Contract!Next
<1>5. CASE flagUpdate \/ writerStep \/ flagExpires \/ circuitCools \/ circuitWindowEnds
    BY <1>5, Unseen DEF flagUpdate, writerStep, flagUpdateFill, flagSave, flagDel, flagExpires, circuitCools,
       circuitWindowEnds, requestVars, auditVars
<1>6. CASE \E t \in Refs : windowEnds(t)
  <2>1. PICK t \in Refs : windowEnds(t)
      BY <1>6
  <2>2. Recorded[t] # Unknown
      BY <2>1, OnFile DEF windowEnds, Remembered
  <2>3. (Refs \ aged)' = (Refs \ aged) \ {t} /\ UNCHANGED <<call, answer, table>>
      BY <2>1 DEF windowEnds, auditVars
  <2>4. Contract!Expire(t)
      BY <2>2, <2>3 DEF Contract!Expire, Recorded
  <2> QED
      BY <2>4 DEF Contract!Next
<1>7. CASE logStep
    BY <1>7, ContractRecord DEF Contract!Next
<1> QED
    BY <1>1, <1>2, <1>3, <1>4, <1>5, <1>6, <1>7 DEF Next

\* GET /profile keeps its contract, for any number of requests, trans_refs and
\* limits, any batch size, and any failures of the log: once a decision is on
\* file it is the one that was served and the one every repetition gets
\* (ProfileIdempotencyService, EligibilityLogProcessor).
THEOREM ImplementsContract == Spec => KeepsContract
<1>1. Spec => Contract!Init /\ [][Contract!Next]_(Contract!contractVars)
    BY ContractInit, ContractStep, EligibilityInvariant, PTL DEF Spec
<1> QED
    BY <1>1 DEF KeepsContract, Contract!Spec
-----------------------------------------------------------------------------
\* No decision is dropped while nothing fails.

KeptInv == Carried /\ NotBegun /\ NoDecisionDropped

\* A decision that was served, with its leg begun, is on file or on its way.
Due(c) == call[c] = "answered" /\ leg[c].pc # "off"
Safe(c) == table[RefOf[c]] # Unknown \/ \E row \in InFlight : row.id = c

LEMMA FaultsCount ==
    ASSUME Inv, LogNext, faults' = 0
    PROVE  faults = 0 /\ (\/ \E j \in Calls : process(j)
                          \/ timerFires \/ flushDone \/ exit)
<1>1. faults \in Nat
    BY EligibilityAssumption DEF Inv, Sound, Typed, TypeOK, LogTypeOK
<1>2. faults + 1 # 0
    BY <1>1
<1>3. ~(flushFails \/ onModuleDestroy \/ crash)
    BY <1>2 DEF flushFails, onModuleDestroy, crash
<1>4. (\E j \in Calls : process(j)) \/ timerFires \/ flushDone \/ exit
    BY <1>3 DEF LogNext
<1>5. faults' = faults
    BY <1>4 DEF process, processFull, processFullLocked, processBuffered, timerFires, flushDone, exit
<1> QED
    BY <1>4, <1>5

\* Rows stay on their way while the worker takes a job or its timer fires.
LEMMA ProcessKeeps ==
    ASSUME Inv, Carried, faults = 0, UNCHANGED faults, (\E j \in Calls : process(j)) \/ timerFires
    PROVE  Carried' /\ InFlight \subseteq InFlight' /\ UNCHANGED table
<1>1. /\ job \in [Calls -> JobRecords \union {NoJob}] /\ buffer \in Seq(LogRows)
      /\ flushing \in Flushes \union {NoFlush}
    BY LogTypeParts DEF Inv, Sound, Typed, TypeOK
<1>2. /\ ~closing
      /\ \A j \in Calls : job[j] # NoJob /\ job[j].st = "active" =>
            Locked /\ \E i \in DOMAIN flushing.batch : flushing.batch[i] = job[j].data
      /\ \A j \in Calls : job[j] # NoJob => job[j].st # "failed"
    BY DEF Carried
<1>3. ASSUME NEW j \in Calls, process(j)
      PROVE  Carried' /\ InFlight \subseteq InFlight' /\ UNCHANGED table
  <2>1. job[j] \in JobRecords /\ job[j].data \in LogRows /\ job[j] # NoJob
      BY <1>1, <1>3 DEF process, processFull, processFullLocked, processBuffered, Waiting, JobRecords
  <2> DEFINE longer == Append(buffer, job[j].data)
  <2>2. /\ longer \in Seq(LogRows)
        /\ \A i \in DOMAIN buffer : i \in DOMAIN longer /\ longer[i] = buffer[i]
        /\ \E i \in DOMAIN longer : longer[i] = job[j].data
    <3>1. longer[Len(buffer) + 1] = job[j].data /\ Len(buffer) + 1 \in DOMAIN longer
        BY <1>1, <2>1
    <3> QED
        BY <1>1, <2>1, <3>1
  <2> HIDE DEF longer
  <2>3. CASE processFull(j)
    <3>1. /\ ~Locked /\ flushing' = [by |-> "job", batch |-> longer] /\ buffer' = <<>>
          /\ job' = [job EXCEPT ![j] = Job("active", job[j].tries, job[j].data)]
          /\ UNCHANGED <<closing, table>>
        BY <2>3 DEF processFull, Begin, Started, longer
    <3>2. flushing' # NoFlush
        BY <3>1, <2>2, FlushesNotNull DEF Triggers
    <3>3. Job("active", job[j].tries, job[j].data) \in JobRecords
        BY <2>1 DEF Job, JobRecords, JobStates
    <3>4. \A k \in Calls : \/ k = j /\ job'[k] = Job("active", job[j].tries, job[j].data)
                           \/ k # j /\ job'[k] = job[k]
        BY <3>1, <1>1
    <3>5. Carried'
        BY <3>1, <3>2, <3>4, <1>2, <2>2 DEF Carried, Job, Locked
    <3>6. ASSUME NEW row \in InFlight PROVE row \in InFlight'
      <4>1. CASE \E k \in Calls : job[k] # NoJob /\ job[k].st # "failed" /\ row = job[k].data
        <5>1. PICK k \in Calls : job[k] # NoJob /\ job[k].st # "failed" /\ row = job[k].data
            BY <4>1
        <5>2. CASE k = j
          <6>1. job'[k] # NoJob /\ job'[k].st # "failed" /\ job'[k].data = row
              BY <3>3, <3>4, <5>1, <5>2, JobsNotNull DEF Job
          <6> QED
              BY <6>1 DEF InFlight
        <5>3. CASE k # j
            BY <3>4, <5>1, <5>3 DEF InFlight
        <5> QED
            BY <5>2, <5>3
      <4>2. CASE \E i \in DOMAIN buffer : row = buffer[i]
          BY <4>2, <3>1, <3>2, <2>2 DEF InFlight, Locked
      <4> QED
          BY <4>1, <4>2, <3>1 DEF InFlight
    <3> QED
        BY <3>1, <3>5, <3>6
  <2>4. CASE processFullLocked(j) \/ processBuffered(j)
    <3>1. /\ buffer' = longer /\ job' = Completed({j})
          /\ UNCHANGED <<flushing, closing, table>>
        BY <2>4 DEF processFullLocked, processBuffered, longer
    <3>2. \A k \in Calls : \/ k = j /\ job'[k] = NoJob
                           \/ k # j /\ job'[k] = job[k]
        BY <3>1 DEF Completed
    <3>3. Carried'
        BY <3>1, <3>2, <1>2 DEF Carried, Locked
    <3>4. ASSUME NEW row \in InFlight PROVE row \in InFlight'
      <4>1. CASE \E k \in Calls : job[k] # NoJob /\ job[k].st # "failed" /\ row = job[k].data
        <5>1. PICK k \in Calls : job[k] # NoJob /\ job[k].st # "failed" /\ row = job[k].data
            BY <4>1
        <5>2. CASE k = j
            BY <3>1, <5>1, <5>2, <2>2 DEF InFlight
        <5>3. CASE k # j
            BY <3>2, <5>1, <5>3 DEF InFlight
        <5> QED
            BY <5>2, <5>3
      <4>2. CASE \E i \in DOMAIN buffer : row = buffer[i]
          BY <4>2, <3>1, <2>2 DEF InFlight
      <4>3. CASE Locked /\ \E i \in DOMAIN flushing.batch : row = flushing.batch[i]
          BY <4>3, <3>1 DEF InFlight, Locked
      <4> QED
          BY <4>1, <4>2, <4>3 DEF InFlight
    <3> QED
        BY <3>1, <3>3, <3>4
  <2> QED
      BY <1>3, <2>3, <2>4 DEF process
<1>4. CASE timerFires
  <2>1. /\ ~Locked /\ flushing' = [by |-> "timer", batch |-> buffer] /\ buffer' = <<>>
        /\ UNCHANGED <<job, closing, table>>
      BY <1>4 DEF timerFires, Begin
  <2>2. flushing' # NoFlush
      BY <2>1, <1>1, FlushesNotNull DEF Triggers
  <2>3. Carried'
      BY <2>1, <1>2 DEF Carried
  <2>4. ASSUME NEW row \in InFlight PROVE row \in InFlight'
    <3>1. CASE \E k \in Calls : job[k] # NoJob /\ job[k].st # "failed" /\ row = job[k].data
        BY <3>1, <2>1 DEF InFlight
    <3>2. CASE \E i \in DOMAIN buffer : row = buffer[i]
        BY <3>2, <2>1, <2>2 DEF InFlight, Locked
    <3> QED
        BY <3>1, <3>2, <2>1 DEF InFlight
  <2> QED
      BY <2>1, <2>3, <2>4
<1> QED
    BY <1>3, <1>4

\* An INSERT that commits takes its rows, and the job that ran it, off the way
\* and gives each of their trans_refs its row.
LEMMA FlushKeeps ==
    ASSUME Inv, Carried, faults = 0, flushDone, NEW c \in Calls, Safe(c)
    PROVE  Safe(c)'
<1>1. /\ Locked /\ table' = Insert(table, flushing.batch) /\ flushing' = NoFlush
      /\ job' = Completed(Active) /\ buffer' = buffer
    BY DEF flushDone
<1>2. table \in [Refs -> Maybe(LogRows)] /\ flushing.batch \in Seq(LogRows) /\ RefOf[c] \in Refs
    BY <1>1, InsertTypes, EligibilityAssumption DEF Inv, Sound, Typed, TypeOK, LogTypeOK
<1>3. CASE table[RefOf[c]] # Unknown
    BY <1>1, <1>2, <1>3, InsertOne DEF Safe
<1>4. ASSUME NEW row, row.id = c, \E i \in DOMAIN flushing.batch : row = flushing.batch[i]
      PROVE  Safe(c)'
  <2>1. table'[RefOf[c]] # Unknown
      BY <1>1, <1>2, <1>4, InsertOne
  <2> QED
      BY <2>1 DEF Safe
<1>5. ASSUME NEW row, row.id = c, \E i \in DOMAIN buffer : row = buffer[i]
      PROVE  Safe(c)'
  <2>1. row \in InFlight'
      BY <1>1, <1>5 DEF InFlight
  <2> QED
      BY <2>1, <1>5 DEF Safe
<1>6. ASSUME NEW row, row.id = c, NEW k \in Calls, job[k] # NoJob, job[k].st # "failed", row = job[k].data
      PROVE  Safe(c)'
  <2>1. CASE k \in Active
    <3>1. \E i \in DOMAIN flushing.batch : flushing.batch[i] = job[k].data
        BY <2>1 DEF Active, Carried
    <3> QED
        BY <3>1, <1>4, <1>6
  <2>2. CASE k \notin Active
    <3>1. job'[k] = job[k]
        BY <2>2, <1>1 DEF Completed
    <3>2. row \in InFlight'
        BY <3>1, <1>6 DEF InFlight
    <3> QED
        BY <3>2, <1>6 DEF Safe
  <2> QED
      BY <2>1, <2>2
<1> QED
    BY <1>3, <1>4, <1>5, <1>6 DEF Safe, InFlight

LEMMA LogKeeps ==
    ASSUME Inv, KeptInv, logStep
    PROVE  KeptInv'
<1>1. UNCHANGED <<call, leg>> /\ NotBegun'
    BY DEF logStep, requestVars, KeptInv, NotBegun
<1>2. SUFFICES ASSUME faults' = 0 PROVE Carried' /\ \A c \in Calls : Due(c)' => Safe(c)'
    BY <1>1, <1>2 DEF KeptInv, Carried, NoDecisionDropped, Due, Safe
<1>3. faults = 0 /\ ((\E j \in Calls : process(j)) \/ timerFires \/ flushDone \/ exit)
    BY <1>2, FaultsCount DEF logStep
<1>4. Carried /\ \A c \in Calls : Due(c)' => Safe(c)
    BY <1>1, <1>3 DEF KeptInv, NoDecisionDropped, Due, Safe
<1>5. CASE (\E j \in Calls : process(j)) \/ timerFires
  <2>1. Carried' /\ InFlight \subseteq InFlight' /\ UNCHANGED table
      BY <1>2, <1>3, <1>4, <1>5, ProcessKeeps
  <2> QED
      BY <2>1, <1>4 DEF Safe
<1>6. CASE flushDone
  <2>1. ASSUME NEW j \in Calls, job'[j] # NoJob
        PROVE  j \notin Active /\ job'[j] = job[j]
      BY <1>6, <2>1 DEF flushDone, Completed
  <2>2. closing' = closing
      BY <1>6 DEF flushDone
  <2>3. Carried'
      BY <2>1, <2>2, <1>3, <1>4 DEF Carried, Active
  <2> QED
      BY <2>3, <1>3, <1>4, <1>6, FlushKeeps
<1>7. CASE exit
    BY <1>3, <1>4, <1>7 DEF exit, Carried
<1> QED
    BY <1>3, <1>5, <1>6, <1>7

\* A request that is answered hands its decision over, or something failed.
LEMMA AnswerKeeps ==
    ASSUME Inv, KeptInv, NEW c \in Calls, respondInTime(c) \/ respondOutOfBudget(c)
    PROVE  KeptInv'
<1>1. PICK legacy : FromLeg(legacy) /\ call[c] = "deciding" /\ respond(c, legacy)
    BY RespondSteps
<1>2. PICK score \in Maybe(ScoreLimits) :
        LET result == selectFinal(c, legacy, score)
        IN  /\ call' = [call EXCEPT ![c] = "answered"]
            /\ leg' = [leg EXCEPT ![c] = Leg(leg[c].pc, leg[c].flag, Unknown)]
            /\ \/ addJob(c, Payload(c, result, score)) /\ faults' = faults
               \/ faults' = faults + 1 /\ job' = job
            /\ UNCHANGED <<buffer, flushing, closing, table>>
    BY <1>1 DEF respond
<1> DEFINE row == Payload(c, selectFinal(c, legacy, score), score)
<1>3. row \in LogRows /\ row.id = c
    BY <1>1, SelectFinal
<1> HIDE DEF row
<1>4. /\ call \in [Calls -> {"new", "deciding", "answered"}] /\ leg \in [Calls -> LegRecords]
      /\ job \in [Calls -> JobRecords \union {NoJob}] /\ faults \in Nat
    BY LogTypeParts, EligibilityAssumption DEF Inv, Sound, Typed, TypeOK, LegRecords
<1>5. /\ NotBegun'
      /\ \A d \in Calls : d # c => call'[d] = call[d] /\ leg'[d] = leg[d]
    BY <1>2, <1>4 DEF KeptInv, NotBegun
<1>6. SUFFICES ASSUME faults' = 0 PROVE Carried' /\ \A d \in Calls : Due(d)' => Safe(d)'
    BY <1>5, <1>6 DEF KeptInv, Carried, NoDecisionDropped, Due, Safe
<1>7. faults = 0 /\ job[c] = NoJob /\ job' = [job EXCEPT ![c] = Job("waiting", 0, row)]
    BY <1>2, <1>4, <1>6 DEF addJob, row
<1>8. Job("waiting", 0, row) \in JobRecords /\ Job("waiting", 0, row).data = row
      /\ Job("waiting", 0, row).st = "waiting"
    BY <1>3, EligibilityAssumption DEF Job, JobRecords, JobStates
<1>9. /\ job'[c] = Job("waiting", 0, row) /\ job'[c] # NoJob
      /\ \A d \in Calls : d # c => job'[d] = job[d]
    BY <1>4, <1>7, <1>8, JobsNotNull
<1>10. Carried'
    BY <1>2, <1>7, <1>8, <1>9 DEF KeptInv, Carried, Locked
<1>11. row \in InFlight' /\ InFlight \subseteq InFlight'
  <2>1. row \in InFlight'
      BY <1>8, <1>9 DEF InFlight
  <2>2. ASSUME NEW x \in InFlight PROVE x \in InFlight'
    <3>1. CASE \E k \in Calls : job[k] # NoJob /\ job[k].st # "failed" /\ x = job[k].data
        BY <3>1, <1>7, <1>9 DEF InFlight
    <3>2. CASE x \in {buffer[i] : i \in DOMAIN buffer}
               \/ x \in (IF Locked THEN {flushing.batch[i] : i \in DOMAIN flushing.batch} ELSE {})
        BY <3>2, <1>2 DEF InFlight, Locked
    <3> QED
        BY <3>1, <3>2 DEF InFlight
  <2> QED
      BY <2>1, <2>2
<1>12. ASSUME NEW d \in Calls, Due(d)' PROVE Safe(d)'
  <2>1. CASE d = c
      BY <2>1, <1>3, <1>11 DEF Safe
  <2>2. CASE d # c
      BY <2>2, <1>2, <1>5, <1>7, <1>11, <1>12 DEF KeptInv, NoDecisionDropped, Due, Safe
  <2> QED
      BY <2>1, <2>2
<1> QED
    BY <1>10, <1>12

\* Steps that hand nothing over and answer only from what is on file.
LEMMA OtherKeeps ==
    ASSUME Inv, KeptInv, UNCHANGED auditVars, NotBegun',
           \A c \in Calls : Due(c)' => Due(c)
    PROVE  KeptInv'
<1>1. Carried'
    BY DEF KeptInv, Carried, auditVars, Locked
<1>2. \A c \in Calls : Safe(c) => Safe(c)'
    BY DEF auditVars, Safe, InFlight, Locked
<1>3. NoDecisionDropped'
    BY <1>2 DEF KeptInv, NoDecisionDropped, Due, Safe, auditVars
<1> QED
    BY <1>1, <1>3 DEF KeptInv

LEMMA InitKept == Init => KeptInv
BY DEF Init, LogInit, KeptInv, Carried, NotBegun, NoDecisionDropped

LEMMA NextKept == Inv /\ KeptInv /\ [Next]_vars => KeptInv'
<1> SUFFICES ASSUME Inv, KeptInv, [Next]_vars PROVE KeptInv'
    OBVIOUS
<1>0. /\ call \in [Calls -> {"new", "deciding", "answered"}] /\ leg \in [Calls -> LegRecords]
      /\ \A c \in Calls : call[c] = "new" => leg[c].pc = "off"
    BY DEF Inv, Sound, Typed, TypeOK, LegRecords, KeptInv, NotBegun
<1>1. CASE UNCHANGED vars
    BY <1>0, <1>1, OtherKeeps DEF vars, requestVars, NotBegun, Due
<1>2. ASSUME NEW c \in Calls, replay(c) PROVE KeptInv'
  <2>1. call' = [call EXCEPT ![c] = "answered"] /\ call[c] = "new" /\ leg' = leg /\ UNCHANGED auditVars
      BY <1>2 DEF replay
  <2> QED
      BY <2>1, <1>0, OtherKeeps DEF NotBegun, Due
<1>3. ASSUME NEW c \in Calls, begin(c) PROVE KeptInv'
  <2>1. /\ call' = [call EXCEPT ![c] = "deciding"] /\ UNCHANGED auditVars
        /\ \E r : leg' = [leg EXCEPT ![c] = r]
      BY <1>3 DEF begin
  <2> QED
      BY <2>1, <1>0, OtherKeeps DEF NotBegun, Due
<1>4. ASSUME NEW c \in Calls, legStep(c) PROVE KeptInv'
  <2>1. leg[c].pc # "off" /\ \E r : leg' = [leg EXCEPT ![c] = r]
      BY <1>4 DEF legStep, readFlagCache, readFlagRow, fillFlagCache, partnerAnswers, partnerFails, route
  <2>2. call' = call /\ UNCHANGED auditVars
      BY <1>4, LegSteps DEF Inv
  <2> QED
      BY <2>1, <2>2, <1>0, OtherKeeps DEF NotBegun, Due
<1>5. CASE \E c \in Calls : respondInTime(c) \/ respondOutOfBudget(c)
    BY <1>5, AnswerKeeps
<1>6. CASE flagUpdate \/ writerStep \/ flagExpires \/ circuitCools \/ circuitWindowEnds
           \/ \E t \in Refs : windowEnds(t)
  <2>1. UNCHANGED <<call, leg, answer, auditVars>>
      BY <1>6, BesideSteps
  <2> QED
      BY <2>1, <1>0, OtherKeeps DEF NotBegun, Due
<1>7. CASE logStep
    BY <1>7, LogKeeps
<1> QED
    BY <1>1, <1>2, <1>3, <1>4, <1>5, <1>6, <1>7 DEF Next

\* While nothing fails, every decision that was served is on file or on its
\* way there, whatever fills up while another INSERT runs, for every batch size
\* and number of requests (EligibilityLogProcessor).
THEOREM DecisionsAreKept == Spec => []NoDecisionDropped
<1>1. KeptInv => NoDecisionDropped
    BY DEF KeptInv
<1> QED
    BY <1>1, InitKept, NextKept, EligibilityInvariant, PTL DEF Spec
=============================================================================
