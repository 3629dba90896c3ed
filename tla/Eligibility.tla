----------------------------- MODULE Eligibility -----------------------------
(***************************************************************************)
(* GET /profile (csdp-eligibility): the idempotency lookup on trans_ref,   *)
(* the DECISION_MODE flag with its Redis copy, the legacy leg that asks    *)
(* Teamwee through a circuit breaker, the scoring leg beside it, the 1500  *)
(* ms budget that cuts either off, the choice of the answer, and the audit *)
(* log that later makes a repeated trans_ref repeatable.                   *)
(*                                                                         *)
(* A request is answered when both legs are settled.  A leg that has run   *)
(* out of budget is not cancelled: it goes on reading the flag, filling    *)
(* the cache and moving the breaker after the answer has been sent.        *)
(*                                                                         *)
(* The scoring leg only reads (module Scoring); here it returns some limit *)
(* or nothing.  Left out: the velocity counter (Scoring), the API key      *)
(* (Access), latencies, metrics, the shadow-comparison log line, and the   *)
(* text of a limit ("100" is replayed as "100.00").                        *)
(***************************************************************************)
EXTENDS Integers, Sequences, FiniteSets

CONSTANTS
    Calls, Refs, RefOf,     \* requests, trans_refs, and the trans_ref of a request
    Bucket,                 \* SHA-256 bucket, 0..99, of a request's MSISDN
    FlagValues,             \* values an administrator gives DECISION_MODE
    PartnerLimits,          \* limits Teamwee answers
    ScoreLimits,            \* limits heuristic_v3 gives
    CbThreshold,            \* TEAMWEE_CB_THRESHOLD
    BatchSize, Attempts,    \* of the audit log
    MaxSets,                \* bound: updates of the flag
    MaxFaults,              \* bound: failures of the log, and restarts of its worker
    MaxEvents,              \* bound: updates of the flag and faults together
    Unknown, NoJob, NoFlush

Modes == {"STUB_DENY", "PROXY", "SHADOW", "LIVE_5", "LIVE_50", "LIVE"}
Limits == PartnerLimits \union ScoreLimits \union {0}
Winners == {"STUB", "TEAMWEE", "RIM", "FALLBACK"}

ASSUME EligibilityAssumption ==
    /\ RefOf \in [Calls -> Refs]
    /\ Bucket \in [Calls -> 0 .. 99]
    /\ PartnerLimits \subseteq Int /\ ScoreLimits \subseteq Nat
    /\ Unknown \notin Limits /\ Unknown \notin FlagValues /\ Unknown \notin Modes
    /\ CbThreshold \in Nat \ {0} /\ BatchSize \in Nat \ {0} /\ Attempts \in Nat \ {0}
    /\ MaxSets \in Nat /\ MaxFaults \in Nat /\ MaxEvents \in Nat

Maybe(S) == S \union {Unknown}

\* DecisionResult: what is answered, and what the audit log keeps of it.
Results == [limit : Limits, teamwee : Maybe(Limits), rim : Maybe(Limits),
            winner : Winners, mode : Modes]

\* A row of csdp_eligibility_log (and the payload of its job).  id is the
\* request the row is about.
LogRows == [id : Calls, teamwee : Maybe(Limits), rim : Maybe(Limits),
            final : Maybe(Limits), winner : Winners, mode : Modes]

\* INSERT ... ON CONFLICT (trans_ref) DO NOTHING, one row of the batch after
\* another: the first row of a trans_ref stays.
Insert(rows, batch) ==
    [t \in Refs |->
        LET of == {i \in DOMAIN batch : RefOf[batch[i].id] = t}
        IN  IF rows[t] # Unknown \/ of = {} THEN rows[t]
            ELSE batch[CHOOSE i \in of : \A j \in of : i <= j]]

VARIABLES
    flag, flagCache,        \* csdp_feature_flag, and config:DECISION_MODE in Redis
    writer, sets,           \* the update of the flag under way
    circuit,                \* the breaker of TeamweeAdapter
    call,                   \* requests: new, deciding, answered
    leg,                    \* their legacy legs, which outlive the budget
    answer,                 \* what was answered
    snapshots,              \* csdp_eligibility_features_snapshot
    aged,                   \* trans_refs whose row is older than CACHE_WINDOW_HOURS
    job, buffer, flushing, timer, closing, table, faults    \* the audit log

INSTANCE BatchLog WITH Jobs <- Calls, Payloads <- LogRows, Tables <- [Refs -> Maybe(LogRows)], Concurrency <- 1

\* The nulls are none of the values they stand beside.
ASSUME NullsAssumption ==
    /\ Unknown \notin Results /\ Unknown \notin LogRows
    /\ NoJob \notin [st : JobStates, tries : Nat, data : LogRows]
    /\ NoFlush \notin [by : Triggers, batch : Seq(LogRows)]

auditVars == <<job, buffer, flushing, timer, closing, table, faults>>
flagVars == <<flag, flagCache, writer, sets>>
requestVars == <<circuit, call, leg, answer, snapshots, aged>>
vars == <<flagVars, requestVars, auditVars>>

Init ==
    /\ flag \in Maybe(FlagValues)       \* Unknown: the row does not exist
    /\ flagCache = Unknown
    /\ writer = [pc |-> "idle", value |-> Unknown] /\ sets = 0
    /\ circuit = [state |-> "CLOSED", failures |-> 0, cooled |-> FALSE, over |-> FALSE]
    /\ call = [c \in Calls |-> "new"]
    /\ leg = [c \in Calls |-> [pc |-> "off", flag |-> Unknown, result |-> Unknown]]
    /\ answer = [c \in Calls |-> Unknown]
    /\ snapshots = {} /\ aged = {}
    /\ table = [t \in Refs |-> Unknown]
    /\ LogInit
-----------------------------------------------------------------------------
\* CsdpFeatureFlagsService.

isDecisionMode(v) == v \in Modes
resolveMode(v) == IF isDecisionMode(v) THEN v ELSE "STUB_DENY"

\* Mutant: the value is cached without a TTL.
flagExpires_never == FALSE /\ UNCHANGED vars

\* FLAG_TTL_SECONDS after it was filled, the cache is empty again.
flagExpires ==
    /\ flagCache # Unknown
    /\ flagCache' = Unknown
    /\ UNCHANGED <<flag, writer, sets, requestVars, auditVars>>

\* PUT /csdp/admin/feature-flags/:key.  The old value is read, for the audit,
\* with get, which fills an empty cache; then set saves the row and deletes
\* the cached copy.
flagUpdate ==
    /\ writer.pc = "idle" /\ sets < MaxSets
    /\ sets' = sets + 1
    /\ \E v \in FlagValues :
          writer' = [pc |-> IF flagCache = Unknown /\ flag # Unknown THEN "fill" ELSE "save",
                     value |-> v]
    /\ UNCHANGED <<flag, flagCache, requestVars, auditVars>>

\* One administrator writes: the row is still the one that was read.
flagUpdateFill ==
    /\ writer.pc = "fill"
    /\ flagCache' = flag
    /\ writer' = [writer EXCEPT !.pc = "save"]
    /\ UNCHANGED <<flag, sets, requestVars, auditVars>>

flagSave ==
    /\ writer.pc = "save"
    /\ flag' = writer.value
    /\ writer' = [writer EXCEPT !.pc = "del"]
    /\ UNCHANGED <<flagCache, sets, requestVars, auditVars>>

flagDel ==
    /\ writer.pc = "del"
    /\ flagCache' = Unknown
    /\ writer' = [writer EXCEPT !.pc = "idle"]
    /\ UNCHANGED <<flag, sets, requestVars, auditVars>>
-----------------------------------------------------------------------------
\* TeamweeAdapter: failures is failureCount, cooled says cbResetMs has passed
\* since openedAt, over that it has passed since windowStart.

Circuits == [state : {"CLOSED", "OPEN", "HALF_OPEN"}, failures : Nat,
             cooled : BOOLEAN, over : BOOLEAN]

Circuit(state, failures, cooled, over) ==
    [state |-> state, failures |-> failures, cooled |-> cooled, over |-> over]

Refuses(b) == b.state = "OPEN" /\ ~b.cooled

evaluateCircuit(b) ==
    IF b.state = "OPEN" THEN Circuit("HALF_OPEN", b.failures, b.cooled, b.over) ELSE b

\* Mutant: closing forgets to start a new count.
onSuccess_keepCount(b) ==
    IF b.state = "HALF_OPEN" THEN Circuit("CLOSED", b.failures, b.cooled, FALSE) ELSE b

onSuccess(b) ==
    IF b.state = "HALF_OPEN" THEN Circuit("CLOSED", 0, b.cooled, FALSE) ELSE b

\* Whoever fails while the breaker probes opens it again, the probe or an
\* older request.
onFailure(b) ==
    LET n == 1 + (IF b.over THEN 0 ELSE b.failures)
    IN  IF b.state = "HALF_OPEN" THEN Circuit("OPEN", b.failures, FALSE, b.over)
        ELSE IF n >= CbThreshold THEN Circuit("OPEN", n, FALSE, FALSE)
        ELSE Circuit(b.state, n, b.cooled, FALSE)

circuitCools ==
    /\ circuit.state = "OPEN" /\ ~circuit.cooled
    /\ circuit' = [circuit EXCEPT !.cooled = TRUE]
    /\ UNCHANGED <<flagVars, call, leg, answer, snapshots, aged, auditVars>>

\* With nothing counted, the end of the window changes nothing.
circuitWindowEnds ==
    /\ ~circuit.over /\ circuit.failures > 0
    /\ circuit' = [circuit EXCEPT !.over = TRUE]
    /\ UNCHANGED <<flagVars, call, leg, answer, snapshots, aged, auditVars>>
-----------------------------------------------------------------------------
\* The legacy leg: DecisionRouterService.decide.

Result(limit, teamwee, rim, winner, mode) ==
    [limit |-> limit, teamwee |-> teamwee, rim |-> rim, winner |-> winner, mode |-> mode]

stubDeny(mode) == Result(0, Unknown, Unknown, "STUB", mode)
proxied(v, mode) == Result(v, v, Unknown, "TEAMWEE", mode)
unavailable(mode) == Result(0, Unknown, Unknown, "FALLBACK", mode)

Leg(pc, v, result) == [pc |-> pc, flag |-> v, result |-> result]

\* The leg is over; its result is dropped when the request has not waited.
Settled(c, result) ==
    Leg("done", Unknown, IF call[c] = "deciding" THEN result ELSE Unknown)

\* What decide does once it knows the flag's value: deny, find the breaker
\* open, or ask Teamwee.
route(c, v) ==
    LET mode == resolveMode(v)
    IN  /\ leg' = [leg EXCEPT ![c] =
                     IF mode = "STUB_DENY" THEN Settled(c, stubDeny(mode))
                     ELSE IF Refuses(circuit) THEN Settled(c, unavailable(mode))
                     ELSE Leg("sent", v, Unknown)]
        /\ circuit' = IF mode = "STUB_DENY" \/ Refuses(circuit) THEN circuit
                      ELSE evaluateCircuit(circuit)

\* flags.get: Redis, then the row, then the copy back into Redis.
readFlagCache(c) ==
    /\ leg[c].pc = "cache"
    /\ IF flagCache # Unknown
       THEN route(c, flagCache)
       ELSE leg' = [leg EXCEPT ![c] = Leg("row", Unknown, Unknown)] /\ UNCHANGED circuit
    /\ UNCHANGED <<flagVars, call, answer, snapshots, aged, auditVars>>

readFlagRow(c) ==
    /\ leg[c].pc = "row"
    /\ IF flag = Unknown
       THEN route(c, Unknown)
       ELSE leg' = [leg EXCEPT ![c] = Leg("fill", flag, Unknown)] /\ UNCHANGED circuit
    /\ UNCHANGED <<flagVars, call, answer, snapshots, aged, auditVars>>

fillFlagCache(c) ==
    /\ leg[c].pc = "fill"
    /\ flagCache' = leg[c].flag
    /\ route(c, leg[c].flag)
    /\ UNCHANGED <<flag, writer, sets, call, answer, snapshots, aged, auditVars>>

\* doRequest, with its one retry of a connection error, which the breaker
\* does not see: Teamwee gives a limit ...
partnerAnswers(c) ==
    /\ leg[c].pc = "sent"
    /\ \E v \in PartnerLimits :
          leg' = [leg EXCEPT ![c] = Settled(c, proxied(v, resolveMode(leg[c].flag)))]
    /\ circuit' = onSuccess(circuit)
    /\ UNCHANGED <<flagVars, call, answer, snapshots, aged, auditVars>>

\* ... or times out, refuses, or answers with something else.
partnerFails(c) ==
    /\ leg[c].pc = "sent"
    /\ leg' = [leg EXCEPT ![c] = Settled(c, unavailable(resolveMode(leg[c].flag)))]
    /\ circuit' = onFailure(circuit)
    /\ UNCHANGED <<flagVars, call, answer, snapshots, aged, auditVars>>
-----------------------------------------------------------------------------
\* EligibilityController.profile.

\* Mutant: a score on the row is taken for the answer, whoever won.
deriveResponseLimit_score(row) ==
    IF row.rim # Unknown THEN row.rim ELSE IF row.teamwee # Unknown THEN row.teamwee ELSE 0

deriveResponseLimit(row) ==
    CASE row.winner = "TEAMWEE" /\ row.teamwee # Unknown -> row.teamwee
      [] row.winner = "RIM" /\ row.rim # Unknown -> row.rim
      [] row.winner = "RIM" /\ row.rim = Unknown /\ row.final # Unknown -> row.final
      [] OTHER -> 0

\* ProfileIdempotencyService.lookup finds a row.
Remembered(t) == table[t] # Unknown /\ t \notin aged

replay(c) ==
    /\ call[c] = "new" /\ Remembered(RefOf[c])
    /\ call' = [call EXCEPT ![c] = "answered"]
    /\ answer' = [answer EXCEPT ![c] = deriveResponseLimit(table[RefOf[c]])]
    /\ UNCHANGED <<flagVars, circuit, leg, snapshots, aged, auditVars>>

begin(c) ==
    /\ call[c] = "new" /\ ~Remembered(RefOf[c])
    /\ call' = [call EXCEPT ![c] = "deciding"]
    /\ leg' = [leg EXCEPT ![c] = Leg("cache", Unknown, Unknown)]
    /\ UNCHANGED <<flagVars, circuit, answer, snapshots, aged, auditVars>>

cohortThreshold(mode) == CASE mode = "LIVE_5" -> 5 [] mode = "LIVE_50" -> 50 [] OTHER -> 0
inCohort(c, thresholdPct) == Bucket[c] < thresholdPct

\* score is the limit of heuristic_v3, or Unknown when it failed or was cut off.
selectFinal(c, legacy, score) ==
    IF legacy.mode \in {"STUB_DENY", "PROXY", "SHADOW"} THEN legacy
    ELSE IF legacy.mode # "LIVE" /\ ~inCohort(c, cohortThreshold(legacy.mode))
    THEN Result(legacy.limit, legacy.teamwee, legacy.rim, legacy.winner, "SHADOW")
    ELSE IF score = Unknown THEN legacy
    ELSE Result(score, legacy.teamwee, score, "RIM", legacy.mode)

\* budget_exceeded: the mode is not known any more, whatever the flag says.
fallback == unavailable("STUB_DENY")

\* EligibilityLoggerService.enqueue: a score is recorded even when it was not
\* what was served.
Payload(c, result, score) ==
    [id |-> c, teamwee |-> result.teamwee, rim |-> IF score # Unknown THEN score ELSE result.rim,
     final |-> score, winner |-> result.winner, mode |-> result.mode]

\* Both legs are settled.  The snapshot and the log are written without being
\* waited for, and their failures are swallowed.
respond(c, legacy) ==
    \E score \in Maybe(ScoreLimits) :
        LET result == selectFinal(c, legacy, score)
        IN  /\ call' = [call EXCEPT ![c] = "answered"]
            /\ answer' = [answer EXCEPT ![c] = result.limit]
            /\ leg' = [leg EXCEPT ![c] = Leg(leg[c].pc, leg[c].flag, Unknown)]
            /\ \/ /\ addJob(c, Payload(c, result, score))
                  /\ UNCHANGED faults
                  /\ snapshots' = IF score # Unknown THEN snapshots \union {RefOf[c]} ELSE snapshots
               \/ /\ faults < MaxFaults /\ faults' = faults + 1
                  /\ UNCHANGED <<job, snapshots>>
            /\ UNCHANGED <<flagVars, circuit, aged, buffer, flushing, timer, closing, table>>

respondInTime(c) ==
    /\ call[c] = "deciding" /\ leg[c].pc = "done"
    /\ respond(c, leg[c].result)

respondOutOfBudget(c) ==
    /\ call[c] = "deciding" /\ leg[c].pc # "done"
    /\ respond(c, fallback)

\* CACHE_WINDOW_HOURS after the request a row is no longer found; it still
\* keeps the trans_ref taken.
windowEnds(t) ==
    /\ Remembered(t)
    /\ aged' = aged \union {t}
    /\ UNCHANGED <<flagVars, circuit, call, leg, answer, snapshots, auditVars>>
-----------------------------------------------------------------------------
legStep(c) ==
    readFlagCache(c) \/ readFlagRow(c) \/ fillFlagCache(c) \/ partnerAnswers(c) \/ partnerFails(c)

writerStep == flagUpdateFill \/ flagSave \/ flagDel

logStep == LogNext /\ UNCHANGED <<flagVars, requestVars>>

Next ==
    /\ \/ \E c \in Calls : \/ replay(c) \/ begin(c) \/ legStep(c)
                          \/ respondInTime(c) \/ respondOutOfBudget(c)
       \/ flagUpdate \/ writerStep \/ flagExpires
       \/ circuitCools \/ circuitWindowEnds
       \/ \E t \in Refs : windowEnds(t)
       \/ logStep
    /\ sets' + faults' <= MaxEvents

Spec == Init /\ [][Next]_vars

\* Handlers that have started go on (every await of a leg has a timeout), and
\* the TTL of the cached flag runs.
FairSpec ==
    /\ Spec
    /\ WF_vars(writerStep) /\ WF_vars(flagExpires)
    /\ \A c \in Calls : WF_vars(legStep(c)) /\ WF_vars(respondInTime(c) \/ respondOutOfBudget(c))
-----------------------------------------------------------------------------
TypeOK ==
    /\ flag \in Maybe(FlagValues) /\ flagCache \in Maybe(FlagValues)
    /\ writer \in [pc : {"idle", "fill", "save", "del"}, value : Maybe(FlagValues)]
    /\ sets \in 0 .. MaxSets
    /\ circuit \in Circuits
    /\ call \in [Calls -> {"new", "deciding", "answered"}]
    /\ leg \in [Calls -> [pc : {"off", "cache", "row", "fill", "sent", "done"},
                          flag : Maybe(FlagValues), result : Maybe(Results)]]
    /\ answer \in [Calls -> Maybe(Limits)]
    /\ snapshots \subseteq Refs /\ aged \subseteq Refs
    /\ LogTypeOK

\* The caller sees nothing but the contract of GET /profile: the row is read
\* back as the limit that was served when it was written.
Contract == INSTANCE ProfileContract WITH
    asking   <- {c \in Calls : call[c] = "deciding"},
    recorded <- [t \in Refs |-> IF table[t] = Unknown THEN Unknown
                                ELSE deriveResponseLimit(table[t])],
    fresh    <- Refs \ aged

\* Refinement: once a decision on a trans_ref is on file, every request with
\* that trans_ref gets exactly that limit while the window lasts; what is on
\* file is a limit that was served for it, and it never changes
\* (ProfileIdempotencyService, EligibilityLoggerService, bulkInsert).
KeepsContract == Contract!Spec

\* As long as nothing fails, every decision served is on its way to the audit
\* log or its trans_ref is in it: batching, a batch that fills up while the
\* timer's INSERT runs, and completed jobs lose none (EligibilityLogProcessor).
NoDecisionDropped ==
    faults = 0 =>
        \A c \in Calls :
            call[c] = "answered" /\ leg[c].pc # "off" =>
                table[RefOf[c]] # Unknown \/ \E row \in InFlight : row.id = c

\* The breaker is closed only while fewer failures than the threshold have been
\* counted since the last time it closed, whatever late answers of requests
\* sent before it opened do (TeamweeAdapter.onSuccess, onFailure).
ClosedBelowThreshold == circuit.state = "CLOSED" => circuit.failures < CbThreshold

\* Once administrators leave the flag alone, Redis ends up holding its value or
\* nothing, also when a leg that outlived its request has put an older value
\* there after the update deleted it (FLAG_TTL_SECONDS).
FlagTakesEffect == <>[](flagCache \in {Unknown, flag})
=============================================================================
