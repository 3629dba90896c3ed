------------------------------- MODULE Scoring -------------------------------
(***************************************************************************)
(* heuristic_v3 (csdp-scoring): the pure function that turns a feature row *)
(* into a naira limit, and the data it is fed with: the Redis counters of  *)
(* a subscriber, the published system exposure, and the csdp.* rows of     *)
(* SYSTEM_CONFIG behind a process-local cache.                             *)
(*                                                                         *)
(* Amounts are naira and ratios thousandths; a limit is carried in         *)
(* thousandths of a naira and floored at the end, as the code floors its   *)
(* float.  Tanh and Curve stand for Math.tanh and x^curve_exponent: any    *)
(* ratio, and any increasing function of ratios, will do.  The kobo of da  *)
(* are a whole number of naira.                                            *)
(*                                                                         *)
(* A subscriber's PG feature row is fixed in a behaviour: what changes it  *)
(* is the subject of CsdpLedger.                                           *)
(***************************************************************************)
EXTENDS Integers, FiniteSets, FiniteSetsExt, TLC

CONSTANTS
    Scorings,           \* scoring calls that can be in flight
    FeatureRows,        \* PG feature rows considered
    Lent,               \* loans disbursed to the subscriber: loan -> naira
    Das,                \* naira already owed to the partner, from ?da=
    Types,              \* loan types requested
    Exposures,          \* values of system_exposure_pct, in thousandths
    Edits,              \* configurations administrators store in SYSTEM_CONFIG
    Tanh(_), Curve(_),  \* on thousandths; Tanh a ratio, Curve increasing
    MaxChecks,          \* bound: checks of a subscriber within the hour
    MaxEdits,           \* bound: edits of the configuration
    MaxFaults,          \* bound: failed config reads, deaths before EXPIRE
    Missing

\* DEFAULT_CSDP_CONFIG; the keys that differ by loan type are functions.
DEFAULT_CSDP_CONFIG ==
    [priorAlpha |-> 2, priorBeta |-> 2, confidencePseudoN |-> 4, evidenceMax |-> 800,
     tenureMultMin |-> 850, tenureSatDays |-> 365, engagementMultMin |-> 700,
     engagementSat |-> 20, coldStartBase |-> 200, coldStartMinTenureDays |-> 60,
     coldStartMinEngagement |-> 750, continuityBonusMaxNaira |-> 100,
     continuityBonusLoanWindow |-> 3, penaltyCuredRecent |-> 100,
     penaltyCuredLifetime |-> 30, penaltyCuredLifetimeCap |-> 150, penaltyVelocity |-> 5,
     velocityThreshold |-> 3, baseThreshold |-> 300, thinFileMaxBonus |-> 220,
     thinFileSaturation |-> 6, partnerCapNaira |-> 5000, exposureTaperStartPct |-> 850,
     exposureHaltPct |-> 950, velocityExtreme |-> 10,
     smallMin |-> [AIRTIME |-> 50, DATA |-> 100, TALKTIME |-> 50],
     maxLimit |-> [AIRTIME |-> 1500, DATA |-> 3000, TALKTIME |-> 1000],
     dailyUserCapNaira |-> [AIRTIME |-> 1500, DATA |-> 3000, TALKTIME |-> 1000],
     loanTypeEnabled |-> [AIRTIME |-> TRUE, DATA |-> TRUE, TALKTIME |-> TRUE]]

Keys == DOMAIN DEFAULT_CSDP_CONFIG

\* The configuration the csdp.* rows of SYSTEM_CONFIG give.  A row that is not
\* there, or is no number, leaves the default.  The loader keeps the mapped
\* configuration; here its rows stand for it.
readAndMap(rows) ==
    [k \in {j \in DOMAIN rows : rows[j] # Missing} |-> rows[k]] @@ DEFAULT_CSDP_CONFIG

\* Nothing stored.
NoRows == [k \in {} |-> Missing]

Config == [rows \in Edits \union {NoRows} |-> readAndMap(rows)]

Ratio == 0 .. 1000

\* A configuration that can be scored with: nothing is negative, no divisor is
\* zero, a multiplier is a ratio, and a range of limits is not empty.
Usable(c) ==
    /\ c.priorAlpha \in Nat /\ c.priorBeta \in Nat /\ c.priorAlpha + c.priorBeta > 0
    /\ c.confidencePseudoN \in Nat \ {0} /\ c.evidenceMax \in Nat
    /\ c.tenureMultMin \in Ratio /\ c.tenureSatDays \in Nat \ {0}
    /\ c.engagementMultMin \in Ratio /\ c.engagementSat \in Nat \ {0}
    /\ c.coldStartBase \in Nat /\ c.coldStartMinTenureDays \in Nat
    /\ c.coldStartMinEngagement \in Nat
    /\ c.continuityBonusMaxNaira \in Nat /\ c.continuityBonusLoanWindow \in Nat
    /\ c.penaltyCuredRecent \in Nat /\ c.penaltyCuredLifetime \in Nat
    /\ c.penaltyCuredLifetimeCap \in Nat /\ c.penaltyVelocity \in Nat
    /\ c.velocityThreshold \in Nat /\ c.velocityExtreme \in Nat
    /\ c.baseThreshold \in Nat /\ c.thinFileMaxBonus \in Nat
    /\ c.thinFileSaturation \in Nat \ {0} /\ c.partnerCapNaira \in Nat
    /\ c.exposureTaperStartPct \in Nat /\ c.exposureHaltPct \in Nat
    /\ \A t \in Types : /\ c.smallMin[t] \in Nat /\ c.dailyUserCapNaira[t] \in Nat
                        /\ c.maxLimit[t] \in Nat /\ c.smallMin[t] <= c.maxLimit[t]

FeatureRow == [blacklisted : BOOLEAN, outstanding : Int, uncured : BOOLEAN, days : Nat,
               recharges : Nat, taken : Nat, recovered : Nat, curedRecent : Nat,
               curedLifetime : Nat]

ASSUME ScoringAssumption ==
    /\ Types \subseteq {"AIRTIME", "DATA", "TALKTIME"}
    /\ Das \subseteq Nat /\ Exposures \subseteq Nat /\ FeatureRows \subseteq FeatureRow
    /\ IsFiniteSet(DOMAIN Lent) /\ \A l \in DOMAIN Lent : Lent[l] \in Nat
    /\ {MaxChecks, MaxEdits, MaxFaults} \subseteq Nat
    /\ \A e \in Edits : DOMAIN e \subseteq Keys
    /\ \A rows \in DOMAIN Config : Usable(Config[rows])
    /\ \A rows \in DOMAIN Config, f \in FeatureRows :
          /\ Tanh((1000 * f.days) \div Config[rows].tenureSatDays) \in Ratio
          /\ Tanh((1000 * f.recharges) \div Config[rows].engagementSat) \in Ratio
    /\ \A x \in Ratio : Curve(x) \in Nat /\ \A y \in x .. 1000 : Curve(x) <= Curve(y)
-----------------------------------------------------------------------------
\* heuristic-v3.ts.  f is the feature row, with the live counters merged in.

Least(a, b) == IF a <= b THEN a ELSE b
Greatest(a, b) == IF a >= b THEN a ELSE b

\* Math.round of n/d.
RoundedQuotient(n, d) == (2 * n + d) \div (2 * d)

NoGate == "none"

stage1Gates(f, da, type, c) ==
    CASE f.blacklisted -> "BLACKLIST"
      [] ~f.blacklisted /\ f.outstanding > 0 -> "OUTSTANDING"
      [] ~f.blacklisted /\ f.outstanding <= 0 /\ da >= c.partnerCapNaira -> "DA_CAP"
      [] OTHER -> IF f.uncured THEN "UNCURED_DEFAULT"
                  ELSE IF f.checks >= c.velocityExtreme THEN "VELOCITY"
                  ELSE IF ~c.loanTypeEnabled[type] THEN "TYPE_DISABLED"
                  ELSE NoGate

tenureMult(f, c) ==
    c.tenureMultMin + ((1000 - c.tenureMultMin) * Tanh((1000 * f.days) \div c.tenureSatDays)) \div 1000

engagementMult(f, c) ==
    c.engagementMultMin
    + ((1000 - c.engagementMultMin) * Tanh((1000 * f.recharges) \div c.engagementSat)) \div 1000

\* The floors a subscriber without history must clear.
Engaged(f, c) ==
    /\ f.days >= c.coldStartMinTenureDays
    /\ engagementMult(f, c) >= c.coldStartMinEngagement
    /\ ~f.uncured

\* Beta posterior of repayment times confidence times stability, or the
\* cold-start base, rounded.
evidence(f, c) ==
    LET stability == Least(tenureMult(f, c), engagementMult(f, c))
    IN  IF f.taken = 0 /\ Engaged(f, c)
        THEN RoundedQuotient(c.coldStartBase * engagementMult(f, c), 1000)
        ELSE RoundedQuotient(
                (c.evidenceMax * (f.recovered + c.priorAlpha) * f.taken) * stability,
                ((f.taken + c.priorAlpha + c.priorBeta) * (f.taken + c.confidencePseudoN)) * 1000)

\* Mutant: a recently cured default is credited.
penalty_credited(f, c) ==
    Least(c.penaltyCuredLifetimeCap, c.penaltyCuredLifetime * f.curedLifetime)
    + c.penaltyVelocity * Greatest(0, f.checks - c.velocityThreshold)
    - c.penaltyCuredRecent * f.curedRecent

penalty(f, c) ==
    c.penaltyCuredRecent * f.curedRecent
    + Least(c.penaltyCuredLifetimeCap, c.penaltyCuredLifetime * f.curedLifetime)
    + c.penaltyVelocity * Greatest(0, f.checks - c.velocityThreshold)

stage2Score(f, c) == Greatest(0, Least(1000, evidence(f, c) - penalty(f, c)))

\* In thousandths: the threshold falls while there is little history.
effectiveThreshold(f, c) ==
    LET left == Greatest(0, c.thinFileSaturation - f.taken)
    IN  1000 * c.baseThreshold
        - (1000 * c.thinFileMaxBonus * left * left)
              \div (c.thinFileSaturation * c.thinFileSaturation)

\* For the first loans of a subscriber who has repaid all of them.
continuityBonus(f, c) ==
    LET window == c.continuityBonusLoanWindow
    IN  IF f.taken \in 1 .. window /\ f.recovered = f.taken /\ Engaged(f, c)
        THEN (1000 * c.continuityBonusMaxNaira * (window - (f.taken - 1))) \div window
        ELSE 0

stage3BaseLimit(score, threshold, type, c) ==
    LET span == 1000 * 1000 - threshold
    IN  IF 1000 * score < threshold \/ span <= 0 THEN 0
        ELSE 1000 * c.smallMin[type]
             + (c.maxLimit[type] - c.smallMin[type])
               * Curve((1000 * (1000 * score - threshold)) \div span)

partnerResidual(da, c) == c.partnerCapNaira - da

\* Mutant: what was lent in the last 24 hours is not subtracted.
dailyUserRemaining_whole(f, type, c) == c.dailyUserCapNaira[type]

dailyUserRemaining(f, type, c) == c.dailyUserCapNaira[type] - f.disbursed

stage4Clamps(base, f, da, type, exposure, c) ==
    LET capped == Least(base, 1000 * Least(partnerResidual(da, c), dailyUserRemaining(f, type, c)))
        left   == c.exposureHaltPct - exposure
        range  == c.exposureHaltPct - c.exposureTaperStartPct
    IN  IF left <= 0 THEN 0
        ELSE IF exposure >= c.exposureTaperStartPct
        THEN Greatest(0, (capped * left) \div range) \div 1000
        ELSE Greatest(0, capped) \div 1000

scoreV3(f, da, type, exposure, c) ==
    LET gate == stage1Gates(f, da, type, c)
        base == stage3BaseLimit(stage2Score(f, c), effectiveThreshold(f, c), type, c)
    IN  IF gate # NoGate THEN [limit |-> 0, gate |-> gate]
        ELSE [limit |-> stage4Clamps(base + continuityBonus(f, c), f, da, type, exposure, c),
              gate  |-> NoGate]
-----------------------------------------------------------------------------
VARIABLES
    feature,    \* the subscriber's PG feature row and blacklist mark
    checks,     \* Redis elig1h: the count, and whether it has its TTL
    expiring,   \* INCR has returned 1 and EXPIRE is still to come
    disbursed,  \* Redis disbursed24h: loans inside the window
    exposure,   \* Redis system_exposure_pct, 0 when it has expired
    stored,     \* SYSTEM_CONFIG, category csdp_scoring
    loader,     \* CsdpScoringConfigLoader: cached rows, their age, the read in flight
    call,       \* scoring calls that wait for the configuration
    served,     \* the decisions of the last step
    edits, faults

scoring == <<feature, checks, expiring, disbursed, exposure, stored, loader, call, served,
             edits, faults>>

\* Ages of the cached configuration: under CONFIG_CACHE_TTL_MS, under
\* CONFIG_CACHE_HARD_TTL_MS, and beyond.
Ages == {"fresh", "stale", "dead"}

\* reading: no read is in flight, or the age the cache had when it began; rows
\* is what the read has returned.
Loader(cached, age, reading, rows) ==
    [cached |-> cached, age |-> age, reading |-> reading, rows |-> rows]

NotWaiting == Missing

ScoringInit ==
    /\ feature \in FeatureRows
    /\ checks = [n |-> 0, ttl |-> FALSE] /\ expiring = FALSE
    /\ disbursed = {} /\ exposure = 0
    /\ stored = NoRows
    /\ loader = Loader(Missing, "dead", Missing, Missing)
    /\ call = [c \in Scorings |-> NotWaiting] /\ served = {}
    /\ edits = 0 /\ faults = 0

sumDisbursed24hNaira == MapThenSumSet(LAMBDA l : Lent[l], disbursed)

\* FeatureRowReadModel.read.
Features(n) ==
    [blacklisted |-> feature.blacklisted, outstanding |-> feature.outstanding,
     uncured |-> feature.uncured, days |-> feature.days, recharges |-> feature.recharges,
     taken |-> feature.taken, recovered |-> feature.recovered,
     curedRecent |-> feature.curedRecent,
     curedLifetime |-> feature.curedLifetime, disbursed |-> sumDisbursed24hNaira, checks |-> n]

Waiting == {c \in Scorings : call[c] # NotWaiting}

\* CsdpScoringService.score, with all it has read.
Decision(in, rows) ==
    [in |-> in, rows |-> rows,
     limit |-> scoreV3(in.f, in.da, in.type, in.exposure, Config[rows]).limit]

\* EligibilityController: the check is counted, then the inputs are read and
\* the configuration is asked for.  A fresh copy answers at once; otherwise
\* the call joins the read in flight, or starts one.
score(c) ==
    /\ c \notin Waiting /\ checks.n < MaxChecks
    /\ checks' = [n |-> checks.n + 1, ttl |-> checks.ttl]
    /\ expiring' = (expiring \/ checks.n = 0)
    /\ \E da \in Das, type \in Types :
         LET in == [f |-> Features(checks.n + 1), da |-> da, type |-> type, exposure |-> exposure]
         IN  IF loader.cached # Missing /\ loader.age = "fresh"
             THEN served' = {Decision(in, loader.cached)} /\ UNCHANGED <<call, loader>>
             ELSE /\ call' = [call EXCEPT ![c] = in] /\ served' = {}
                  /\ loader' = IF loader.reading = Missing
                               THEN Loader(loader.cached, loader.age, loader.age, Missing) ELSE loader
    /\ UNCHANGED <<feature, disbursed, exposure, stored, edits, faults>>

\* Every call that waits for the read is served with its outcome.
Serve(rows) ==
    /\ served' = {Decision(call[c], rows) : c \in Waiting}
    /\ call' = [c \in Scorings |-> NotWaiting]

\* refresh: the rows are read; when they have arrived, the copy counts as new
\* from that moment, whatever has been stored since.
findAll ==
    /\ loader.reading # Missing /\ loader.rows = Missing
    /\ loader' = Loader(loader.cached, loader.age, loader.reading, stored)
    /\ served' = {}
    /\ UNCHANGED <<feature, checks, expiring, disbursed, exposure, stored, call, edits, faults>>

refreshed ==
    /\ loader.reading # Missing /\ loader.rows # Missing
    /\ loader' = Loader(loader.rows, "fresh", Missing, Missing)
    /\ Serve(loader.rows)
    /\ UNCHANGED <<feature, checks, expiring, disbursed, exposure, stored, edits, faults>>

\* The last good copy, unless it was beyond the hard TTL when the read began.
refreshFails ==
    /\ loader.reading # Missing /\ faults < MaxFaults
    /\ faults' = faults + 1
    /\ loader' = Loader(loader.cached, loader.age, Missing, Missing)
    /\ Serve(IF loader.cached # Missing /\ loader.reading # "dead"
             THEN loader.cached ELSE NoRows)
    /\ UNCHANGED <<feature, checks, expiring, disbursed, exposure, stored, edits>>

\* Mutant: what is cached is used for ever.
configAges_never == FALSE /\ UNCHANGED scoring

configAges ==
    /\ loader.cached # Missing /\ loader.age # "dead"
    /\ loader' = Loader(loader.cached, IF loader.age = "fresh" THEN "stale" ELSE "dead",
                        loader.reading, loader.rows)
    /\ served' = {}
    /\ UNCHANGED <<feature, checks, expiring, disbursed, exposure, stored, call, edits, faults>>

\* SystemConfigService create, update, upsert and delete.
editConfig ==
    /\ edits < MaxEdits
    /\ edits' = edits + 1
    /\ stored' \in Edits
    /\ served' = {}
    /\ UNCHANGED <<feature, checks, expiring, disbursed, exposure, loader, call, faults>>

\* Mutant: EXPIRE is sent after the second check instead of the first.
expireCounter_second ==
    /\ expiring
    /\ expiring' = FALSE
    /\ checks' = [n |-> checks.n, ttl |-> checks.n = 2]
    /\ served' = {}
    /\ UNCHANGED <<feature, disbursed, exposure, stored, loader, call, edits, faults>>

\* incrEligibilityCheck: the key that INCR created gets its TTL in a second
\* command, unless the process dies before it.
expireCounter ==
    /\ expiring
    /\ expiring' = FALSE
    /\ checks' = [n |-> checks.n, ttl |-> checks.n > 0]
    /\ served' = {}
    /\ UNCHANGED <<feature, disbursed, exposure, stored, loader, call, edits, faults>>

expireLost ==
    /\ expiring /\ faults < MaxFaults
    /\ faults' = faults + 1
    /\ expiring' = FALSE
    /\ served' = {}
    /\ UNCHANGED <<feature, checks, disbursed, exposure, stored, loader, call, edits>>

\* ELIG_TTL_SEC after its first check.
counterExpires ==
    /\ checks.ttl
    /\ checks' = [n |-> 0, ttl |-> FALSE]
    /\ served' = {}
    /\ UNCHANGED <<feature, expiring, disbursed, exposure, stored, loader, call, edits, faults>>

\* The fulfilment of a loan adds it to the 24-hour window; a webhook that is
\* delivered twice adds the same member.
recordDisbursement(l) ==
    /\ disbursed' = disbursed \union {l}
    /\ served' = {}
    /\ UNCHANGED <<feature, checks, expiring, exposure, stored, loader, call, edits, faults>>

leavesWindow(l) ==
    /\ l \in disbursed
    /\ disbursed' = disbursed \ {l}
    /\ served' = {}
    /\ UNCHANGED <<feature, checks, expiring, exposure, stored, loader, call, edits, faults>>

\* ExposurePublisherService.publishOnce; the value expires when it stops.
publishOnce ==
    /\ exposure' \in Exposures
    /\ served' = {}
    /\ UNCHANGED <<feature, checks, expiring, disbursed, stored, loader, call, edits, faults>>

exposureExpires ==
    /\ exposure' = 0
    /\ served' = {}
    /\ UNCHANGED <<feature, checks, expiring, disbursed, stored, loader, call, edits, faults>>

ScoringNext ==
    \/ \E c \in Scorings : score(c)
    \/ refreshed \/ refreshFails
    \/ findAll \/ configAges \/ editConfig
    \/ expireCounter \/ expireLost \/ counterExpires
    \/ \E l \in DOMAIN Lent : recordDisbursement(l) \/ leavesWindow(l)
    \/ publishOnce \/ exposureExpires

\* Reads of the configuration end, commands that were sent are executed, and
\* time passes.
ScoringSpec ==
    /\ ScoringInit /\ [][ScoringNext]_scoring
    /\ WF_scoring(findAll) /\ WF_scoring(refreshed) /\ WF_scoring(configAges)
    /\ WF_scoring(expireCounter) /\ WF_scoring(counterExpires)
-----------------------------------------------------------------------------
\* What is served never goes beyond what is left, on the inputs the call read
\* and under the configuration it was given: a subscriber who is blacklisted, in
\* debt, in default, at the velocity limit or over a cap gets 0, the partner's
\* and the daily cap hold after the taper, and nothing is lent from the halt
\* level on (stage1Gates, stage4Clamps).
NeverBeyondHeadroom ==
    \A d \in served :
        LET in == d.in   c == Config[d.rows]   limit == d.limit
        IN  /\ limit >= 0
            /\ limit > 0 =>
                 /\ ~in.f.blacklisted /\ in.f.outstanding <= 0 /\ ~in.f.uncured
                 /\ in.f.checks < c.velocityExtreme /\ c.loanTypeEnabled[in.type]
                 /\ in.da + limit <= c.partnerCapNaira
                 /\ in.f.disbursed + limit <= c.dailyUserCapNaira[in.type]
                 /\ in.exposure < c.exposureHaltPct

\* f improved in one respect.
Improvements(f) ==
    {[f EXCEPT !.recovered = n] : n \in f.recovered .. f.taken}
    \union {[f EXCEPT !.checks = n] : n \in 0 .. f.checks}
    \union {[f EXCEPT !.disbursed = 0], [f EXCEPT !.curedRecent = 0],
            [f EXCEPT !.curedLifetime = 0], [f EXCEPT !.outstanding = 0]}

\* A better record is never answered with a lower limit: repaying what was
\* taken, asking less often, fewer cured defaults, and less debt can only raise
\* it, for every row, request and configuration that occurs (scoreV3).
BetterRecordNeverHurts ==
    \A d \in served : \A g \in Improvements(d.in.f) :
        scoreV3(g, d.in.da, d.in.type, d.in.exposure, Config[d.rows]).limit >= d.limit

\* As long as scoring is asked for, a stored configuration becomes the one in
\* use once it is left alone: neither the copy nor a read that was under way
\* when it was stored keeps an older one for good (CsdpScoringConfigLoader).
EditTakesEffect ==
    ([]<><<\E c \in Scorings : score(c)>>_scoring) => <>[](loader.cached = stored)

\* A subscriber who stops asking is let out of the velocity gate, unless the
\* EXPIRE that follows the first INCR was lost (incrEligibilityCheck).
VelocityDecays == ([](faults = 0)) => []<>(checks.n = 0)
=============================================================================
