SPECIFICATION FairSpec
CONSTANTS
    Unknown = Unknown  NoJob = NoJob  NoFlush = NoFlush
    c1 = c1  c2 = c2  t1 = t1
    Calls = {c1, c2}  Refs = {t1}  RefOf <- Repeated  Bucket <- OneSubscriber
    FlagValues = {"LIVE_5", "LIVE_50"}
    PartnerLimits = {1}  ScoreLimits = {2}
    CbThreshold = 1  BatchSize = 2  Attempts = 2  MaxSets = 1  MaxFaults = 1  MaxEvents = 1
CHECK_DEADLOCK FALSE
INVARIANT NoDecisionDropped
INVARIANT ClosedBelowThreshold
PROPERTY KeepsContract
PROPERTY FlagTakesEffect
