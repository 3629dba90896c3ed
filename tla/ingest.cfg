SPECIFICATION Spec
CONSTANTS
    Missing = Missing  Bad = Bad
    s1 = s1  l1 = l1  r1 = r1  g1 = g1
    Content <- MCContent  Logs <- MCLogs  Msisdns = {s1}
    BATCH_SIZE = 2  Attempts = 2
    Together <- MCTogether
    MaxJobs = 2  MaxReplays = 1  MaxFaults = 1
INVARIANT Accounted
PROPERTY TrustedKept
PROPERTY BatchesSettle
PROPERTY RecoveryReachesOutcome
CHECK_DEADLOCK FALSE
