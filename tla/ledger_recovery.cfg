SPECIFICATION LiveSpec
INVARIANTS
    CountersAgree
    RecoveredOnce
    KoboMatchesCounters

    
SYMMETRY WorkerSymmetry
CHECK_DEADLOCK FALSE
CONSTANTS
    l1 = l1
    l2 = l2
    s1 = s1
    r1 = r1
    r2 = r2
    None = None
    Owner <- MCOwner
    Payer <- MCPayer
    Repayable <- MCRepayable
    SumRepayable <- MCSumRepayable
    Items <- ItemsCrossed
    Applied <- AppliedFull
    Subscribers = {s1}
    Workers = {w1, w2}
    Loans = {l1, l2}
    Recoveries = {r1, r2}
    LoanDeliveries = 1
    RecoveryDeliveries = 1
    InternalStatuses = {}
    RefillColumns <- MigratedColumns
    MaxAttempts = 2
    MaxFaults = 1
    FaultyKinds = {"recovery"}
