SPECIFICATION Spec
INVARIANTS
    TakenOnce
    NoPhantomDisbursement
PROPERTIES
    
    RecoveryConverges
CHECK_DEADLOCK FALSE
CONSTANTS
    l1 = l1
    l2 = l2
    s1 = s1
    r1 = r1
    r2 = r2
    None = None
    Owner <- MCOwner
    Payer <- MCPayer
    Repayable <- MCRepayable
    SumRepayable <- MCSumRepayable
    Items <- ItemsOne
    Applied <- AppliedFull
    Subscribers = {s1}
    Workers = {w1, w2}
    Loans = {l1}
    Recoveries = {r1}
    LoanDeliveries = 1
    RecoveryDeliveries = 2
    InternalStatuses = {"RECOVERED", "CANCELLED"}
    RefillColumns <- NamedColumns
    MaxAttempts = 2
    MaxFaults = 1
    FaultyKinds = {"loan", "recovery"}
