SPECIFICATION FairSpec
CONSTANTS
    NoSid = NoSid  NoRow = NoRow  NoSession = NoSession  NoQuote = NoQuote
    NoLoan = NoLoan  NoJob = NoJob
    u1 = u1  s1 = s1  l1 = l1  l2 = l2  l3 = l3  c1 = c1  c2 = c2  j1 = j1  j2 = j2  j3 = j3
    Users = {u1}  Sids = {s1}  Loans = {l1, l2, l3}  Calls = {c1, c2}  Jobs = {j1, j2, j3}
    Channels <- TwoGateways  Options = {1, 2}  BaseAmount = 2  CreditLimit = 2
    Attempts = 3  MaxStalled = 1  Concurrency = 3
    MaxCalls = 2  MaxFaults = 1  MaxFailures = 1
CHECK_DEADLOCK FALSE
INVARIANT OneLoanPerKey
INVARIANT LocksOwned
PROPERTY QueuedDisbursed
