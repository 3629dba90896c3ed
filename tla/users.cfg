SPECIFICATION Spec
CONSTANTS
    Ids = {old, new}
    Legacy = old
    Numbers = {n1, n2}
    OldNumber = n1
    Slots = {s1, s2}
    Amounts <- MCAmounts
    MaxRequests = 3
    MaxOverlaps = 2
    MaxFaults = 1
    All = All
    Missing = Missing
INVARIANTS  CopiesExplained LastWordStands
CHECK_DEADLOCK FALSE
