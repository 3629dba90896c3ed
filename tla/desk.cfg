SPECIFICATION DeskSpec
CONSTANTS
    Missing = Missing  NoJob = NoJob  NoFlush = NoFlush
    a1 = a1  d1 = d1   c1 = c1  c2 = c2
    Agents = {a1}  Admins = {d1}  Slots = {c1, c2}
    MaxTickets = 1  MaxRequests = 3  MaxOverlaps = 1  MaxFailures = 1
    BatchSize = 2  Attempts = 2  Concurrency = 2
INVARIANT MessagesCounted
INVARIANT ResolvedIsDated
INVARIANT NoticesAccounted
CHECK_DEADLOCK FALSE
SYMMETRY SlotSymmetry
