SPECIFICATION Spec
CONSTANTS
    Missing = Missing
    p1 = p1  p2 = p2  c1 = c1  c2 = c2
    Passwords = {p1, p2}  FirstPassword = p1  Slots = {c1, c2}
    MaxSessions = 2  MaxTokens = 2  MaxCodeSets = 2  MaxResets = 1
    MaxFaults = 1  MaxOverlaps = 1
INVARIANT NeverHalfEnrolled
INVARIANT SignsInOnce
INVARIANT ResetSticks
CHECK_DEADLOCK FALSE
