SPECIFICATION Spec
CONSTANTS
    Missing = Missing
    e1 = e1  e2 = e2  c1 = c1  c2 = c2
    Emails = {e1}  Slots = {c1, c2}
    MaxInvites = 2  MaxTokens = 2  MaxFaults = 1
INVARIANT AcceptedIsComplete
 
CHECK_DEADLOCK FALSE
