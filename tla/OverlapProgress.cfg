SPECIFICATION FairSpec
CONSTANTS
    Events = {e1}
    NoEvent = NoEvent
    ScanLimit = 2
    MaxAttempts = 2
    Workers = {w1, w2}
    Overlap = TRUE
    MaxFaults = 0
    MaxStray = 0
PROPERTY EventuallyTerminal
