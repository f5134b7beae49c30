SPECIFICATION Spec
CONSTANTS
    Events = {e1}
    NoEvent = NoEvent
    ScanLimit = 2
    MaxAttempts = 2
    Workers = {w1, w2}
    Overlap = TRUE
    MaxFaults = 1
    MaxStray = 1
SYMMETRY Symmetry
INVARIANTS TypeOK NoLoss DeliveredIsReceived NoStrandedRetry DeadLetterOnce
