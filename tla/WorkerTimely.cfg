SPECIFICATION Spec
CONSTANTS
    Events = {e1, e2}
    NoEvent = NoEvent
    ScanLimit = 1
    MaxAttempts = 2
    Workers = {w1, w2}
    Overlap = FALSE
    MaxFaults = 1
    MaxStray = 1
SYMMETRY Symmetry
INVARIANTS OpenIsLive AttemptsBounded DeadLetterIsFiled
PROPERTIES ImplementsLifecycle
