SPECIFICATION FairSpec
CONSTANTS
    Events = {e1}
    Inherited = {e1}
    Messages = {m1, m2}
    NoEvent = NoEvent
    Repairers = {r1, r2}
    Consumers = {c1, c2}
    NoToken = NoToken
    Overlap = TRUE
    RepairLimit = 1
    MaxAttempts = 2
    MaxRetries = 1
    MaxFaults = 1
CHECK_DEADLOCK FALSE
INVARIANTS OpenIsReferenced AckedIsTerminal AttemptsBounded WaitingHasBudget ExhaustedIsNotDelivered
PROPERTIES ImplementsLifecycle EventuallySettled
