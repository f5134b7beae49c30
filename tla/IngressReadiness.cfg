SPECIFICATION FairSpec
CONSTANTS
    Events = {e1, e2}
    NoEvent = NoEvent
    ScanLimit = 1
    Requests = {"plain"}
    Keys = {"key"}
    NoKey = NoKey
    Unsound = Unsound
    KeyOf <- MCKeyOf
    ContentOf <- MCContentOf
    Probes = {p1, p2}
    MaxOutages = 2
CHECK_DEADLOCK FALSE
PROPERTY ReadinessConverges
