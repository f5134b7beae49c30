SPECIFICATION Spec
CONSTANTS
    Events = {e1, e2, e3, e4}
    NoEvent = NoEvent
    ScanLimit = 1
    Requests <- SeveralRequests
    Keys = {"key"}
    NoKey = NoKey
    Unsound = Unsound
    KeyOf <- MCKeyOf
    ContentOf <- MCContentOf
    Probes = {}
    MaxOutages = 1
CHECK_DEADLOCK FALSE
SYMMETRY EventSymmetry
INVARIANTS AcceptedIsStored OneEventPerKey KeyBindsContent DrainIsExact
