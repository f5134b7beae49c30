SPECIFICATION Spec
CONSTANTS
    FeatureCount = 2
    MaxIterations = 3
    MaxAttempts = 2
    Strict = TRUE
    MaxSignals = 2
    MaxRegressions = 1
    MaxFaults = 1
CHECK_DEADLOCK FALSE
INVARIANTS SignalReachesAgent InterruptIsReported TimedOutIsNotPassing
PROPERTIES OneWriter RunEnds
