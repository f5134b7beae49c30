SPECIFICATION Spec
CONSTANTS
    Scripts = {"integration", "ecs", "demo", "flow", "clean_room"}
    MaxFaults = 3
CHECK_DEADLOCK FALSE
INVARIANTS PassMeansClean FailureIsCleaned
