SPECIFICATION Spec
CONSTANTS
    Scripts = {"kind_e2e", "downstream", "redis", "worker", "smoke", "observability"}
    MaxFaults = 2
CHECK_DEADLOCK FALSE
INVARIANTS PassMeansRestored InjectionIsUndone HealthyRunPasses
