SPECIFICATION Spec
CONSTANTS
    Scripts = {"gate", "rollout_smoke", "resiliency"}
    RequestSamples = 2
    BadSamples = 1
    MaxFaults = 2
    MaxCrashes = 1
CHECK_DEADLOCK FALSE
INVARIANTS ConvergedMeansCurrent BadReleaseIsGone HealthyRolloutPasses
PROPERTY RolloutEnds
