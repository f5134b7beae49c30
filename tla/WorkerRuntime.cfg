SPECIFICATION FairSpec
CONSTANT MaxOutages = 2
CHECK_DEADLOCK FALSE
INVARIANTS GaugeFollowsRedis
PROPERTIES NoWorkAfterShutdown ShutdownCompletes WorkResumes
