CONSTANTS
    MaxRetries = 2
    MaxFrames = 2
    Files = 2
SPECIFICATION WorkFairSpec
INVARIANTS
    SuccessIsEarned
    NothingRunsOn
PROPERTIES
    WorkerEnds
