CONSTANTS
    Scenarios <- SteeredThenKilled
    MaxRepairs = 1
    Attempts = 1
    TransientLimit = 2
    MaxTasks = 3
SPECIFICATION FairSpec
PROPERTIES
    ResumeContinues
CHECK_DEADLOCK FALSE
