CONSTANTS
    Scenarios <- Small
    MaxRepairs = 1
    Attempts = 1
    TransientLimit = 2
    MaxTasks = 3
SPECIFICATION HeadlessFairSpec
INVARIANTS
    BudgetHolds
    ExitIsTrue
PROPERTIES
    RunsEnd
CHECK_DEADLOCK FALSE
