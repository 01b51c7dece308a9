CONSTANTS
    Tasks = {1, 2}
    Planned = {2}
    MaxWorkers = 1
    TransientLimit = 2
    Scenarios <- Small
SPECIFICATION FairSpec
INVARIANTS
    ControlsHold
PROPERTIES
    StopsHold
    ReadyIsTaken
CHECK_DEADLOCK FALSE
