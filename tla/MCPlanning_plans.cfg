SPECIFICATION FairSpec
CONSTANTS
    Writers <- Everyone
    MaxReceipts = 4
    Scenarios <- Small
    Sessions = {1, 2}
    PlanAttempts = 2
    Attempts = 2
    TransientLimit = 2
    MaxIds = 40
INVARIANTS
    ScopeIsOwn
    RoomToAgree
PROPERTIES
    PlansHold
    PlanningEnds
CHECK_DEADLOCK FALSE
