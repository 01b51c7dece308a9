CONSTANTS
    MaxTasks = 4
    MaxReceipts = 14
    MaxRoots = 3
    MaxScope = 2
    Policies = {p1}
    NoPolicy = NoPolicy
    Baselines = {b1}
    NoBaseline = NoBaseline
    Decisions <- Reviews
    PlanShapes <- Shapes
SPECIFICATION Spec
CONSTRAINT Small
INVARIANTS
    TypeOK
    AcceptedIsEarned
    AcceptedMeetsContract
    InputsStayExact
    ResultsHaveRoom
    LineagesHold
PROPERTIES
    OneAnswerPerFamily
    FinalOutcomes
    WorkFollowsScope
CHECK_DEADLOCK FALSE
