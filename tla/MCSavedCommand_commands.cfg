CONSTANTS
    c1 = c1
    c2 = c2
    Commands = {c1, c2}
    Other = Other
    Nothing = Nothing
    Scenarios <- Small
SPECIFICATION FairSpec
INVARIANTS
    TakesEffectOnce
    RecordsAreTrue
PROPERTIES
    CommandSettles
CHECK_DEADLOCK FALSE
