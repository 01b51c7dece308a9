CONSTANTS
    Procs = {p1, p2}
    Nobody = Nobody
    MaxRuns = 2
    Scenarios <- Small
SPECIFICATION FairSpec
INVARIANTS
    ProofsHold
PROPERTIES
    SealedIsQuiet
    ImplementsGovernedRun
    OwnerReleased
CHECK_DEADLOCK FALSE
