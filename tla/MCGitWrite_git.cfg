CONSTANTS
    file = file
    note = note
    key = key
    main = main
    go = go
    Files = {file, note, key}
    Branches = {main, go}
    Secrets = {key}
    MaxListed = 2
    MaxCommits = 7
    Scenarios <- Small
SPECIFICATION GitFairSpec
INVARIANTS
    AsShown
    ReportsAreTrue
PROPERTIES
    CallEnds
CHECK_DEADLOCK FALSE
