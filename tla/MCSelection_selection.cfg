CONSTANTS
    t1 = t1
    t2 = t2
    home = home
    far = far
    r1 = r1
    r2 = r2
    Terminals = {t1, t2}
    Places = {home, far}
    Repos = {r1, r2}
    RepoOf <- TheRepo
    Nobody = Nobody
    MaxHistory = 2
    MaxRequests = 3
    MaxFaults = 1
CONSTRAINT Few
SYMMETRY Symmetry
SPECIFICATION Spec
INVARIANTS
    WorkIsOwned
    ChoicesHold
