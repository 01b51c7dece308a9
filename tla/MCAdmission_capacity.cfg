CONSTANTS
    one = one
    two = two
    other = other
    Clients = {one, two, other}
    Background = {other}
    Setups <- Both
    Nobody = Nobody
    MaxTickets = 2
    Owners = {o1, o2, o3}
    NoOwner = NoOwner
SPECIFICATION AdmissionFairSpec
INVARIANTS
    ServedInTurn
    LedgerHolds
PROPERTIES
    TicketServed
