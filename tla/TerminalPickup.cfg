SPECIFICATION Spec
CONSTANTS
    TicketTTL = 0
    LeaseTTL = 0
    PendingExpiry = 2
    ActiveMaxAge = 1
    Retention = 1
    AgeCap = 3
    None = None
    Creates = {s1}
    Polls = {p1, p2}
    Waiters = {w1, w2, w3}
    Cap = 1
    PendingLimit = 1
INVARIANTS
    NoLostWakeup
    LeaseExclusive
SYMMETRY Symmetry
