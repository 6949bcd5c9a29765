SPECIFICATION FairSpec
CONSTANTS
    TicketTTL = 0
    LeaseTTL = 0
    PendingExpiry = 1
    ActiveMaxAge = 1
    Retention = 1
    AgeCap = 2
    None = None
    Browsers = {b1}
    Agents = {a1}
    Revokers = {r1}
PROPERTIES
    ClosedSocketDrains
    EveryRowEnds
