SPECIFICATION Spec
CONSTANTS
    TicketTTL = 0
    LeaseTTL = 0
    PendingExpiry = 1
    ActiveMaxAge = 1
    Retention = 1
    AgeCap = 2
    None = None
    Browsers = {b1, b2}
    Agents = {a1, a2}
    Revokers = {}
INVARIANTS
    TicketSingleUse
    OneReaderOneWriter
    WaiterFindable
    RegistryNotLeaked
    AttachedNotReoffered
SYMMETRY Symmetry
