CONSTANTS
    JobNames = {"a", "b"}
    JobPeriod = 2
    MaxSwaps = 1
    MaxLines = 4
    FirstTail = 2
    TailLimit = 3
    RingLines = 2
    FileLines = 2
    PendingLines = 2
    BatchLines = 1
    Stamp <- StampOfLine
    Poison = {}
    MaxRestarts = 1
    MaxStops = 1
    Patchers = {"p1"}
    Quick = TRUE
    MaxWrites = 3
    Containers = {"y", "z"}
    Stores = {"docker", "podman-root", "podman-user"}
    Hiccups = {{}, {"podman-root"}, {"docker", "podman-root"}}
    RuntimeOf <- RuntimeOfStore
    StoreOf <- StoreOfContainer
    States = {"running"}
    Allowlists = {{}, {"y"}}
    Uploads = {"u1", "u2"}
SPECIFICATION Spec
INVARIANT CapturedOnce
INVARIANT BadPatchUndone
PROPERTY JobsRecur
PROPERTY LinesReachCloud
PROPERTY ConfigConverges
PROPERTY HiccupKeepsRows
PROPERTY CloudConverges
CHECK_DEADLOCK FALSE
