SPECIFICATION Spec
CONSTANTS
    Tasks = {t1, t2, t3, t4}
    Clients = {}
    NStages = 1
    MaxAttempts = 0
    Slots = 2
    HistoryLimit = 1
    CaptureLimit = 2
    TailLimit = 2
    ChunkSizes = {}
    MaxWritten = 0
    None = None
INVARIANTS
    RunningFindable
SYMMETRY Symmetry
CHECK_DEADLOCK FALSE
