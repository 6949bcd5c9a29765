SPECIFICATION FairSpec
CONSTANTS
    Tasks = {t1}
    Clients = {c1}
    NStages = 2
    MaxAttempts = 2
    Slots = 1
    HistoryLimit = 1
    CaptureLimit = 2
    TailLimit = 2
    ChunkSizes = {1, 2}
    MaxWritten = 5
    None = None
INVARIANTS
    PlanHonest
    NoGapInOutput
PROPERTY
    TaskEnds
CHECK_DEADLOCK FALSE
