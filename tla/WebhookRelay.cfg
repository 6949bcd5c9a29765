SPECIFICATION FairSpec
CONSTANTS
    NumRequests = 2
    Polls = {p1, p2}
    Limit = 2
    MaxCrashes = 1
    MaxLosses = 1
    None = None
INVARIANTS
    RunsAreDue
PROPERTIES
    QueueImplemented
    EveryRequestAnswered
CHECK_DEADLOCK FALSE
