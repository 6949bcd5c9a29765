SPECIFICATION FairSpec
CONSTANTS
    Scripts = {s1}
    Ops = {o1}
    Tasks = {t1}
    Untimed = {o1}
    Sizes = {1, 2}
    MaxReloads = 1
    Free = Free
INVARIANTS
    SlotsBoundRuns
    BooksBalance
PROPERTY
    SlotReturnedUnlessReloaded
CHECK_DEADLOCK FALSE
