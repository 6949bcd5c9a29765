SPECIFICATION FairSpec
CONSTANTS
    Scripts = {s1}
    Ops = {}
    Tasks = {}
    Untimed = {}
    Sizes = {1, 2}
    MaxReloads = 1
    Free = Free
PROPERTY
    SlotReturned
CHECK_DEADLOCK FALSE
