\* Callbacks may add timers whose deadline is past.
CONSTANTS
    Entry = {e1, e2}
    TimeMaxId = 3
    U32Max = 4
    U64Max = 9
    Step = {0, 1}
    AtTime = {0}
    MaxNow = 2
    BackStep = 0
    IdReuse = TRUE
    Ops <- PastOps
    DeleteFiring = FALSE
    MaxSize = 1
SPECIFICATION FairSpec
PROPERTY ShutdownExits
