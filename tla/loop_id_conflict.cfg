\* The ids come round.
CONSTANTS
    Entry = {e1, e2, e3}
    TimeMaxId = 2
    U32Max = 3
    U64Max = 9
    Step = {0, 1}
    AtTime = {0}
    MaxNow = 2
    BackStep = 1
    IdReuse = TRUE
    Ops <- AllOps
    DeleteFiring = FALSE
    MaxSize = 1
SPECIFICATION Spec
PROPERTY NewIdIsUnallocated
