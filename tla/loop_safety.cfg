\* Every method, from every callback; the ids do not come round and the clock
\* is not set back.
CONSTANTS
    Entry = {e1, e2}
    TimeMaxId = 3
    U32Max = 4
    U64Max = 9
    Step = {0, 1}
    AtTime = {0, 2}
    MaxNow = 2
    BackStep = 0
    IdReuse = FALSE
    Ops <- AllOps
    DeleteFiring = FALSE
    MaxSize = 1
SPECIFICATION Spec
SYMMETRY Slots
INVARIANTS TypeOK QueuedIsMapped UniqueIds DeletedStaysSilent
PROPERTIES OncePerPass ImplementsTimerService
