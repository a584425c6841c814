\* Under fair scheduling, with a program whose new timers are in the future.
CONSTANTS
    Entry = {e1, e2}
    TimeMaxId = 3
    U32Max = 4
    U64Max = 9
    Step = {1}
    AtTime = {0}
    MaxNow = 2
    BackStep = 0
    IdReuse = TRUE
    Ops <- FutureOps
    DeleteFiring = FALSE
    MaxSize = 1
SPECIFICATION FairSpec
PROPERTIES DueTimerFires ShutdownExits
