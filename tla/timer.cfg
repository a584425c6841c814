\* Ids come round, there are more entries than ids, and now + step overflows.
CONSTANTS
    Entry = {e1, e2, e3}
    TimeMaxId = 2
    U32Max = 3
    U64Max = 1
    Step = {0, 1}
    AtTime = {1}
    MaxNow = 1
    BackStep = 1
    IdReuse = TRUE
SPECIFICATION TimerSpec
SYMMETRY Slots
INVARIANTS MappedIsQueued HangsOnlyWhenFull ScanAgrees
