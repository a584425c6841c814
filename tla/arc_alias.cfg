\* Two handles to one box, each dereferenced.
CONSTANTS
    Thread = {t1, t2}
    Ref = {r1, r2}
    Credited = TRUE
SPECIFICATION Spec
CHECK_DEADLOCK FALSE
SYMMETRY Symmetric
INVARIANTS ExclusiveUse
