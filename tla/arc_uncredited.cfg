\* fetch_sub called with no count of fetch_add to give back.
CONSTANTS
    Thread = {t1, t2}
    Ref = {r1, r2}
    Credited = FALSE
SPECIFICATION Spec
CHECK_DEADLOCK FALSE
SYMMETRY Symmetric
INVARIANTS NoUseAfterFree
