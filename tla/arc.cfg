\* Three threads, up to four references; when the box is dropped all is over.
CONSTANTS
    Thread = {t1, t2, t3}
    Ref = {r1, r2, r3, r4}
    Credited = TRUE
SPECIFICATION Spec
CHECK_DEADLOCK FALSE
SYMMETRY Symmetric
INVARIANTS NoUseAfterFree NothingLeaks UsesBeforeFree
