\* Three threads; a thin lock recurses once.
SPECIFICATION FairSpec
CONSTANTS
    t1 = t1
    t2 = t2
    t3 = t3
    Threads = {t1, t2, t3}
    MaxCount = 1
    MaxDepth = 3
    Programs <- MCPrograms
    None = None
INVARIANTS LockCountExact NoDeflatedUse OneHashCode
PROPERTIES NotifiedWakes PermitWakes
CHECK_DEADLOCK FALSE
