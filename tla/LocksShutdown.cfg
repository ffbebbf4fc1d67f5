\* Three threads on a recursive mutex, two of which wait for its condition
\* and one of which signals it; or on a reader-writer mutex, which they lock
\* shared, exclusively and with a time-out; or the shutdown of the runtime.
SPECIFICATION MCSpec
CONSTANTS
    t1 = t1
    t2 = t2
    t3 = t3
    t4 = t4
    Threads = {t1, t2, t3}
    Waiters = {t1, t2}
    Signallers = {t3}
    Recursive = TRUE
    MaxRecursion = 2
    MaxCalls = 5
    MaxRWCalls = 4
    None = None
INVARIANTS
    MutualExclusion
    ContendersExact
    ReadersOrWriter
    ShutdownClean
PROPERTIES
    NobodySleepsOn
    SignalDelivered
CHECK_DEADLOCK FALSE
