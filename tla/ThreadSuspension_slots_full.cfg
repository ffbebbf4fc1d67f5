\* More SuspendAll callers than barrier slots, against a runnable thread that
\* needs thread_list_lock_.
SPECIFICATION BoundedSpec
CONSTANTS
    gc = gc
    dbg = dbg
    m1 = m1
    None = None
    Threads = {gc, dbg, m1}
    Attached = {gc, dbg, m1}
    SuspendAllers = {gc, dbg}
    ByIdSuspenders = {m1}
    ByPeerSuspenders = {}
    Detachers = {}
    MaxSuspendBarriers = 1
    MaxCalls = 3
PROPERTY RetryEnds
CHECK_DEADLOCK FALSE
