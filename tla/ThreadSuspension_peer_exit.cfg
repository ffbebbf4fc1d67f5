\* A stack trace of a thread that clears its peer and exits.
SPECIFICATION BoundedSpec
CONSTANTS
    dumper = dumper
    m1 = m1
    None = None
    Threads = {dumper, m1}
    Attached = {dumper, m1}
    SuspendAllers = {}
    ByIdSuspenders = {}
    ByPeerSuspenders = {dumper}
    Detachers = {m1}
    MaxSuspendBarriers = 3
    MaxCalls = 1
PROPERTY UnregisterCompletes
CHECK_DEADLOCK FALSE
