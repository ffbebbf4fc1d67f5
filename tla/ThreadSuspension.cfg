\* Three threads; what they do is chosen in the first state.
SPECIFICATION MCSpec
CONSTANTS
    gc = gc
    m1 = m1
    m2 = m2
    None = None
    Threads = {gc, m1, m2}
    Attached = {gc, m1, m2}
    SuspendAllers = {gc}
    ByIdSuspenders = {m1, m2}
    ByPeerSuspenders = {}
    Detachers = {m2}
    MaxSuspendBarriers = 3
INVARIANTS
    MutatorExclusion
    SuspendedUntilResume
    NoRequestCycle
    SuspendCountExact
    PendingExact
    NoLateDecrement
    StaysSuspended
    ClosureAlive
    RanExactlyOnce
PROPERTIES
    ImplementsSuspendRequests
    CallsReturn
