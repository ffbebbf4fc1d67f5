\* A request for a concurrent collection beside an explicit one.
SPECIFICATION FairSpec
CONSTANTS
    m1 = m1
    m2 = m2
    None = None
    Mutators = {m1, m2}
    Daemon = daemon
    Programs <- ExplicitBeside
    Modulus = 8
    FirstGc = 0
PROPERTY PromiseKept
CHECK_DEADLOCK FALSE
