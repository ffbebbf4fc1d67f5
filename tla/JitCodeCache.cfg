\* Room for one piece of code at first, and for two at most; the scenario is
\* chosen in the first state.
SPECIFICATION Spec
CONSTANTS
    Mutators = {m1}
    Compilers = {c1, c2}
    Loader = ld
    JavaMethods = {j}
    NativeMethods = {n1, n2}
    InitialCapacity = 1
    ReservedCapacity = 1
    MaxCapacity = 2
    OneMB = 2
    MaxDepth = 1
    Scenarios <- MCScenarios
    MayAllocate <- FirstFit
    j = j
    n1 = n1
    n2 = n2
    None = None
INVARIANTS
    CodeAlive
    CommitFindsEntry
    CodeInvalidated
PROPERTIES
    CompilationEnds
CHECK_DEADLOCK FALSE
