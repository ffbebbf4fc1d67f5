\* A class is linked while the Java method is compiled twice.
SPECIFICATION Spec
CONSTANTS
    Mutators = {m1}
    Compilers = {c1, c2}
    Loader = ld
    JavaMethods = {j}
    NativeMethods = {n1, n2}
    InitialCapacity = 1
    ReservedCapacity = 1
    MaxCapacity = 2
    OneMB = 2
    MaxDepth = 1
    Scenarios <- LinkScenario
    MayAllocate <- FirstFit
    j = j
    n1 = n1
    n2 = n2
    None = None
INVARIANTS
    InvalidatedCodeHidden
CHECK_DEADLOCK FALSE
