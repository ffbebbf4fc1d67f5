\* The component that runs, and what its threads do, is chosen in the first
\* state.
SPECIFICATION MCSpec
CONSTANTS
    t1 = t1
    t2 = t2
    t3 = t3
    t4 = t4
    ka = ka
    kb = kb
    kc = kc
    a = a
    w = w
    x = x
    y = y
    None = None
    Mutators = {t1, t2}
    Objects = {a, w, x, y}
    Moving = {x}
    References = {w}
    Finalizable = {y}
    Scenarios <- MCScenarios
INVARIANTS
    ToSpaceInvariant
    MarkingComplete
    CollectionExcluded
    ClassesReady
PROPERTIES
    NullIsFinal
    ClearedStaysCleared
    WaitCompletes
    CollectionEnds
    NothingForgotten
CHECK_DEADLOCK FALSE
