\* Two mutators, one of which asks for peers: three calls in any mix of flips,
\* critical sections and suspend requests; or odrefresh over three boots.
SPECIFICATION MCSpec
CONSTANTS
    Mutators = {t1, t2}
    Collector = gc
    Helpers = {t1}
    MaxCalls = 3
    isa = isa
    jar = jar
    None = None
    Torn = Torn
    Empty = Empty
INVARIANTS
    FlippedBeforeUse
    StoppedForFlip
    FlippedOnce
    ArtifactsSound
PROPERTY FlipCompletes
CHECK_DEADLOCK FALSE
