\* Two boots, three files in an artifact; a file of it may fail to be flushed.
SPECIFICATION Spec
CONSTANTS
    isa = isa
    jar = jar
    None = None
    Torn = Torn
    Empty = Empty
    Isas = {isa}
    SystemServerIsa = isa
    Jars <- MCJars
    Envs <- MCEnvs
    Systems <- MCSystems
    Configs <- MCConfigs
    NumFiles = 3
    MaxBoots = 2
INVARIANT FailedMoveGone
CHECK_DEADLOCK FALSE
