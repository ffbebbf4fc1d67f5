CONSTANTS
    Threads = {t1, t2, t3}
    AllRequesters = {}
    SyncRequesters = {t1, t2}
    MaxCalls = 2
    None = None
SPECIFICATION FairSpec
PROPERTY SyncCheckpointReturns
CHECK_DEADLOCK FALSE
