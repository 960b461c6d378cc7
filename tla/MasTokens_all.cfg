SPECIFICATION FairSpec
CONSTANTS
    Procs = {server, simclient}
    MaxIssued = 4
    MaxCrashes = 1
    MaxFaults = 1
INVARIANTS
    ChainSound
PROPERTIES
    NoNeedlessRefresh
    CallsEnd
CHECK_DEADLOCK FALSE
