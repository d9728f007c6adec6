\* OT_VI_MAX_DEV_NUM devices as in the SDK, one failing call per run.
CONSTANTS
    MaxDev = 4
    MaxFaults = 1
SPECIFICATION FairSpec
INVARIANTS
    NothingLeft
    Supported
    InTurn
PROPERTIES
    RouteEnds
CHECK_DEADLOCK FALSE
