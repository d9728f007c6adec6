\* A channel that cannot be stopped.
CONSTANTS
    NumChn    = 2
    Jpeg      <- MCJpeg
    BufCap    = 1
    MaxPauses = 0
    MaxFaults = 1
SPECIFICATION Spec
INVARIANTS StopEndsThread
