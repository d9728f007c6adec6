\* Two channels, one calibration, up to two failing calls, the threads scheduled.
CONSTANTS
    NumChn    = 2
    Jpeg      <- MCJpeg
    BufCap    = 1
    MaxPauses = 1
    MaxFaults = 2
SPECIFICATION FairSpec
INVARIANTS
    ThreadInsideChannels
    FilesClosed
    NoChannelLeft
PROPERTIES
    JoinsOnce
    StopReturns
    EveryChannelServed
