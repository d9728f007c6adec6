\* Three decoders for three pools, files of up to three parts read 48 bytes at a
\* time, thresholds of three bits.
CONSTANTS
    MaxCommonPools = 3
    MinBufSize     = 48
    ThreshSize     = 8
    MaxArea        = 9
    TargetSize     = 16
    MaxStride      = 4
    MaxChannels    = 3
    MaxParts       = 3
    TempBufLen     = 4
    MaxFile        = 7
    ShowTopNum     = 3
    Beat           = 3
    MaxLate        = 5
    MaxSent        = 4
SPECIFICATION FairSpec
CHECK_DEADLOCK FALSE
INVARIANTS
    AttributesHold
    TablesAgree
    PoolsServe
    PlacesHold
    OnePicture
PROPERTIES
    CallsEnd
