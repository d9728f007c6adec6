\* What aclrtFree is given when the input buffer cannot be filled.
CONSTANTS
    Slots      <- MCSlots
    Data       <- MCData
    Pictures   = {p1, p2}
    NoPicture  = NoPicture
    NumOutputs = 2
    MaxFaults  = 1
    MaxRuns    = 2
SPECIFICATION Spec
CHECK_DEADLOCK FALSE
INVARIANTS OnlyMallocedFreed
