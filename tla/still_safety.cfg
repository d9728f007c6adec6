\* Three runs of the still-picture detector in one directory, any call failing.
CONSTANTS
    Slots      <- MCSlots
    Data       <- MCData
    Pictures   = {p1, p2}
    NoPicture  = NoPicture
    NumOutputs = 2
    MaxFaults  = 2
    MaxRuns    = 3
SPECIFICATION Spec
CHECK_DEADLOCK FALSE
INVARIANTS
    ExecuteReady
    HeapBalanced
PROPERTIES
    ReportsThisPicture
