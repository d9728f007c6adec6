\* The live demo, two video buffer blocks, up to two failed AscendCL calls;
\* both threads are scheduled, keys are optional.
CONSTANTS
    Slots      <- MCSlots
    Data       <- MCData
    Blocks     = {b1, b2}
    NoBlock    = NoBlock
    NumOutputs = 2
    Keys       = 2
    MaxFaults  = 2
SPECIFICATION FairSpec
INVARIANTS
    FrameInsideRoute
    ReadyWhenExecuted
    NothingFreedTwice
    LeakBound
    BuffersOutliveUsers
    RouteDown
PROPERTIES
    TakenDownInReverse
    KeepsLease
    JoinReturns
    SignalEndsDemo
