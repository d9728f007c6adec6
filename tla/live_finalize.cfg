\* acl.h asks for aclFinalize before the process exits.
CONSTANTS
    Slots      <- MCSlots
    Data       <- MCData
    Blocks     = {b1, b2}
    NoBlock    = NoBlock
    NumOutputs = 1
    Keys       = 1
    MaxFaults  = 0
SPECIFICATION Spec
INVARIANTS FinalizedAtExit
