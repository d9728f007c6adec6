\* Two channels, three model slots, two decoders, frames matched within five tries, up to two
\* different calls failing in a run, each as often as it likes.
CONSTANTS
    TryTime      = 5
    Cnt          = 2
    MaxThreadNum = 3
    ChnNum       = 2
    MaxFaults    = 2
SPECIFICATION FairSpec
CHECK_DEADLOCK FALSE
INVARIANTS
    HoldsWhatItUses
    NothingKept
PROPERTIES
    StopEnds
