\* Seven detections with ties, in every order, every interleaving of the calls,
\* each section scheduled.
CONSTANTS
    N       = 7
    Objects <- MCObjects
    Conf    <- MCConf
SPECIFICATION FairSort
INVARIANTS
    IndexInRange
    NoRace
    Permutation
    SortedWhenDone
PROPERTIES SortEnds
