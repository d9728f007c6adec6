\* Two frames of a model with the three heads in the order ncnn_result expects,
\* and a buffer of another length between them; any buffer may be skipped.
CONSTANTS
    Outputs    <- MCOutputs
    Boxes      <- MCBoxes
    Overlap    <- MCOverlap
    Rects      <- MCRects
    Clip       <- MCClip
    Probs      <- MCProbs
    NumClass   = 1
    MaxFrames  = 2
    MaxPerHead = 1
SPECIFICATION DetectSpec
CHECK_DEADLOCK FALSE
INVARIANTS
    KeptApart
    DroppedForBetter
    ReportOfThisFrame
