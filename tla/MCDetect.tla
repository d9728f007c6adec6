------------------------------ MODULE MCDetect ------------------------------
(* Boxes as intervals, of a picture of 0..4 in a wider input.  The middle   *)
(* one overlaps with the right one; with the left one it does so only after *)
(* both are clipped.                                                        *)
EXTENDS Detect
MCOutputs == <<8, 16, 0, 32>>     \* the strides, and a buffer of another length
MCBoxes   == {<<-6, 2>>, <<0, 3>>, <<1, 4>>}
MCProbs   == {30, 90}

LOCAL Least(a, b)    == IF a < b THEN a ELSE b
LOCAL Greatest(a, b) == IF a < b THEN b ELSE a
LOCAL Common(a, b)   == Greatest(0, Least(a[2], b[2]) - Greatest(a[1], b[1]))
LOCAL Together(a, b) == (a[2] - a[1]) + (b[2] - b[1]) - Common(a, b)
MCOverlap == {<<a, b>> \in MCBoxes \X MCBoxes : 100 * Common(a, b) > 45 * Together(a, b)}

LOCAL IntoPicture(x) == Greatest(0, Least(x, 4))
MCRects == (0..4) \X (0..4)
MCClip  == [b \in MCBoxes |-> <<IntoPicture(b[1]), IntoPicture(b[2])>>]
=============================================================================
