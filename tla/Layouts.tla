------------------------------ MODULE Layouts ------------------------------
(***************************************************************************)
(* The windows of an output (sample_comm_vo.c), the rectangles shown for   *)
(* the regions an accelerator finds (sample_common_ive.c), and the boxes   *)
(* brought back from the square a model sees (yolov5.cpp).                 *)
(***************************************************************************)
EXTENDS Integers, FiniteSets, FiniteSetsExt

\* Windows, and how many in a row and in a column.
WndInfo ==
    [VO_MODE_1MUX  |-> <<1, 1, 1>>,  VO_MODE_2MUX  |-> <<2, 2, 2>>,  VO_MODE_4MUX  |-> <<4, 2, 2>>,
     VO_MODE_8MUX  |-> <<8, 3, 3>>,  VO_MODE_9MUX  |-> <<9, 3, 3>>,  VO_MODE_16MUX |-> <<16, 4, 4>>,
     VO_MODE_25MUX |-> <<25, 5, 5>>, VO_MODE_36MUX |-> <<36, 6, 6>>, VO_MODE_49MUX |-> <<49, 7, 7>>,
     VO_MODE_64MUX |-> <<64, 8, 8>>, VO_MODE_2X4   |-> <<8, 2, 4>>]

Even(x) == x - (x % 2)                    \* OT_ALIGN_DOWN(x, 2)

\* Slip: the rows are counted with the number of rows.
GetChnAttr_DivByRow(mode, width, height, chn) ==
    LET col == WndInfo[mode][2]
        row == WndInfo[mode][3]
    IN [x |-> Even((width \div col) * (chn % col)), y |-> Even((height \div row) * (chn \div row)),
        width |-> Even(width \div col), height |-> Even(height \div row)]

GetChnAttr(mode, width, height, chn) ==
    LET col == WndInfo[mode][2]
        row == WndInfo[mode][3]
    IN [x |-> Even((width \div col) * (chn % col)), y |-> Even((height \div row) * (chn \div col)),
        width |-> Even(width \div col), height |-> Even(height \div row)]

StartChn(mode, width, height) ==
    [chn \in 0..(WndInfo[mode][1] - 1) |-> GetChnAttr(mode, width, height, chn)]

Layers == [what : {"windows"}, mode : DOMAIN WndInfo, width : {16, 30, 33, 64, 101}, height : {16, 27, 50}]

-----------------------------------------------------------------------------
CONSTANTS
    ThreshSize,          \* 2^16: what a threshold, an unsigned short, is taken modulo
    MaxArea              \* bound on the areas tried

Above(area, thr) == {i \in DOMAIN area : area[i] > thr}

\* Slip: the same step again from where the search began.
NextThresh_NoStep(thr, area_thr_step) == area_thr_step % ThreshSize

\* One round of the loop: on and on in steps, past the greatest threshold to
\* the least.
NextThresh(thr, area_thr_step) == (thr + area_thr_step) % ThreshSize

Blobs ==
    [what : {"blobs"}, area : UNION {[1..n -> 1..MaxArea] : n \in 0..3}, rect_max_num : 0..2,
     area_thr_step : 0..(ThreshSize - 1), cur_area_threshold : {0, 1, ThreshSize + 1}]

-----------------------------------------------------------------------------
CONSTANTS
    TargetSize,          \* target_size, the side of the square
    MaxStride            \* MAX_STRIDE

\* The square needs no padding, as 640 is a multiple of 32.
ASSUME SquareAssumption == TargetSize \in Nat \ {0} /\ MaxStride \in Nat \ {0} /\ TargetSize % MaxStride = 0

\* A point of the picture in the square: resized until the longer side fits,
\* written row behind row with nothing between them.
Convert(pic) ==
    LET side == Max({pic.width, pic.height})
        w    == (pic.width * TargetSize) \div side
        at   == ((pic.y * TargetSize) \div side) * w + (pic.x * TargetSize) \div side
    IN [x |-> at % TargetSize, y |-> at \div TargetSize, wpad |-> (MaxStride - (w % MaxStride)) % MaxStride]

Clip(v, size) == Max({0, Min({v, size - 1})})

\* Both coordinates are moved by half of wpad, then scaled and clipped.
Restore(pic, found) ==
    LET back(v) == ((v - found.wpad \div 2) * Max({pic.width, pic.height})) \div TargetSize
    IN [x |-> Clip(back(found.x), pic.width), y |-> Clip(back(found.y), pic.height)]

Points ==
    {p \in [what : {"picture"}, width : {3, 8, 13, 16, 20, 33}, height : {3, 8, 13, 16, 20, 33},
            x : {0, 2, 7, 12, 19, 32}, y : {0, 2, 7, 12, 19, 32}] : p.x < p.width /\ p.y < p.height}
-----------------------------------------------------------------------------
(* What must hold of the answers.                                          *)

\* The windows of a layer lie on it, on even places, and none over another.
WindowsFit(layer, wnd) ==
    /\ \A c \in DOMAIN wnd : /\ wnd[c].x + wnd[c].width <= layer.width
                             /\ wnd[c].y + wnd[c].height <= layer.height
                             /\ wnd[c].x % 2 = 0 /\ wnd[c].y % 2 = 0
    /\ \A c, d \in DOMAIN wnd :
          c # d => \/ wnd[c].x + wnd[c].width <= wnd[d].x \/ wnd[d].x + wnd[d].width <= wnd[c].x
                   \/ wnd[c].y + wnd[c].height <= wnd[d].y \/ wnd[d].y + wnd[d].height <= wnd[c].y

\* A place in a picture that is not higher than wide comes back from the square
\* to where it is, as near as the scale allows.  One in a higher picture does
\* not: its rows, shorter than the square's, run together, and it comes back as
\* much too high up as the picture is higher than wide.
BoxReturns(pic, found) ==
    LET near == pic.width \div TargetSize + 1
    IN IF pic.width >= pic.height
       THEN pic.x - found.x \in 0..near /\ pic.y - found.y \in 0..near
       ELSE found.y <= (pic.y * pic.width) \div pic.height + near
=============================================================================
