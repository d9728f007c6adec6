------------------------------- MODULE Pixels -------------------------------
(***************************************************************************)
(* Pictures and streams byte by byte: the map of an encoder's regions of   *)
(* interest, planes brought together, the thumbnail found in a JPEG, the   *)
(* ring a stream is saved from (sample_comm_venc.c); colours, and what     *)
(* share of a picture the objects cover (yolov5.cpp).                      *)
(***************************************************************************)
EXTENDS Integers, Sequences, FiniteSets, FiniteSetsExt

BlockSize     == 16
OneByteBlocks == 4

\* The blocks written, a byte and a place in it: up to the end of a byte, whole
\* bytes, and the rest, in each row of blocks.
JpegRoiHead(byte, idx, fill) == {<<byte, idx + k>> : k \in 0..(fill - 1)}
JpegRoiMiddle(byte, bytes)   == (byte..(byte + bytes - 1)) \X (0..(OneByteBlocks - 1))
JpegRoiTail(byte, fill)      == {byte} \X (0..(fill - 1))

ProcessJpegRoi(rect, stride) ==
    LET start  == rect.x \div BlockSize
        blocks == rect.width \div BlockSize
        supple == Min({(OneByteBlocks - (start % OneByteBlocks)) % OneByteBlocks, blocks})
        bytes  == (blocks - supple) \div OneByteBlocks
        row(i) == (rect.y \div BlockSize + i) * stride + start \div OneByteBlocks
        next(i) == row(i) + (IF supple = 0 THEN 0 ELSE 1)
    IN UNION {JpegRoiHead(row(i), start % OneByteBlocks, supple)
              \cup JpegRoiMiddle(next(i), bytes)
              \cup JpegRoiTail(next(i) + bytes, (blocks - supple) % OneByteBlocks) :
                 i \in 0..(rect.height \div BlockSize - 1)}

\* Two planes of "size" samples become pairs of V and U, first in the memory
\* of U, then in that of V.
PlanToSemi(size) ==
    LET half == size \div 2
        pairs(from) == [n \in 0..(2 * half - 1) |-> <<IF n % 2 = 0 THEN "v" ELSE "u", from + (n \div 2)>>]
    IN [u |-> pairs(0), v |-> pairs(half)]

-----------------------------------------------------------------------------
CONSTANT TempBufLen                       \* TEMP_BUF_LEN

\* One byte more: it is compared with the one before, which is still in the
\* buffer unless it was the last and no FF.  "at" is bufpos, "end" endpos.
Getc(s, file, pos) ==
    LET pair  == IF s.at > 0 THEN <<file[pos - 1], file[pos]>> ELSE <<>>
        begin == pair = <<"FF", "D8">>
        over  == pair = <<"FF", "D9">>
        next  == s.at + 1
        ff    == file[pos] = "FF"
    IN [start |-> IF begin THEN pos - 2 ELSE s.start, begun |-> s.begun \/ begin,
        end   |-> IF over THEN pos ELSE s.end,
        found |-> s.begun /\ over,
        at    |-> CASE next = TempBufLen - 1 /\ ~ff -> 0
                    [] next > TempBufLen - 1 -> IF ff THEN 1 ELSE 0
                    [] OTHER -> next]

\* The search ends with the first end mark behind a start mark.
SetTemBuf(file) ==
    LET read[pos \in 0..Len(file)] ==
            IF pos = 0 THEN [start |-> 0, begun |-> FALSE, end |-> 0, found |-> FALSE, at |-> 0]
            ELSE LET s == read[pos - 1] IN IF s.found THEN s ELSE Getc(s, file, pos)
    IN read[Len(file)]

\* A thumbnail is some of the file, not all of it.
GetThmFromJpg(file) ==
    LET s == SetTemBuf(file)
    IN IF s.end - s.start > 0 /\ s.end - s.start < Len(file) THEN SubSeq(file, s.start + 1, s.end) ELSE <<>>

-----------------------------------------------------------------------------
(* A stream's ring is at "base" and has "size" bytes; a pack begins at     *)
(* "phys" and has "len" bytes, of which the first "offset" are not saved.  *)

\* Pieces of memory, in the order in which they are written.
PhysAddrRetrace(ring, pack) ==
    LET end == ring.base + ring.size
    IN IF pack.phys + pack.offset >= end
       THEN <<<<pack.phys + pack.offset - ring.size, pack.len - pack.offset>>>>
       ELSE <<<<pack.phys + pack.offset, end - pack.phys - pack.offset>>, <<ring.base, pack.len - (end - pack.phys)>>>>

\* A pack at the very beginning is in no ring, and is written as it is.
SaveStreamPhysAddr(ring, pack) ==
    IF pack.phys > ring.base /\ pack.phys <= ring.base + ring.size /\ pack.phys + pack.len >= ring.base + ring.size
    THEN PhysAddrRetrace(ring, pack)
    ELSE <<<<pack.phys + pack.offset, pack.len - pack.offset>>>>

-----------------------------------------------------------------------------
(* Colours: eight pixels at once, or two by two.                           *)

\* Of one pixel, and of the sums of four.
ByEight(b, g, r) ==
    [y |-> (38 * r + 75 * g + 15 * b + 64) \div 128,
     u |-> (128 * 256 + 128 + 127 * b - 84 * g - 43 * r) \div 256,
     v |-> (128 * 256 + 128 + 127 * r - 107 * g - 20 * b) \div 256]

Saturate(x) == Max({0, Min({x, 255})})
ByTwo(b, g, r) ==
    [y |-> Saturate((38 * r + 75 * g + 15 * b + 64) \div 128),
     u |-> Saturate((-43 * r - 84 * g + 127 * b + 128) \div 256 + 128),
     v |-> Saturate((127 * r - 107 * g - 20 * b + 128) \div 256 + 128)]

\* Thousandths of the square.  An area is counted as often as objects cover it.
Mapped(sum, total) == Min({200 + (Min({sum, total}) * 650) \div total, 700})
ComputeCovering(objects, total) ==
    Mapped(MapThenSumSet(LAMBDA i : objects[i].area, DOMAIN objects), total)
ComputeWeightedArea(objects, total) ==
    Mapped(MapThenSumSet(LAMBDA i : objects[i].area * objects[i].prob, DOMAIN objects), 1000 * total)

\* The lines of the report: two weighted shares and the plain one.
SaveDetectionResults(objects, total) ==
    [rust |-> 53 * ComputeWeightedArea(objects, total), dust |-> 47 * ComputeWeightedArea(objects, total),
     covering |-> 100 * ComputeCovering(objects, total)]

\* The box of the label lies above the object, unless there is no room.
DrawObjects(c) ==
    [x |-> IF c.x + c.width > c.cols THEN c.cols - c.width ELSE c.x, y |-> Max({0, c.y - c.height})]
-----------------------------------------------------------------------------
(* What is asked, and what must come out.                                  *)

RoiCalls ==
    {c \in [what : {"roi"}, x : {0, 16, 48, 64, 80}, y : {0, 16, 32}, width : {8, 16, 32, 48, 64, 80, 96, 112},
            height : {8, 16, 40, 48}, size : {<<128, 48>>, <<1040, 48>>, <<80, 80>>, <<64, 1600>>}] :
        c.x + c.width <= c.size[1] /\ c.y + c.height <= c.size[2]}

\* Written are the blocks of the rectangle and no others, all in the map, but
\* for a picture higher than wide, whose map is as high as it is wide.
RoiMarked(c, out) ==
    LET xs == (c.x \div BlockSize)..((c.x + c.width) \div BlockSize - 1)
        ys == (c.y \div BlockSize)..((c.y + c.height) \div BlockSize - 1)
    IN /\ out.marks = {<<y * out.stride + (x \div OneByteBlocks), x % OneByteBlocks>> : x \in xs, y \in ys}
       /\ c.size[1] >= c.size[2] => \A m \in out.marks : m[1] < out.size

ThumbCalls(max) == [what : {"thumb"}, file : UNION {[1..n -> {"FF", "D8", "D9", "00"}] : n \in 2..max}]

\* In a file with a start mark the thumbnail is what lies between the first
\* end mark behind one and the last start mark before that, unless it is all
\* there is.
ThumbFound(c, thm) ==
    LET at(mark) == {i \in 1..(Len(c.file) - 1) : c.file[i] = "FF" /\ c.file[i + 1] = mark}
        ends     == {i \in at("D9") : \E j \in at("D8") : j < i}
        start    == Max({i \in at("D8") : i < Min(ends)})
    IN at("D8") # {} =>
          thm = IF ends = {} THEN <<>>
                ELSE IF start = 1 /\ Min(ends) + 1 = Len(c.file) THEN <<>> ELSE SubSeq(c.file, start, Min(ends) + 1)

RingCalls ==
    {c \in [what : {"ring"}, ring : {[base |-> 10, size |-> 6]}, phys : 10..16, len : 1..6, offset : 0..5] : c.offset < c.len}

\* The bytes of the pack behind its offset, in their order round the ring.
RingSaved(c, pieces) ==
    LET bytes(p) == [k \in 1..p[2] |-> p[1] + k - 1]
        saved    == IF Len(pieces) = 1 THEN bytes(pieces[1]) ELSE bytes(pieces[1]) \o bytes(pieces[2])
    IN saved = [k \in 1..(c.len - c.offset) |-> c.ring.base + ((c.phys - c.ring.base + c.offset + k - 1) % c.ring.size)]

PlaneCalls == [what : {"planes"}, size : 0..9]

\* An even number of samples: all are there, V before U, each pair in its turn.
PlanesPaired(c, out) ==
    c.size % 2 = 0 =>
       \A n \in 0..(2 * c.size - 1) :
          (IF n < c.size THEN out.u[n] ELSE out.v[n - c.size]) = <<IF n % 2 = 0 THEN "v" ELSE "u", n \div 2>>

Levels == {0, 1, 2, 3, 64, 127, 128, 200, 254, 255}
ColourCalls == [what : {"colour"}, b : Levels, g : Levels, r : Levels]

\* Eight at once and two by two come to the same colours, and none is cut off.
ColoursAgree(out) == out.eight = out.two /\ \A k \in DOMAIN out.eight : out.eight[k] \in 0..255

ReportCalls ==
    [what : {"report"}, objects : UNION {[1..n -> [area : {0, 10, 35, 60}, prob : {610, 940}]] : n \in 0..3}, total : {100}]

\* The weighted shares together are no more than the plain one, and an object
\* more never makes a share smaller.
ReportFair(c, out) ==
    LET n == Len(c.objects)
        less == SaveDetectionResults(SubSeq(c.objects, 1, n - 1), c.total)
    IN /\ out.rust + out.dust <= out.covering /\ out.covering \in 20000..70000
       /\ n > 0 => \A line \in DOMAIN out : less[line] <= out[line]

LabelCalls == [what : {"label"}, x : {0, 3, 9}, y : {0, 2, 5, 9}, width : {4, 12}, height : {2, 4}, cols : {10, 12}]

\* A label that is not wider than the picture lies in it, and above what it
\* names if there is room.
LabelFits(c, at) ==
    c.width <= c.cols =>
       at.x >= 0 /\ at.x + c.width <= c.cols /\ at.y >= 0 /\ (c.y >= c.height => at.y + c.height = c.y)
=============================================================================
