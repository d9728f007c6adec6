------------------------------ MODULE Regions ------------------------------
(***************************************************************************)
(* sample_comm_region.c: the handles of the regions of each kind and where *)
(* on the picture they are put, and loadbmp.c: how a bitmap comes into the *)
(* memory of a region.  Regions of a kind are counted from 0.              *)
(***************************************************************************)
EXTENDS Integers, FiniteSets

MinHandle ==
    [overlay |-> 0, overlayex |-> 20, cover |-> 40, coverex |-> 60, line |-> 80,
     mosaic |-> 100, mosaicex |-> 120, corner_rectex |-> 140]
MaxHandleNum == 16
Legal(handle_num) == handle_num \in 1..MaxHandleNum

Rect(x, y, side) == [x |-> x, y |-> y, width |-> side, height |-> side]

OverlayChnAttr(i)   == [rect |-> Rect(200 * i + 200, 100 * i, 160), layer |-> i]
OverlayexChnAttr(i) == [rect |-> Rect(200 * i + 200, 100 * i, 160), layer |-> i]

\* The first four are quadrangles, every other one hollow.
Quad(i) ==
    [points |-> <<<<200 * i, 100>>, <<200 * i + 100, 50>>, <<200 * i + 200, 100>>, <<200 * i + 100, 150>>>>,
     solid |-> i % 2 = 1, thick |-> 2 + (i % 15), layer |-> i]
CoverChnAttr(i)   == IF i < 4 THEN Quad(i) ELSE [rect |-> Rect(200 * i + 200, 200, 160), layer |-> i]
CoverexChnAttr(i) == IF i < 4 THEN Quad(i) ELSE [rect |-> Rect(200 * i + 200, 200, 160), layer |-> i]

LineChnAttr(i) ==
    [points |-> <<<<200 + 100 * i, 200 + 200 * i>>, <<50 + 200 * i, 50 + 100 * i>>>>, thick |-> (i + 1) % 8]
MosaicChnAttr(i)   == [rect |-> Rect(200 * i, 200 * i, 200), layer |-> i, blk_size |-> 32]
MosaicexChnAttr(i) == [rect |-> Rect(200 * i, 200 * i, 200), layer |-> i, blk_size |-> <<16, 32, 64>>[(i % 3) + 1]]
CornerRectexChnAttr(i) ==
    [rect |-> Rect(200 * i + 50, 100 * i + 50, 160), layer |-> i, len |-> 16, thick |-> 2,
     type |-> IF i < 4 THEN "corner" ELSE "full_line"]

SetChnAttr(kind, handle_num) ==
    [i \in 0..(handle_num - 1) |->
        CASE kind = "overlay" -> OverlayChnAttr(i) [] kind = "overlayex" -> OverlayexChnAttr(i)
          [] kind = "cover" -> CoverChnAttr(i)     [] kind = "coverex" -> CoverexChnAttr(i)
          [] kind = "line" -> LineChnAttr(i)       [] kind = "mosaic" -> MosaicChnAttr(i)
          [] kind = "mosaicex" -> MosaicexChnAttr(i) [] kind = "corner_rectex" -> CornerRectexChnAttr(i)]

\* Two overlays, or eight in pairs of four formats; other numbers are created
\* in silence as none.
CreateOverlays(handle_num) ==
    [i \in IF handle_num \in {2, 8} THEN 0..(handle_num - 1) ELSE {} |-> <<"clut2", "clut4", "1555", "4444">>[i \div 2 + 1]]
CreateRegions(kind, handle_num) ==
    IF kind = "overlay" THEN CreateOverlays(handle_num) ELSE [i \in 0..(handle_num - 1) |-> "1555"]

\* All from the first handle of the kind on.
Handles(kind, handle_num) == MinHandle[kind]..(MinHandle[kind] + handle_num - 1)

\* The format in which an overlay is given its bitmap.
BitMapFormat(handle) ==
    CASE handle < 2 -> "clut2" [] handle \in 2..3 -> "clut4" [] handle \in 4..5 -> "1555" [] handle \in 6..7 -> "4444"
      [] OTHER -> "none"

-----------------------------------------------------------------------------
(* Bitmaps.  A pixel takes "bits" in the file, whose rows begin at         *)
(* multiples of 4 and come the last one first.  Copying is a set of moves: *)
(* "len" bytes for the pixel in row i, column j, from a byte of the file   *)
(* to a byte of the memory.                                                *)

FileStride(bmp) == ((bmp.width * (bmp.bits \div 8) + 3) \div 4) * 4
IsSupportBmpFile(bmp, bpp_threshold) == bmp.bits \div 8 >= bpp_threshold

CopyRows(bmp, stride, step, len) ==
    [p \in (0..(bmp.height - 1)) \X (0..(bmp.width - 1)) |->
        [to |-> p[1] * stride + p[2] * step, len |-> len,
         from |-> (bmp.height - 1 - p[1]) * FileStride(bmp) + p[2] * (bmp.bits \div 8)]]

\* Whole pixels of two or four bytes are copied as they are; three bytes
\* become two, or four with an alpha.
CopyBmpData(bmp, fmt, stride) ==
    LET bpp == bmp.bits \div 8
        dst == IF fmt = "8888" THEN 4 ELSE 2
    IN IF bpp = 3 THEN CopyRows(bmp, stride, dst, dst) ELSE CopyRows(bmp, stride, bpp, bpp)

\* Into memory of the region's own, made by its caller: 1555 also for what is
\* to be a clut.
LogoStride(bmp, fmt) == bmp.width * (IF fmt = "8888" THEN 4 ELSE 2)
LoadBmpEx(bmp, fmt) ==
    [room |-> bmp.width * (bmp.bits \div 8) * bmp.height, moves |-> CopyBmpData(bmp, fmt, LogoStride(bmp, fmt))]

\* The bytes looked at for the colour that is made transparent: two of each
\* pixel, row behind row.
FilBmp(width, height) == {2 * k : k \in 0..(width * height - 1)}

\* Into the canvas.
LoadBmpCanvas(bmp, fmt, canvas) ==
    [room |-> canvas.stride * canvas.height, moves |-> CopyBmpData(bmp, fmt, canvas.stride)]

\* A whole image with the stride its caller asks for, or its own.
LoadBmp(bmp, stride) ==
    LET dst == IF bmp.bits \div 8 > 2 THEN 4 ELSE 2
        own == IF stride = 0 THEN bmp.width * dst ELSE stride
    IN [room |-> own * bmp.height, moves |-> IF IsSupportBmpFile(bmp, 2) THEN CopyRows(bmp, own, dst, dst) ELSE <<>>]

\* Four pixels in a byte; of two pixels, the second is taken twice.
Clut2Data(width, height) == [n \in 0..(height * (width \div 4) - 1) |-> [k \in 0..3 |-> 4 * n + k]]
Clut4Data(width, height) == [n \in 0..(height * (width \div 2) - 1) |-> [k \in 0..1 |-> 2 * n + 1]]
ClutData(bmp) ==
    CASE bmp.fmt = "clut2" -> Clut2Data(bmp.width, bmp.height) [] bmp.fmt = "clut4" -> Clut4Data(bmp.width, bmp.height)
      [] OTHER -> <<>>
Grey(r, g, b, levels) == (b * 28 + g * 58 + r * 14) \div (IF levels = 4 THEN 800 ELSE 200)

\* The bytes of a pixel in two, from the lengths of the components: alpha,
\* all ones, and three colours.
CompInfo ==
    [rgb444 |-> <<0, 4, 4, 4>>, argb4444 |-> <<4, 4, 4, 4>>, rgb555 |-> <<0, 5, 5, 5>>, rgb565 |-> <<0, 5, 6, 5>>,
     argb1555 |-> <<1, 5, 5, 5>>]
MakeColor(first, second, third, lens) ==
    LET part(c, len) == c \div 2 ^ (8 - len)
    IN part(first, lens[2]) + part(second, lens[3]) * 2 ^ lens[4] + part(third, lens[4]) * 2 ^ (lens[4] + lens[3])
       + (2 ^ 16 - 2 ^ (16 - lens[1]))
-----------------------------------------------------------------------------
(* What is asked, and what must come out.                                  *)

RegionCalls == [what : {"regions"}, kind : DOMAIN MinHandle, handle_num : 0..(MaxHandleNum + 1)]

Overlap(a, b) ==
    a.x < b.x + b.width /\ b.x < a.x + a.width /\ a.y < b.y + b.height /\ b.y < a.y + a.height

\* No two kinds share a handle; the regions of a kind lie on the picture, in
\* layers of their own and beside each other; a line that can be drawn is at
\* least one wide, which the eighth and the sixteenth are not, and a hollow
\* quadrangle is as thick as the hardware takes it; two or eight overlays are
\* made in the formats in which they are given bitmaps.
RegionsFit(c, out) ==
    LET attr == out.attr
    IN IF ~Legal(c.handle_num) THEN attr = <<>>
       ELSE /\ \A kind \in DOMAIN MinHandle \ {c.kind} : out.handles \cap Handles(kind, MaxHandleNum) = {}
            /\ DOMAIN out.created = DOMAIN attr \/ (c.kind = "overlay" /\ c.handle_num \notin {2, 8})
            /\ c.kind = "overlay" => \A i \in DOMAIN out.created : out.created[i] = BitMapFormat(MinHandle.overlay + i)
            /\ \A i \in DOMAIN attr : "rect" \in DOMAIN attr[i] =>
                  /\ attr[i].rect.x + attr[i].rect.width <= 8190 /\ attr[i].rect.y + attr[i].rect.height <= 8190
                  /\ attr[i].rect.x % 2 = 0 /\ attr[i].rect.y % 2 = 0
            /\ \A i, j \in DOMAIN attr : i # j /\ c.kind # "line" =>
                  /\ attr[i].layer # attr[j].layer
                  /\ "rect" \in DOMAIN attr[i] /\ "rect" \in DOMAIN attr[j] => ~Overlap(attr[i].rect, attr[j].rect)
            /\ \A i \in DOMAIN attr : c.kind = "line" /\ i % 8 # 7 => attr[i].thick \in 1..8
            /\ \A i \in DOMAIN attr : "solid" \in DOMAIN attr[i] =>
                  attr[i].solid \/ (attr[i].thick \in 2..16 /\ attr[i].thick % 2 = 0)

BitmapCalls ==
    [what : {"bitmap"}, way : {"map"}, width : {1, 4, 8}, height : 1..3, bits : {8, 16, 24, 32},
     fmt : {"clut2", "clut4", "1555", "4444"}, canvas : {[stride |-> 0, height |-> 0]}]
    \cup [what : {"bitmap"}, way : {"canvas"}, width : {1, 4, 8}, height : 1..3, bits : {16, 24, 32},
          fmt : {"1555", "4444", "8888"}, canvas : {[stride |-> 16, height |-> 2], [stride |-> 32, height |-> 3]}]
    \cup [what : {"bitmap"}, way : {"image"}, width : {1, 4, 8}, height : 1..3, bits : {8, 16, 24, 32},
          fmt : {"any"}, canvas : {[stride |-> 0, height |-> 0], [stride |-> 32, height |-> 3]}]

\* The bytes of a pixel that the format keeps.
Kept(c) ==
    IF c.way = "image" THEN IF c.bits > 16 THEN 4 ELSE 2 ELSE IF c.fmt = "8888" THEN 4 ELSE 2

\* A bitmap of sixteen bits and more that is no larger than its canvas is read
\* from the file's data and written into the memory there is; one of as many
\* bits as the format, or of 24, pixel beside pixel, and in the order of the
\* rows on the screen.
BitmapFits(c, out) ==
    c.bits > 8 /\ (c.canvas.stride > 0 => c.width * Kept(c) <= c.canvas.stride /\ c.height <= c.canvas.height) =>
       LET m == out.moves
           regular == c.bits = 24 \/ c.bits = 8 * Kept(c)
       IN /\ \A p \in DOMAIN m : m[p].from + c.bits \div 8 <= FileStride(c) * c.height
          /\ c.way = "map" \/ regular => \A p \in DOMAIN m : m[p].to + m[p].len <= out.room
          /\ regular /\ c.way = "map" /\ m # <<>> => out.fil = {m[p].to : p \in DOMAIN m}
          /\ regular => \A p, q \in DOMAIN m :
                p # q => /\ m[p].to + m[p].len <= m[q].to \/ m[q].to + m[q].len <= m[p].to
                         /\ p[1] < q[1] => m[p].to < m[q].to /\ m[p].from > m[q].from

\* A clut of a picture whose rows fill whole bytes has every pixel of two bits
\* in its place, and of four bits it or its right neighbour.
ClutKept(c, out) ==
    /\ c.fmt = "clut2" /\ c.width % 4 = 0 => \A n \in DOMAIN out.clut : \A k \in 0..3 : out.clut[n][k] = 4 * n + k
    /\ c.fmt = "clut4" /\ c.width % 2 = 0 =>
          \A n \in DOMAIN out.clut : \A k \in 0..1 : out.clut[n][k] - (2 * n + k) \in {0, 1}
    /\ \A r, g, b \in {0, 15, 31} : Grey(r, g, b, 4) \in 0..3 /\ Grey(r, g, b, 16) \in 0..15

\* No component runs into the next.
ColourPacked(c, packed) ==
    \A f \in DOMAIN CompInfo :
       LET lens == CompInfo[f]
           value == packed[f] - (2 ^ 16 - 2 ^ (16 - lens[1]))
       IN /\ value % 2 ^ lens[4] = c.b \div 2 ^ (8 - lens[4])
          /\ (value \div 2 ^ lens[4]) % 2 ^ lens[3] = c.g \div 2 ^ (8 - lens[3])
          /\ value \div 2 ^ (lens[4] + lens[3]) = c.r \div 2 ^ (8 - lens[2])
=============================================================================
