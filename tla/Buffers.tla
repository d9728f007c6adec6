------------------------------ MODULE Buffers ------------------------------
(***************************************************************************)
(* ot_buffer.h: how large the block of memory is that a picture, a map or  *)
(* what a coder keeps of a picture is put into.  A format is known by its  *)
(* planes; that of a sensor ("raw") by the bits of its pixels, too.        *)
(***************************************************************************)
EXTENDS Integers

AlignUp(x, a) == ((x + a - 1) \div a) * a
DivUp(x, a)   == (x + a - 1) \div a
Larger(x, y)  == IF x > y THEN x ELSE y

MaxiNumLimit == 30000
DefaultAlign == 32
MaxAlign     == 1024
BlockLimits  == [h264 |-> 8192, h265 |-> 8192, mpeg4 |-> 4096, jpeg |-> 16384]

\* The code counts in words of 32 bits.  A picture of no more than 8192 x 4096
\* pixels is counted without wrapping (Buffers_proofs).
MaxPixels == 33554432
Counted(width, height) == width * height <= MaxPixels

-----------------------------------------------------------------------------
(* Pictures.                                                               *)

NoBlock == [vb_size |-> 0, head_stride |-> 0, head_size |-> 0, head_y_size |-> 0,
            main_stride |-> 0, main_size |-> 0, main_y_size |-> 0]

TooLarge(width, height) == width > MaxiNumLimit \/ height > MaxiNumLimit

\* A multiple of the least, no more than the most.
Alignment(align) ==
    IF align = 0 THEN DefaultAlign ELSE IF align > MaxAlign THEN MaxAlign ELSE AlignUp(align, DefaultAlign)

\* All the planes, in halves of the first.
Halves(format) ==
    CASE format = "420" -> 3 [] format = "422" -> 4 [] format = "400" -> 2 [] format = "package_422" -> 2 [] OTHER -> 6

CompressNone(attr, bits) ==
    LET rows == AlignUp(attr.height, 2)
        line == AlignUp((attr.width * bits + 7) \div 8, attr.align)
        main == IF attr.format = "package_422" THEN 2 * line ELSE line
        size == (main * rows * Halves(attr.format)) \div 2
    IN [NoBlock EXCEPT !.vb_size = size, !.main_stride = main, !.main_size = size, !.main_y_size = line * rows]

\* Packed 4:2:2 counts as three planes when it is compressed.
Samples(format) == IF format = "package_422" THEN 6 ELSE Halves(format)

\* How luma is compressed, in thousandths; chroma to a half.
Luma(user) == IF user \in {"vi", "vpss"} THEN 1300 ELSE 1600

\* The rows of a picture of 8 bits, each compressed by a fixed ratio.
CompactPic(attr, user, head_stride) ==
    LET rows   == AlignUp(attr.height, 2)
        c_rows == CASE attr.format = "420" -> rows \div 2 [] attr.format = "422" -> rows
                    [] attr.format = "400" -> 0 [] OTHER -> 2 * rows
        bits   == AlignUp(attr.width * 8, 128)
        y_size == AlignUp((bits * rows * 125) \div Luma(user), DefaultAlign)
        c_size == AlignUp((bits * c_rows * 125) \div 2000, DefaultAlign)
    IN [NoBlock EXCEPT !.head_stride = head_stride, !.main_stride = bits \div 8,
           !.head_y_size = head_stride * rows, !.head_size = head_stride * (rows + c_rows),
           !.main_y_size = y_size, !.main_size = y_size + c_size]

\* A head for each row, and the row as it is.
CompactNone(attr, head_stride) ==
    LET rows == AlignUp(attr.height, 2)
        line == AlignUp(attr.width, attr.align)
        all(stride) == (stride * rows * Samples(attr.format)) \div 2
    IN [NoBlock EXCEPT !.head_stride = head_stride, !.main_stride = line,
           !.head_y_size = head_stride * rows, !.head_size = all(head_stride),
           !.main_y_size = line * rows, !.main_size = all(line)]

\* More bits than eight leave the block empty.
CompressPic(attr, user, bits) ==
    LET compact     == attr.compress_mode = "compact"
        head_stride == IF compact THEN 32 ELSE IF attr.width <= 4096 THEN 16 ELSE IF attr.width <= 8192 THEN 32 ELSE 64
        cfg == IF bits # 8 THEN [NoBlock EXCEPT !.head_stride = head_stride]
               ELSE IF compact /\ attr.width > 256 THEN CompactPic(attr, user, head_stride)
               ELSE CompactNone(attr, head_stride)
        head == AlignUp(cfg.head_size, attr.align)
    IN [cfg EXCEPT !.head_size = head, !.vb_size = head + cfg.main_size]

\* A frame of the sensor: a line, or the frame as a whole, may be compressed.
RawBuf(attr, bits, ratio) ==
    LET w == attr.width
        h == attr.height
        stride == CASE attr.compress_mode = "none" -> AlignUp(AlignUp(w * bits, 8) \div 8, attr.align)
                    [] attr.compress_mode = "line" ->
                         AlignUp(16 * AlignUp((16 + (w * bits * 1000) \div 1538 + 8192 + 127) \div 128, 2), attr.align)
                    [] OTHER -> 0
        small == (((h * w * bits * 3) \div 2 + ((w + 31) \div 32) * h + 255) \div 256) * 2 * 16
        large == (h * w * bits * 1000) \div ((IF ratio = 0 THEN 2000 ELSE ratio) * 8)
        size  == IF attr.compress_mode = "frame"
                 THEN AlignUp(IF DivUp(w, 32) * h <= 4096 THEN small ELSE large, attr.align)
                 ELSE stride * h
    IN [NoBlock EXCEPT !.vb_size = size, !.main_stride = stride, !.main_size = size, !.main_y_size = size]

ViRawBuf(attr, bits) == RawBuf(attr, bits, 0)

\* As it is asked for by the input, by VPSS, or by anyone.
GetPicBufCfg(asked) ==
    LET attr == [asked EXCEPT !.align = Alignment(@)]
    IN IF TooLarge(attr.width, attr.height) THEN NoBlock
       ELSE IF attr.format = "raw" THEN ViRawBuf(attr, attr.bit_width)
       ELSE IF attr.compress_mode = "none" THEN CompressNone(attr, attr.bit_width)
       ELSE CompressPic(attr, "common", attr.bit_width)

ViCompactSegBuf(asked) ==
    LET attr == [asked EXCEPT !.align = Alignment(@)]
    IN IF TooLarge(attr.width, attr.height) THEN NoBlock
       ELSE IF attr.format = "raw" THEN ViRawBuf(attr, attr.bit_width)
       ELSE IF attr.compress_mode = "none" THEN CompressNone(attr, attr.bit_width)
       ELSE CompressPic(attr, "vi", attr.bit_width)

\* VPSS is given no frame of a sensor; it would count as one of three planes.
VpssCompactSegBuf(asked) ==
    LET attr == [asked EXCEPT !.align = Alignment(@)]
    IN IF TooLarge(attr.width, attr.height) THEN NoBlock
       ELSE IF attr.compress_mode = "none" THEN CompressNone(attr, attr.bit_width)
       ELSE CompressPic(attr, "vpss", attr.bit_width)

\* Noise reduction looks some pixels over the edges; the worse of two.
HnrWidth(size)  == AlignUp(size + 6, 32) + 2
HnrHeight(size) == AlignUp(size + 7, 32) + 3
HnrVbSize(width, height, mode) ==
    GetPicBufCfg([width |-> HnrWidth(width), height |-> HnrHeight(height), align |-> 0, bit_width |-> 12,
                  format |-> "raw", compress_mode |-> mode]).vb_size + 4
HnrPicBufSize(width, height) ==
    IF TooLarge(width, height) THEN 0
    ELSE Larger(HnrVbSize(width, height, "none"), HnrVbSize(width, height, "line"))

-----------------------------------------------------------------------------
(* What decoders keep.                                                     *)

CheckPicSize(type, width, height) == width <= BlockLimits[type] /\ height <= BlockLimits[type]

VdecPicBufSize(type, attr) ==
    LET w      == AlignUp(attr.width, 64)
        h      == AlignUp(attr.height, IF type = "h265" THEN 64 ELSE 16)
        header == (AlignUp(w, IF attr.width <= 8192 THEN 2048 ELSE 8192) \div 64) * (h \div 4)
        extra  == IF type = "h265" /\ attr.bit_width = 10
                  THEN AlignUp((w * 2) \div 8, 16) * AlignUp(h, 32) ELSE 0
    IN IF ~CheckPicSize(type, attr.width, attr.height) THEN 0
       ELSE IF type = "jpeg" THEN IF attr.format = "422" THEN w * h * 2 ELSE (w * h * 3) \div 2
       ELSE ((header + w * h + extra) * 3) \div 2

\* The motion of a picture, in blocks of 16 x 16.
VdecTmvBufSize(type, width, height) ==
    LET blocks(unit) == (AlignUp(width, unit) \div 16) * (AlignUp(height, unit) \div 16)
    IN IF ~CheckPicSize(type, width, height) \/ type = "jpeg" THEN 0
       ELSE IF type = "h265" THEN AlignUp(16 * blocks(64), 128) ELSE AlignUp(64 * blocks(16), 128)

-----------------------------------------------------------------------------
(* What encoders keep.  H.264 looks at blocks of 16, H.265 of 32.          *)

VencCheck(type, attr) ==
    /\ type \in {"h264", "h265"} /\ attr.frame_buf_ratio \in 70..100 /\ attr.bit_width = 8
    /\ attr.width <= BlockLimits[type] /\ attr.height <= BlockLimits[type]

HeaderStride(width) == IF width <= 2048 THEN 1 ELSE IF width <= 4096 THEN 2 ELSE IF width <= 6144 THEN 3 ELSE 4

\* With shared buffers there are two heads, rows more, and the motion search.
PicSize(attr, header, more, pme) ==
    LET y_header == header * HeaderStride(attr.width)
        rows     == IF attr.share_buf_en THEN more ELSE 0
        part(h)  == AlignUp((attr.width * h * attr.frame_buf_ratio) \div 100, 256)
        pictures == part(attr.height + rows) + part(attr.height \div 2 + rows \div 2)
    IN IF attr.share_buf_en THEN 2 * (y_header + y_header \div 2) + pictures + pme
       ELSE y_header + y_header \div 2 + pictures

VencH264PicBufSize(attr) ==
    PicSize(attr, 128 * DivUp(attr.height, 16), ((16 * 4 + 16 + 16 + 15) \div 16) * 16,
            DivUp(attr.width, 64) * DivUp(attr.height, 16) * 64 + AlignUp(attr.width, 64))
VencH265PicBufSize(attr) ==
    PicSize(attr, 256 * DivUp(attr.height, 32), ((20 * 4 + 16 + 32 + 15) \div 16) * 16,
            DivUp(attr.width, 32) * DivUp(attr.height, 32) * 64 + 2 * AlignUp(attr.width, 32))

VencPicBufSize(type, attr) ==
    IF ~VencCheck(type, attr) THEN 0
    ELSE IF type = "h264" THEN VencH264PicBufSize(attr) ELSE VencH265PicBufSize(attr)

\* With shared buffers the motion search is in the picture's.
VencPicInfoBufSize(type, attr) ==
    LET w == attr.width
        h == attr.height
        pme  == IF type = "h264" THEN DivUp(w, 64) * DivUp(h, 16) * 64 ELSE DivUp(w, 32) * DivUp(h, 32) * 64
        info == IF type = "h264" THEN (AlignUp(w, 1024) \div 16) * DivUp(h, 16) * 2
                ELSE (AlignUp(w, 512) \div 32) * DivUp(h, 32) * 2
        tmv  == IF type = "h264" THEN 0 ELSE ((DivUp(w, 32) * DivUp(h, 32) + 1) \div 2) * 2 * 16
    IN IF type \notin {"h264", "h265"} THEN 0
       ELSE IF ~CheckPicSize(type, w, h) THEN 0
       ELSE IF attr.share_buf_en THEN tmv + info ELSE tmv + pme + info

-----------------------------------------------------------------------------
(* Maps of a picture: a byte, a nibble, two bits or a bit for each block.  *)

QpmapStride(width) == IF width > MaxiNumLimit THEN 0 ELSE AlignUp(width, 256) \div 16
QpmapSize(type, width, height) ==
    IF TooLarge(width, height) THEN 0
    ELSE QpmapStride(width) * (CASE type = "h265" -> AlignUp(height, 32) \div 16
                                 [] type = "h264" -> AlignUp(height, 16) \div 16 [] OTHER -> 0)

SkipWeightStride(type, width) ==
    IF width > MaxiNumLimit THEN 0
    ELSE CASE type = "h265" -> AlignUp(width, 1024) \div 64 [] type = "h264" -> AlignUp(width, 512) \div 32 [] OTHER -> 0
SkipWeightSize(type, width, height) ==
    IF TooLarge(width, height) THEN 0
    ELSE SkipWeightStride(type, width) * (CASE type = "h265" -> DivUp(height, 32) [] type = "h264" -> DivUp(height, 16)
                                            [] OTHER -> 0)

RoimapStride(type, width) == IF width > MaxiNumLimit \/ type # "jpeg" THEN 0 ELSE AlignUp(width, 1024) \div 64
RoimapSize(type, width, height) ==
    IF TooLarge(width, height) \/ type # "jpeg" THEN 0 ELSE RoimapStride(type, width) * DivUp(height, 16)

MosaicBlocks == {4, 8, 16, 32, 64, 128}
MosaicMapStride(width, blk) ==
    IF width > BlockLimits.h265 \/ blk \notin MosaicBlocks THEN 0 ELSE AlignUp(DivUp(width, blk), 128) \div 8

\* Slip: a last row of parts of blocks is left out.
MosaicMapSize_WholeRows(width, height, blk) ==
    IF height > BlockLimits.h265 \/ blk \notin MosaicBlocks THEN 0 ELSE MosaicMapStride(width, blk) * (height \div blk)

MosaicMapSize(width, height, blk) ==
    IF height > BlockLimits.h265 \/ blk \notin MosaicBlocks THEN 0 ELSE MosaicMapStride(width, blk) * DivUp(height, blk)

AvsBufSize(width, height)      == AlignUp(width, 128) * 2 * AlignUp(height, 64)
McfColorBufSize(width, height) == (AlignUp(width, DefaultAlign) * height * 59) \div 32
McfMonoBufSize(width, height)  ==
    ((AlignUp(width, DefaultAlign) + (IF width > 4096 THEN 64 ELSE 0)) * height * 43) \div 32

-----------------------------------------------------------------------------
(* What is asked, and what must hold of the answer.                        *)

\* By the entry the caller uses; all that a coder, and all that an encoder,
\* keeps of a picture; all that lies beside one.
Block(c) == CASE c.user = "common" -> GetPicBufCfg(c) [] c.user = "vi" -> ViCompactSegBuf(c) [] OTHER -> VpssCompactSegBuf(c)
CoderBlocks(c) ==
    [vdec |-> VdecPicBufSize(c.type, c), tmv |-> VdecTmvBufSize(c.type, c.width, c.height),
     pic |-> VencPicBufSize(c.type, c), info |-> VencPicInfoBufSize(c.type, c)]
Maps(c) ==
    [qpmap |-> QpmapSize(c.type, c.width, c.height), skip_weight |-> SkipWeightSize(c.type, c.width, c.height),
     roimap |-> RoimapSize(c.type, c.width, c.height), mosaic |-> MosaicMapSize(c.width, c.height, c.blk),
     hnr |-> HnrPicBufSize(c.width, c.height), avs |-> AvsBufSize(c.width, c.height),
     color |-> McfColorBufSize(c.width, c.height), mono |-> McfMonoBufSize(c.width, c.height)]

\* What a block holds of what is compressed: of a sensor's frame, a line or the
\* whole, the share its way of compressing is meant to leave; of a picture of
\* eight bits every sample, but of compact rows of more than 256 pixels the
\* shares of luma and chroma.
HoldsShare(c, block) ==
    LET pixels == c.width * c.height
    IN /\ c.format = "raw" /\ c.compress_mode = "line" => 8 * 1538 * block.main_stride >= 1000 * c.width * c.bit_width
       /\ c.format = "raw" /\ c.compress_mode = "frame" =>
             IF DivUp(c.width, 32) * c.height <= 4096 THEN 16 * block.main_size >= 3 * pixels * c.bit_width
             ELSE 16 * (block.main_size + 1) > pixels * c.bit_width
       /\ c.format # "raw" =>
             IF c.compress_mode = "compact" /\ c.width > 256
             THEN /\ Luma(c.user) * (block.main_y_size + 1) > 1000 * pixels
                  /\ 4 * (block.main_size - block.main_y_size + 1) > pixels * (Samples(c.format) - 2)
             ELSE 2 * block.main_size >= pixels * Samples(c.format)

\* The block of a picture that is not compressed has room for its lines, in all
\* planes; that of a compressed one for what is left of it, and none if it is of
\* more than eight bits.  The parts fill the block, and a picture that is larger
\* by a row or a column has no smaller one, unless it is the first to be
\* compressed by a ratio.
Ratio(c) == \/ c.compress_mode = "compact" /\ c.width = 256
            \/ c.compress_mode = "frame" /\ DivUp(c.width, 32) * c.height <= 4096
Bits(c) == IF c.format = "package_422" THEN 2 * c.bit_width ELSE c.bit_width
BlockFits(c, block) ==
    IF TooLarge(c.width, c.height) THEN block = NoBlock
    ELSE Counted(c.width, c.height) =>
         /\ c.compress_mode = "none" =>
               /\ 8 * block.main_stride >= c.width * Bits(c) /\ block.main_stride % DefaultAlign = 0
               /\ 16 * block.vb_size >= c.width * c.height * Bits(c) * (IF c.format = "raw" THEN 2 ELSE Halves(c.format))
         /\ c.compress_mode # "none" /\ (c.format = "raw" \/ c.bit_width = 8) => HoldsShare(c, block)
         /\ block.vb_size > 0 <=> (c.bit_width = 8 \/ c.compress_mode = "none" \/ c.format = "raw")
         /\ block.main_y_size <= block.main_size /\ block.head_y_size <= block.head_size
         /\ block.head_size + block.main_size = block.vb_size
         /\ ~Ratio(c) /\ c.height < MaxiNumLimit => block.vb_size <= Block([c EXCEPT !.height = @ + 1]).vb_size
         /\ ~Ratio(c) /\ c.width < MaxiNumLimit => block.vb_size <= Block([c EXCEPT !.width = @ + 1]).vb_size

\* A decoder's picture has room for all planes; an encoder's for the part it
\* is told to keep, and sharing buffers moves what it keeps of the search, and
\* costs.
CoderFits(c, kept) ==
    LET all   == c.width * c.height * (IF c.type = "jpeg" /\ c.format = "422" THEN 4 ELSE 3)
        alone == CoderBlocks([c EXCEPT !.share_buf_en = FALSE])
    IN /\ kept.vdec > 0 <=> CheckPicSize(c.type, c.width, c.height)
       /\ kept.vdec > 0 => 2 * kept.vdec >= all
       /\ kept.vdec > 0 /\ c.type = "h265" => 2 * 8 * kept.vdec >= all * c.bit_width
       /\ kept.tmv > 0 => 256 * kept.tmv >= 16 * c.width * c.height
       /\ kept.pic > 0 /\ Counted(c.width, c.height) =>
             /\ c.height % 2 = 0 => 2 * kept.pic * 100 >= 3 * c.width * c.height * c.frame_buf_ratio
             /\ kept.pic >= alone.pic /\ kept.info <= alone.info /\ kept.pic + kept.info >= alone.pic + alone.info

\* Every block of the picture has its place in a map; but noise reduction is
\* left with four bytes if what it looks at beyond the edges is too large.
MapsFit(c, maps) ==
    LET blocks(unit) == DivUp(c.width, unit) * DivUp(c.height, unit)
    IN ~TooLarge(c.width, c.height) =>
       /\ c.type = "h264" => maps.qpmap >= blocks(16) /\ 2 * maps.skip_weight >= blocks(16)
       /\ c.type = "h265" => maps.qpmap >= blocks(16) /\ 2 * maps.skip_weight >= blocks(32)
       /\ c.type = "jpeg" => 4 * maps.roimap >= blocks(16) /\ maps.qpmap = 0
       /\ c.blk \in MosaicBlocks /\ c.width <= BlockLimits.h265 /\ c.height <= BlockLimits.h265 =>
             8 * maps.mosaic >= blocks(c.blk)
       /\ IF TooLarge(HnrWidth(c.width), HnrHeight(c.height)) THEN maps.hnr = 4
          ELSE 8 * maps.hnr >= 12 * (c.width + 6) * (c.height + 7)
       /\ maps.avs >= 2 * c.width * c.height
       /\ Counted(c.width, c.height) => 32 * maps.color >= 59 * c.width * c.height - 32 /\ maps.mono <= maps.color
=============================================================================
