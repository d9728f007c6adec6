------------------------------- MODULE Feeds -------------------------------
(***************************************************************************)
(* What is fed to the hardware by hand: a stream, cut into pictures, in    *)
(* time to a decoder; the attributes of its channel and the pools that the *)
(* channels share (sample_comm_vdec.c); the frame that corrects a sensor's *)
(* fixed pattern, kept in a file; and a picture shown instead of a         *)
(* sensor's (sample_comm_vi.c).                                            *)
(***************************************************************************)
EXTENDS Buffers, Sequences, FiniteSets, FiniteSetsExt, TLC

CONSTANTS
    MaxCommonPools,          \* OT_VB_MAX_COMMON_POOLS
    MinBufSize,              \* min_buf_size, the bytes read at a time
    Beat, MaxLate, MaxSent   \* VDEC_SECOND / fps; bounds on what a picture is late and on the pictures

\* Times are unsigned numbers.
ASSUME TimesAssumption == Beat \in Nat /\ MaxLate \in Nat

-----------------------------------------------------------------------------
(* Pools.  A channel has a type, a picture size, and numbers of buffers.   *)

\* Buffers of the same type and size are the same; motion is kept for H.265,
\* and for H.264 if it has B pictures.
CalVbSize(chn) ==
    [pic |-> <<"pic", chn.type, chn.size>>,
     tmv |-> IF chn.type \in {"h265", "h264_ipb"} THEN <<"tmv", chn.type, chn.size>> ELSE <<>>]

\* Each size gets a pool that all its channels share, in the order in which
\* the channels first ask for one: from the first-th pool on, as far as they
\* go.
Pools(size, count, first) ==
    LET asks    == {i \in DOMAIN size : size[i] # <<>> /\ \A k \in 1..(i - 1) : size[k] # size[i]}
        pool(i) == first + Cardinality({k \in asks : k < i})
        used    == {pool(i) : i \in asks} \cap (first..(MaxCommonPools - 1))
        of      == [j \in used |-> size[CHOOSE i \in asks : pool(i) = j]]
    IN [j \in used |-> [blk_size |-> of[j],
                        blk_cnt  |-> MapThenSumSet(LAMBDA i : count[i], {i \in DOMAIN size : size[i] = of[j]})]]

\* Pools of pictures, then of motion; the first is counted even if it is not
\* there.
ConfigVbPool(chns) ==
    LET pic  == [i \in DOMAIN chns |-> CalVbSize(chns[i]).pic]
        tmv  == [i \in DOMAIN chns |-> CalVbSize(chns[i]).tmv]
        pics == Pools(pic, [i \in DOMAIN chns |-> chns[i].frame_buf_cnt], 0)
        pos  == Max(DOMAIN pics \cup {0})
        tmvs == Pools(tmv, [i \in DOMAIN chns |-> chns[i].ref_frame_num + 1], pos + 1)
    IN [common_pool |-> [j \in DOMAIN pics \cup DOMAIN tmvs |-> IF j \in DOMAIN tmvs THEN tmvs[j] ELSE pics[j]],
        max_pool_cnt |-> Max(DOMAIN tmvs \cup {pos}) + 1]

-----------------------------------------------------------------------------
(* Cutting.  A stream is of a kind, has a length, and positions where      *)
(* something begins: pictures; pictures and what may come before one       *)
(* ("ends"); in JPEG also segments to skip, with their length, and end     *)
(* marks.  "used" bytes have been sent, "n" more have been read.           *)

\* The bytes from a start code to the one behind it.
CodeLength(kind) == CASE kind = "h264" -> 8 [] kind = "h265" -> 6 [] kind = "mpeg4" -> 4

\* Up to the next beginning after the first picture, or all that was read.
\* What comes closer to the end than a start code is not looked at.
CutH26x(stream, used, n) ==
    LET code  == CodeLength(stream.kind)
        seen(marks, from) == {i \in from..(n - code - 1) : used + i \in marks}
        start == seen(stream.pics, 0)
        past  == IF start # {} THEN Min(start) + code ELSE Max({0, n - code})
        end   == seen(stream.ends, past)
    IN [start |-> 0, len |-> IF end # {} THEN Min(end) ELSE Max({past, n - code}) + code]

\* Slip: what is in the segments is searched for the end mark.
CutJpeg_NoSkip(stream, used, n) ==
    LET soi   == {i \in 0..(n - 2) : used + i \in stream.pics}
        start == IF soi # {} THEN Min(soi) ELSE 0
        data  == IF soi # {} THEN start + 2 ELSE Max({0, n - 1})
        eoi   == {i \in data..(n - 2) : used + i \in stream.ends}
    IN [start |-> start, len |-> (IF eoi # {} THEN Min(eoi) ELSE Max({data, n - 1})) + 2]

\* From the start mark; the segments behind it are skipped, whatever is in
\* them, and the first end mark counts.  The length is that from the first
\* byte read, not from the start mark.
CutJpeg(stream, used, n) ==
    LET soi   == {i \in 0..(n - 2) : used + i \in stream.pics}
        start == IF soi # {} THEN Min(soi) ELSE 0
        skip[i \in Nat] ==
            IF i < n - 3 /\ used + i \in DOMAIN stream.segments THEN skip[i + 2 + stream.segments[used + i]] ELSE i
        data  == skip[IF soi # {} THEN start + 2 ELSE Max({0, n - 1})]
        eoi   == {i \in data..(n - 2) : used + i \in stream.ends}
    IN [start |-> start, len |-> (IF eoi # {} THEN Min(eoi) ELSE Max({data, n - 1})) + 2]

CutFrame(stream, used, n, mode) ==
    IF mode = "stream" THEN [start |-> 0, len |-> n]
    ELSE IF stream.kind = "jpeg" THEN CutJpeg(stream, used, n)
    ELSE CutH26x(stream, used, n)

-----------------------------------------------------------------------------
(* Pacing.  A beat is the time of a picture; the gap is what the last one  *)
(* was late, at most a beat, and the next one may be that much early.      *)

NotSent == [sent |-> 0, elapsed |-> 0, gap |-> 0]

\* Time goes on until it is found that the picture is due.
Due(pace, wait) == pace.sent = 0 \/ wait >= Beat - pace.gap

HandleSendStream(pace, wait) ==
    IF pace.sent = 0 THEN [pace EXCEPT !.sent = 1]
    ELSE [sent |-> pace.sent + 1, elapsed |-> pace.elapsed + wait,
          gap  |-> IF wait < Beat THEN 0 ELSE IF wait - Beat > Beat THEN Beat ELSE wait - Beat]

\* No picture runs ahead of the beat, whatever was late before; and the wait
\* for the next one, an unsigned number, is none.
KeepsPace(pace) == pace.sent > 0 => /\ pace.gap \in 0..Beat
                                    /\ pace.elapsed - pace.gap >= (pace.sent - 1) * Beat

-----------------------------------------------------------------------------
(* The channel of a decoder and the blocks of its pool.                    *)

DecoderCalls ==
    [what : {"decoder"}, type : {"h264", "h265", "jpeg", "mjpeg", "mpeg4"}, mode : {"stream", "frame"},
     width : {64, 65, 1920, 8193}, height : {16, 33, 1088}, frame_buf_cnt : {6}, bit_width : {8, 10},
     format : {"420", "422"}, dec_mode : {"ip", "ipb"}, ref_frame_num : {2}]

\* The video types are in 4:2:0; motion JPEG is made of JPEG's pictures.
PicAttr(s)  == [width |-> s.width, height |-> s.height, bit_width |-> IF s.type \in {"h264", "h265"} THEN s.bit_width ELSE 8,
                format |-> IF s.type \in {"h264", "h265"} THEN "420" ELSE s.format]
BufType(s)  == IF s.type = "mjpeg" THEN "jpeg" ELSE s.type
HasMotion(s) == s.type = "h265" \/ (s.type = "h264" /\ s.dec_mode = "ipb")

VbSize(s) ==
    [pic |-> VdecPicBufSize(BufType(s), PicAttr(s)),
     tmv |-> IF HasMotion(s) THEN VdecTmvBufSize(s.type, s.width, s.height) ELSE 0]

\* Of an MPEG-4 channel the size of a picture, and the motion, are left as
\* they lie on the stack.
Unset == -1
ConfigAttr(s) ==
    [type |-> s.type, mode |-> IF s.type \in {"jpeg", "mjpeg"} THEN "frame" ELSE s.mode,
     pic_width |-> s.width, pic_height |-> s.height, stream_buf_size |-> s.width * s.height,
     frame_buf_cnt |-> s.frame_buf_cnt,
     frame_buf_size |-> IF s.type = "mpeg4" THEN Unset ELSE VdecPicBufSize(BufType(s), PicAttr(s)),
     ref_frame_num |-> IF s.type \in {"h264", "h265"} THEN s.ref_frame_num ELSE Unset,
     temporal_mvp_en |-> IF s.type \in {"h264", "h265"} THEN (IF HasMotion(s) THEN 1 ELSE 0) ELSE Unset]

\* The channel's pictures, as many as it holds, are no larger than the blocks
\* of its pool, and it uses motion only if there is a pool for it, of a block
\* for each reference and one more.
DecoderFits(s, out) ==
    s.type # "mpeg4" =>
       /\ out.attr.frame_buf_size <= out.vb.pic
       /\ out.attr.temporal_mvp_en = 1 /\ out.vb.pic > 0 => out.vb.tmv > 0
       /\ out.vb.tmv > 0 => out.attr.temporal_mvp_en = 1
       /\ s.type \in {"jpeg", "mjpeg"} => out.attr.mode = "frame"

-----------------------------------------------------------------------------
(* The frame of a fixed pattern in a file.  The file is words of four      *)
(* bytes, each with its sort: those of the frame, an offset of each part   *)
(* the sensor is split into, the compression, the size and the gain.       *)

SplitNodeNum == 3          \* OT_VI_MAX_SPLIT_NODE_NUM
FpnSizes == {<<16, 1>>, <<16, 2>>, <<40, 2>>}
FpnModes == {"none", "line"}
FpnCalls ==
    [what : {"fpn"}, saved_size : FpnSizes, saved_mode : FpnModes, iso : {100, 200}, size : FpnSizes, bits : {12, 16},
     mode : FpnModes, scene : {0, 100, 200}]

\* The words of the block a frame is put in.
BlkSize(size, bits, mode) ==
    GetPicBufCfg([width |-> size[1], height |-> size[2], align |-> DefaultAlign, bit_width |-> bits, format |-> "raw",
                  compress_mode |-> mode]).vb_size \div 4

\* A frame is calibrated with sixteen bits.
CalibrateBits == 16
ModeNumber(mode) == IF mode = "none" THEN 0 ELSE 1
Saved(c) == [frm_size |-> BlkSize(c.saved_size, CalibrateBits, c.saved_mode), offset |-> [i \in 1..SplitNodeNum |-> 10 * i],
             compress_mode |-> ModeNumber(c.saved_mode), iso |-> c.iso]

\* The name tells the size, the bits and, in a directory of scenes, the gain.
FpnFileName(size, bits) == <<size, bits>>
FpnFileNameIso(size, bits, iso) == <<size, bits, iso>>

SaveFpnFile(info) ==
    [k \in 1..info.frm_size |-> <<"raw", k>>] \o [i \in 1..SplitNodeNum |-> <<"offset", info.offset[i]>>]
    \o <<<<"mode", info.compress_mode>>, <<"size", info.frm_size>>, <<"iso", info.iso>>>>

\* What is behind the end of the file leaves its field as it was.
Word(file, k) == IF k \in DOMAIN file THEN file[k] ELSE <<"unset", 0>>

\* The frame is as long as the reader's own block.
ReadFpnFile(file, blk_size) ==
    [frame |-> [k \in 1..blk_size |-> Word(file, k)], offset |-> [i \in 1..SplitNodeNum |-> Word(file, blk_size + i)],
     compress_mode |-> Word(file, blk_size + SplitNodeNum + 1), frm_size |-> Word(file, blk_size + SplitNodeNum + 2),
     iso |-> Word(file, blk_size + SplitNodeNum + 3)]

\* A correction for a scene has gain, offsets and compression of its own.
CorrectionAttr(c) ==
    LET blk_size == BlkSize(c.size, c.bits, c.mode)
        name(size, bits, iso) == IF c.scene = 0 THEN FpnFileName(size, bits) ELSE FpnFileNameIso(size, bits, iso)
        info     == ReadFpnFile(SaveFpnFile(Saved(c)), blk_size)
    IN [found |-> name(c.size, c.bits, c.scene) = name(c.saved_size, CalibrateBits, c.iso), blk_size |-> blk_size,
        info |-> IF c.scene = 0 THEN info
                 ELSE [info EXCEPT !.iso = <<"iso", c.scene>>, !.compress_mode = <<"mode", ModeNumber(c.mode)>>,
                          !.offset = [i \in 1..SplitNodeNum |-> <<"offset", 0>>]]]

\* What was calibrated in the same mode comes back as it was: the whole frame,
\* its size and its gain, and what says how to read it.
FpnReturns(c, out) ==
    out.found /\ c.mode = c.saved_mode =>
       LET saved == Saved(c)
       IN /\ out.info.frame = [k \in 1..saved.frm_size |-> <<"raw", k>>]
          /\ out.info.frm_size = <<"size", out.blk_size>>
          /\ out.info.iso = <<"iso", saved.iso>> /\ out.info.compress_mode = <<"mode", saved.compress_mode>>
          /\ c.scene = 0 => out.info.offset = [i \in 1..SplitNodeNum |-> <<"offset", saved.offset[i]>>]

-----------------------------------------------------------------------------
(* A picture of three planes in a file, put into a frame of two.  Cells    *)
(* and bytes of the file are numbered from 0.                              *)

\* The caller's frame is in lines and in 4:2:0; tiles hold 4:2:0 only.
UserCalls == {c \in [what : {"user_pic"}, size : (1..9) \X (1..4), format : {"400", "420", "422"}, linear : BOOLEAN] :
                 c.linear \/ c.format = "420"}
Zero == -1                 \* what the line read into was cleared to

\* The frame's block: the luma's lines, then those of the chroma.
GetUserPicFrameInfo(c) ==
    LET cfg == GetPicBufCfg([width |-> c.size[1], height |-> c.size[2], align |-> DefaultAlign, bit_width |-> 8,
                             format |-> c.format, compress_mode |-> "none"])
    IN [width |-> c.size[1], height |-> c.size[2], stride |-> cfg.main_stride, format |-> c.format, linear |-> c.linear,
        chroma |-> cfg.main_y_size, size |-> cfg.vb_size]

\* U comes first in the file, V in each pair of cells; behind the width goes
\* what the line was cleared to.
ConvertChromaPlanarToSp42x(frame, from, chroma_width, chroma_height) ==
    [x \in frame.chroma..(frame.chroma + chroma_height * frame.stride - 1) |->
        LET row == (x - frame.chroma) \div frame.stride
            col == ((x - frame.chroma) % frame.stride) \div 2
        IN IF col >= chroma_width THEN Zero
           ELSE from + row * chroma_width + col + (IF x % 2 = 1 THEN 0 ELSE chroma_width * chroma_height)]

\* What is in tiles is taken as it is.
ReadFileToSp42x(frame) ==
    LET luma == {row * frame.stride + col : row \in 0..(frame.height - 1), col \in 0..(frame.width - 1)}
        chroma_height == IF frame.format = "420" THEN frame.height \div 2 ELSE frame.height
    IN IF ~frame.linear THEN [x \in 0..((frame.stride * frame.height * 3) \div 2 - 1) |-> x]
       ELSE [x \in luma |-> (x \div frame.stride) * frame.width + (x % frame.stride)]
            @@ (IF frame.format = "400" THEN <<>>
                ELSE ConvertChromaPlanarToSp42x(frame, frame.width * frame.height, frame.width \div 2, chroma_height))

\* Every byte of the file goes to one cell of the block; beside each sample of
\* V is that of U of the same place, and where they are counted from their
\* line and column is the pixel they colour.
UserPicPlaced(c, out) ==
    LET frame  == out.frame
        cells  == out.cells
        kept   == {x \in DOMAIN cells : cells[x] # Zero}
        wide   == frame.width \div 2
        plane  == wide * (IF c.format = "420" THEN frame.height \div 2 ELSE frame.height)
        all    == frame.width * frame.height
    IN /\ \A x \in DOMAIN cells : x \in 0..(frame.size - 1)
       /\ c.linear =>
          /\ {cells[x] : x \in kept} = 0..(all + (IF c.format = "400" THEN 0 ELSE 2 * plane) - 1)
          /\ Cardinality(kept) = Cardinality({cells[x] : x \in kept})
          /\ \A y \in {x \in kept : cells[x] >= all /\ x % 2 = 1} :
                LET row == (y - frame.chroma) \div frame.stride
                    pixel == cells[(IF c.format = "420" THEN 2 * row ELSE row) * frame.stride
                                   + ((y - 1 - frame.chroma) % frame.stride)]
                IN /\ cells[y - 1] = cells[y] + plane
                   /\ (cells[y] - all) % wide = (pixel % frame.width) \div 2
                   /\ (cells[y] - all) \div wide = (pixel \div frame.width) \div (IF c.format = "420" THEN 2 ELSE 1)
=============================================================================
