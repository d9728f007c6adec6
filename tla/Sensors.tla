------------------------------ MODULE Sensors ------------------------------
(***************************************************************************)
(* What is set of the way from a sensor to its pipes: the receiver, the    *)
(* device, the group that fuses exposures, the pipes, their channels and   *)
(* the ISP (sample_comm_vi.c, sample_comm_isp.c), for one, two and four    *)
(* sensors, and the memory and the mode they run with (sample_vio.c).      *)
(***************************************************************************)
EXTENDS Buffers, Screens

SnsTypes ==
    {"os08a20", "os08a20_wdr2to1", "os04a10", "os08b10", "os08b10_wdr2to1", "os05a10", "imx347", "imx485", "imx485_wdr3to1"}

\* A size, and the lines of black above the picture.
Size(w, h) == [width |-> w, height |-> h]
GetSize(sns) ==
    CASE sns \in {"os04a10", "os05a10"} -> Size(2688, 1520) [] sns = "imx347" -> Size(2592, 1520) [] OTHER -> Size(3840, 2160)
GetObHeight(sns) ==
    CASE sns \in {"os08a20", "os08a20_wdr2to1"} -> 24 [] sns \in {"imx347", "imx485"} -> 20 [] OTHER -> 0
GetPipeNum(sns) == CASE sns \in {"os08a20_wdr2to1", "os08b10_wdr2to1"} -> 2 [] sns = "imx485_wdr3to1" -> 3 [] OTHER -> 1
GetWdrMode(sns) ==
    CASE sns \in {"os08a20_wdr2to1", "os08b10_wdr2to1"} -> "2to1" [] sns = "imx485_wdr3to1" -> "3to1" [] OTHER -> "none"
GetSnsObj(sns) ==
    CASE sns \in {"os08a20", "os08a20_wdr2to1"} -> "g_sns_os08a20_obj" [] sns = "os04a10" -> "g_sns_os04a10_obj"
      [] sns \in {"os08b10", "os08b10_wdr2to1"} -> "g_sns_os08b10_obj" [] sns = "os05a10" -> "g_sns_os05a10_2l_slave_obj"
      [] sns = "imx347" -> "g_sns_imx347_slave_obj" [] OTHER -> "g_sns_imx485_obj"

-----------------------------------------------------------------------------
(* The receiver: eight lanes, one sensor's or shared by up to four.        *)

Rx(devno, size, y, bits, lanes) ==
    [devno |-> devno, width |-> size.width, height |-> size.height, y |-> y, bits |-> bits, vc |-> FALSE, lanes |-> lanes, rate |-> 1]
Uhd  == Size(3840, 2160)
FourM == Size(2688, 1520)

\* Of the sensor alone; OS08B10 and OS08A20 send exposures in channels.
ComboAttr ==
    [os08a20 |-> Rx(0, Uhd, 0, 12, 0..3), os08a20_wdr2to1 |-> [Rx(0, Uhd, 0, 12, 0..3) EXCEPT !.vc = TRUE],
     os08b10 |-> Rx(0, Uhd, 0, 12, 0..3), os08b10_wdr2to1 |-> [Rx(0, Uhd, 0, 12, 0..3) EXCEPT !.vc = TRUE],
     os04a10 |-> Rx(0, FourM, 0, 12, 0..3), os05a10 |-> Rx(0, FourM, 0, 12, {0, 1}),
     imx347  |-> Rx(0, Size(2592, 1520), 0, 12, 0..3), imx485 |-> Rx(0, Uhd, 0, 12, 0..3),
     imx485_wdr3to1 |-> [Rx(0, Uhd, 0, 10, 0..7) EXCEPT !.rate = 2]]

\* Of a sensor beside others, by the device.
SharedAttr ==
    [os08a20 |-> [d \in {0, 2} |-> Rx(d, Uhd, 0, 12, (2 * d)..(2 * d + 3))],
     os08b10 |-> [d \in {0, 2} |-> Rx(d, Uhd, 0, 12, (2 * d)..(2 * d + 3))],
     os04a10 |-> [d \in {0, 2} |-> Rx(d, FourM, 0, 12, (2 * d)..(2 * d + 3))],
     imx347  |-> [d \in {0, 2} |-> Rx(d, Size(2592, 1520), d, 12, (2 * d)..(2 * d + 3))],
     imx485  |-> [d \in {0, 2} |-> Rx(d, Uhd, 0, 12, (2 * d)..(2 * d + 3))]]
Os05a10Attr == [d \in 0..3 |-> Rx(d, FourM, 0, 12, <<{0, 2}, {1, 3}, {4, 6}, {5, 7}>>[d + 1])]

\* With the lines of black in the frame.
GetMipiAttr(sns) == [ComboAttr[sns] EXCEPT !.height = @ + GetObHeight(sns)]

Os05a10MipiAttr(dev, old) == IF dev \in DOMAIN Os05a10Attr THEN Os05a10Attr[dev] ELSE old

\* A device the sensor has no attributes for keeps what was there, with the
\* lines of black once more; a type that is not known is taken for OS08A20,
\* without them.
GetMipiAttrByDevId(sns, dev, old) ==
    LET shared == IF dev \in DOMAIN SharedAttr[sns] THEN SharedAttr[sns][dev] ELSE old
        attr   == IF sns = "os05a10" THEN Os05a10MipiAttr(dev, old) ELSE shared
    IN IF sns \notin DOMAIN SharedAttr \cup {"os05a10"} THEN ComboAttr.os08a20
       ELSE [attr EXCEPT !.height = @ + GetObHeight(sns)]

\* What else may come in on the lanes, always said to have twelve bits.
GetMipiExtDataAttr(sns) ==
    [devno |-> 0, bits |-> <<12, 12, 12>>,
     type |-> IF sns \in {"os08a20", "os04a10", "imx485", "imx347"} THEN <<55, 44, 44>> ELSE <<44, 44, 44>>]

DefaultMipiInfo(sns) ==
    [mipi_dev |-> 0, divide_mode |-> 0, combo_dev_attr |-> GetMipiAttr(sns), ext |-> GetMipiExtDataAttr(sns)]
MipiInfoByDevId(sns, dev, old) ==
    [mipi_dev |-> dev, divide_mode |-> 1, combo_dev_attr |-> GetMipiAttrByDevId(sns, dev, old.combo_dev_attr),
     ext |-> [GetMipiExtDataAttr(sns) EXCEPT !.devno = dev]]

-----------------------------------------------------------------------------
(* The device, the group, the pipes and the ISP.                           *)

DefaultSnsInfo(sns) == [sns_type |-> sns, sns_clk_src |-> 0, sns_rst_src |-> 0, bus_id |-> 2]

\* The table's size is overwritten.
DefaultDevInfo(sns) ==
    [vi_dev |-> 0, width |-> GetSize(sns).width, height |-> GetSize(sns).height + GetObHeight(sns),
     rate |-> IF sns = "imx485_wdr3to1" THEN 2 ELSE 1]

FirstPipes(sns) == [i \in 1..GetPipeNum(sns) |-> i - 1]
DefaultGrpInfo(sns) ==
    [fusion_grp |-> 0, wdr_mode |-> GetWdrMode(sns), cache_line |-> GetSize(sns).height, pipe_id |-> FirstPipes(sns)]

\* Slip: the window begins with the lines of black.
GetPubAttr_FromTheTop(sns) ==
    [y |-> 0, size |-> GetSize(sns), sns_size |-> GetSize(sns), frame_rate |-> 30, wdr_mode |-> GetWdrMode(sns),
     bayer |-> IF sns \in {"os08a20", "os08a20_wdr2to1", "os05a10"} THEN "bggr" ELSE "rggb",
     crop_en |-> FALSE, crop |-> Size(GetSize(sns).width, GetSize(sns).height + GetObHeight(sns))]

\* The window of the ISP lies below the lines of black; the crop of the
\* receiver, which is four lines too low for OS08A20, is not used.
PubAttr(sns) ==
    LET size == GetSize(sns)
        crop == IF GetSnsObj(sns) = "g_sns_os08a20_obj" THEN 20 ELSE GetObHeight(sns)
    IN [y |-> GetObHeight(sns), size |-> size, sns_size |-> size, frame_rate |-> 30, wdr_mode |-> GetWdrMode(sns),
        bayer |-> IF sns \in {"os08a20", "os08a20_wdr2to1", "os05a10"} THEN "bggr" ELSE "rggb",
        crop_en |-> FALSE, crop |-> Size(size.width, size.height + crop)]
GetPubAttr(sns) == PubAttr(IF sns \in SnsTypes THEN sns ELSE "os08a20")

InitPipeInfo(sns, size) ==
    [size |-> size, bits |-> IF sns = "imx485_wdr3to1" THEN 10 ELSE 12,
     compress_mode |-> IF sns = "imx485_wdr3to1" THEN "none" ELSE "line",
     pub_attr |-> GetPubAttr(sns),
     chn |-> [size |-> size, format |-> "420", bit_width |-> 8, compress_mode |-> "none"]]
DefaultPipeInfo(sns) == InitPipeInfo(sns, GetSize(sns))

InitViCfg(sns, size) ==
    [sns |-> DefaultSnsInfo(sns), mipi |-> DefaultMipiInfo(sns), dev |-> DefaultDevInfo(sns), bind |-> FirstPipes(sns),
     grp |-> DefaultGrpInfo(sns), pipe |-> InitPipeInfo(sns, size)]
DefaultViCfg(sns) ==
    [sns |-> DefaultSnsInfo(sns), mipi |-> DefaultMipiInfo(sns), dev |-> DefaultDevInfo(sns), bind |-> FirstPipes(sns),
     grp |-> DefaultGrpInfo(sns), pipe |-> DefaultPipeInfo(sns)]

-----------------------------------------------------------------------------
(* The routes of sample_vio.c.                                             *)

TwoSensorViCfg(sns) ==
    LET cfg == DefaultViCfg(sns)
    IN <<[cfg EXCEPT !.mipi.divide_mode = 1],
         [cfg EXCEPT !.sns.bus_id = 5, !.sns.sns_clk_src = 1, !.sns.sns_rst_src = 1,
                     !.mipi = MipiInfoByDevId(sns, 2, @), !.dev.vi_dev = 2, !.bind[1] = 1,
                     !.grp.fusion_grp = 1, !.grp.pipe_id[1] = 1]>>

FourSensorViCfg(sns) ==
    LET cfg(d) == [DefaultViCfg(sns) EXCEPT
            !.mipi = [MipiInfoByDevId(sns, d, @) EXCEPT !.divide_mode = 3], !.dev.vi_dev = d, !.bind[1] = d,
            !.grp.fusion_grp = d, !.grp.pipe_id[1] = d,
            !.sns.sns_clk_src = d, !.sns.sns_rst_src = d, !.sns.bus_id = <<2, 3, 5, 4>>[d + 1]]
    IN [i \in 1..4 |-> cfg(i - 1)]

\* What a route with another mode or size runs after the first.
WdrType(sns) == CASE sns = "os08a20" -> "os08a20_wdr2to1" [] sns = "imx485" -> "imx485_wdr3to1" [] OTHER -> sns
SwitchedType(sns) == IF sns = "os08a20" THEN "os08a20_wdr2to1" ELSE "os08a20"
SwitchedSize == Size(1920, 1080)

ViCfgs(route, sns) ==
    CASE route = "two" -> TwoSensorViCfg(sns) [] route = "four" -> FourSensorViCfg(sns)
      [] route \in {"wdr", "send"} -> <<DefaultViCfg(WdrType(sns))>> [] route = "mode" -> <<DefaultViCfg(SwitchedType(sns))>>
      [] route = "resolution" -> <<InitViCfg(sns, SwitchedSize)>> [] OTHER -> <<DefaultViCfg(sns)>>

\* The key pressed, or "eof" when there is none to come.
ModeByChar(ch) ==
    [vi      |-> IF ch \in {"2", "3", "6", "7"} THEN "offline" ELSE "online",
     vpss    |-> IF ch \in {"1", "3", "5", "7"} THEN "offline" ELSE "online",
     advanced |-> ch \in {"4", "5", "6", "7"}]
RawCntByChar(ch, is_wdr) ==
    CASE ch \in {"0", "1"} -> 0 [] ch \in {"2", "3"} -> (IF is_wdr THEN 8 ELSE 5) [] ch \in {"4", "5"} -> 5 [] OTHER -> 8
YuvRouteCnt == 10

\* The keys that are taken.
Keys(is_wdr) == {"0", "1", "2", "3", "eof"} \cup (IF is_wdr THEN {} ELSE {"4", "5", "6", "7"})

\* A pool of pictures, and one of frames of the sensor.
DefaultVbConfig(size, advanced, yuv_cnt, raw_cnt) ==
    LET attr == [width |-> size.width, height |-> size.height, align |-> DefaultAlign, bit_width |-> 8,
                 format |-> "420", compress_mode |-> "seg"]
    IN <<[blk_size |-> GetPicBufCfg(attr).vb_size, blk_cnt |-> yuv_cnt],
         [blk_size |-> GetPicBufCfg([attr EXCEPT !.format = "raw", !.bit_width = 12,
                                                 !.compress_mode = IF advanced THEN "none" ELSE "line"]).vb_size,
          blk_cnt |-> raw_cnt]>>

\* The two views a fish-eye picture is unrolled into, a third of it each.
FisheyeViews(size) ==
    LET h == ((size.height \div 3) \div 2) * 2
    IN <<[x |-> 0, y |-> 0, width |-> size.width, height |-> h], [x |-> 0, y |-> h, width |-> size.width, height |-> h]>>

\* The routes that ask for no key: how VI and VPSS work, and the blocks.
Fixed ==
    LET way(vi, vpss, yuv, raw) == [vi |-> vi, vpss |-> vpss, yuv |-> yuv, raw |-> raw]
    IN [send |-> way("offline", "offline", YuvRouteCnt, 8), fpn |-> way("offline", "offline", YuvRouteCnt, 8),
        ldc |-> way("online", "offline", YuvRouteCnt, 5), fisheye |-> way("online", "offline", 30, 0),
        lowdelay |-> way("offline", "offline", YuvRouteCnt, 5), userpic |-> way("offline", "offline", YuvRouteCnt, 5),
        two |-> way("offline", "offline", 15, 8), four |-> way("offline", "online", 30, 15)]

\* A window for each group of VPSS, and one for what the detector sees.
Groups(route) == CASE route \in {"two", "fisheye"} -> 2 [] route = "four" -> 4 [] OTHER -> 1
VoMode(route) == IF Groups(route) > 1 THEN "VO_MODE_4MUX" ELSE "VO_MODE_2MUX"

Route(route, sns, ch) ==
    LET fixed  == route \in DOMAIN Fixed
        is_wdr == route \in {"wdr", "mode", "resolution"}
        mode == IF fixed THEN [vi |-> Fixed[route].vi, vpss |-> Fixed[route].vpss, advanced |-> FALSE] ELSE ModeByChar(ch)
        size == IF route = "resolution" THEN SwitchedSize ELSE GetSize(IF route = "mode" THEN SwitchedType(sns) ELSE sns)
        yuv == IF fixed THEN Fixed[route].yuv ELSE YuvRouteCnt
        raw == IF fixed THEN Fixed[route].raw ELSE RawCntByChar(ch, is_wdr)
    IN [cfgs |-> ViCfgs(route, sns), mode |-> mode, vo_mode |-> VoMode(route),
        venc |-> GetPicEnum(<<size.width, size.height>>),
        views |-> IF route = "fisheye" THEN FisheyeViews(GetSize(sns)) ELSE <<>>,
        pools |-> DefaultVbConfig(GetSize(sns), mode.advanced, yuv, raw)]

\* The views of a fish-eye picture lie in it, one below the other, on even
\* lines.
ViewsFit(sns, views) ==
    \A i \in DOMAIN views :
       /\ views[i].y + views[i].height <= GetSize(sns).height /\ views[i].y % 2 = 0
       /\ i > 1 => views[i - 1].y + views[i - 1].height <= views[i].y
=============================================================================
