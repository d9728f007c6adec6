------------------------------ MODULE Screens ------------------------------
(***************************************************************************)
(* The timings of an output and what is made of them: the layer and HDMI's *)
(* format (sample_comm_vo.c), the MIPI transmitter (sample_comm_mipi_tx.c) *)
(* and the sizes of pictures known by name (sample_comm_sys.c).  A timing  *)
(* is its number in ot_vo_intf_sync; a size or a rate is in a tuple.       *)
(***************************************************************************)
EXTENDS Integers, Sequences

User == 48               \* OT_VO_OUT_USER

\* Width, height and pictures a second, in the order of the timings.
SyncInfo == <<
    <<720, 576, 25>>, <<720, 480, 30>>, <<960, 576, 25>>, <<960, 480, 30>>, <<640, 480, 60>>, <<720, 480, 60>>,
    <<720, 576, 50>>, <<800, 600, 60>>, <<1024, 768, 60>>, <<1280, 720, 50>>, <<1280, 720, 60>>, <<1280, 800, 60>>,
    <<1280, 1024, 60>>, <<1366, 768, 60>>, <<1400, 1050, 60>>, <<1440, 900, 60>>, <<1680, 1050, 60>>,
    <<1920, 1080, 24>>, <<1920, 1080, 25>>, <<1920, 1080, 30>>, <<1920, 1080, 25>>, <<1920, 1080, 30>>,
    <<1920, 1080, 50>>, <<1920, 1080, 60>>, <<1600, 1200, 60>>, <<1920, 1200, 60>>, <<1920, 2160, 30>>,
    <<2560, 1440, 30>>, <<2560, 1440, 60>>, <<2560, 1600, 60>>, <<3840, 2160, 24>>, <<3840, 2160, 25>>,
    <<3840, 2160, 30>>, <<3840, 2160, 50>>, <<3840, 2160, 60>>, <<4096, 2160, 24>>, <<4096, 2160, 25>>,
    <<4096, 2160, 30>>, <<4096, 2160, 50>>, <<4096, 2160, 60>>, <<7680, 4320, 30>>, <<240, 320, 50>>, <<320, 240, 50>>,
    <<240, 320, 60>>, <<320, 240, 60>>, <<800, 600, 50>>, <<720, 1280, 60>>, <<1080, 1920, 60>>, <<0, 0, 0>> >>
GetWidthHeight(sync) == SyncInfo[sync + 1]

\* What the name of HDMI's format says, in the same order; an interlaced one
\* has half as many pictures as fields.  The customer's own says nothing.
Customer == <<>>
HdmiSync == <<
    <<720, 576, 25>>, <<720, 480, 30>>, Customer, Customer, <<640, 480, 60>>, <<720, 480, 60>>, <<720, 576, 50>>,
    <<800, 600, 60>>, <<1024, 768, 60>>, <<1280, 720, 50>>, <<1280, 720, 60>>, <<1280, 800, 60>>, <<1280, 1024, 60>>,
    <<1366, 768, 60>>, <<1400, 1050, 60>>, <<1440, 900, 60>>, <<1680, 1050, 60>>, <<1920, 1080, 24>>,
    <<1920, 1080, 25>>, <<1920, 1080, 30>>, <<1920, 1080, 25>>, <<1920, 1080, 30>>, <<1920, 1080, 50>>,
    <<1920, 1080, 60>>, <<1600, 1200, 60>>, <<1920, 1200, 60>>, <<1920, 2160, 30>>, <<2560, 1440, 30>>,
    <<2560, 1440, 60>>, <<2560, 1600, 60>>, <<3840, 2160, 24>>, <<3840, 2160, 25>>, <<3840, 2160, 30>>,
    <<3840, 2160, 50>>, <<3840, 2160, 60>>, <<4096, 2160, 24>>, <<4096, 2160, 25>>, <<4096, 2160, 30>>,
    <<4096, 2160, 50>>, <<4096, 2160, 60>>, <<7680, 4320, 30>>, Customer, Customer, Customer, Customer, Customer,
    Customer, Customer, Customer>>
HdmiConvertSync(sync) == IF sync \in 0..User THEN HdmiSync[sync + 1] ELSE <<1920, 1080, 60>>

\* The timing of the default's own, for both devices: a frame and its blanks.
DevTiming == [hact |-> 1920, htotal |-> 1920 + 192 + 88, vact |-> 1080, vtotal |-> 1080 + 41 + 4]

-----------------------------------------------------------------------------
(* The layer: what differs from the default is taken for a wish.           *)

DefRect == [x |-> 0, y |-> 0, width |-> 1920, height |-> 1080]
DefImage == <<1920, 1080>>

\* With a timing of the user's own the pixels' clock is divided from the
\* crystal's, in kHz.
Crystal   == 24000
UserClock == [fb_div |-> 99, ref_div |-> 2, post_div1 |-> 4, post_div2 |-> 2, pre_div |-> 1, dev_div |-> 1]
PixelClk(info) ==
    (Crystal * info.fb_div) \div (info.ref_div * info.post_div1 * info.post_div2 * info.pre_div * info.dev_div)

DefConfig == [sync |-> 23, disp_rect |-> DefRect, image_size |-> DefImage, timing |-> DevTiming, info |-> UserClock,
              layer |-> 0]

\* A second layer, and what is written back from the screen, by default.
DefLayerConfig == [layer |-> 2, sync |-> 23, disp_rect |-> DefRect, image_size |-> DefImage]
DefWbcAttr     == [src_id |-> 0, target_size |-> <<1920, 1080>>, frame_rate |-> 30, depth |-> -1]

\* A wish for another place is a wish for that size here.
VoLayerAttr(cfg) ==
    LET screen == GetWidthHeight(cfg.sync)
        disp == IF cfg.disp_rect # DefRect THEN <<cfg.disp_rect.width, cfg.disp_rect.height>> ELSE <<screen[1], screen[2]>>
    IN [x |-> 0, y |-> 0, disp |-> disp, image |-> IF cfg.image_size # DefImage THEN cfg.image_size ELSE disp,
        rate |-> IF cfg.sync = User THEN cfg.dev_frame_rate ELSE screen[3]]

\* A second layer knows no rate of the user's own.
LayerLayerAttr(cfg) ==
    LET attr == VoLayerAttr(cfg) IN [attr EXCEPT !.rate = GetWidthHeight(cfg.sync)[3]]

-----------------------------------------------------------------------------
(* The MIPI transmitter.  Blanks, active part and front porch, across and  *)
(* down; the rate of a lane in Mbit/s, and the pixels in kHz.              *)

Tx(hsa, hbp, hact, hfp, vsa, vbp, vact, vfp, phy, clk) ==
    [hact |-> hact, htotal |-> hsa + hbp + hact + hfp, vact |-> vact, vtotal |-> vsa + vbp + vact + vfp,
     phy_data_rate |-> phy, pixel_clk |-> clk, bits |-> 24, lanes |-> 4]
Raw16(tx) == [tx EXCEPT !.bits = 16]

TxTimingHd == <<
    <<6,  Tx(64, 68, 720, 12, 5, 39, 576, 5, 162, 27000)>>,
    <<8,  Tx(136, 160, 1024, 24, 6, 29, 768, 3, 390, 65000)>>,
    <<9,  Tx(40, 220, 1280, 440, 5, 20, 720, 5, 446, 74250)>>,
    <<10, Tx(40, 220, 1280, 110, 5, 20, 720, 5, 446, 74250)>>,
    <<12, Tx(112, 248, 1280, 48, 3, 38, 1024, 1, 648, 108000)>>,
    <<17, Tx(44, 148, 1920, 638, 5, 36, 1080, 4, 446, 74250)>>,
    <<18, Tx(44, 148, 1920, 528, 5, 36, 1080, 4, 446, 74250)>>,
    <<19, Tx(44, 148, 1920, 88, 5, 36, 1080, 4, 446, 74250)>>,
    <<22, Tx(44, 148, 1920, 528, 5, 36, 1080, 4, 891, 148500)>>,
    <<23, Tx(44, 148, 1920, 88, 5, 36, 1080, 4, 891, 148500)>> >>
TxTimingUhd == <<
    <<30, Tx(88, 296, 3840, 1276, 10, 72, 2160, 8, 1782, 297000)>>,
    <<31, Tx(88, 296, 3840, 1056, 10, 72, 2160, 8, 1782, 297000)>>,
    <<32, Tx(88, 296, 3840, 176, 10, 72, 2160, 8, 1782, 297000)>>,
    <<33, Raw16(Tx(88, 296, 3840, 1056, 10, 72, 2160, 8, 2259, 594000))>>,
    <<34, Raw16(Tx(88, 296, 3840, 176, 10, 72, 2160, 8, 2259, 594000))>>,
    <<46, Tx(24, 99, 720, 99, 4, 20, 1280, 8, 459, 74250)>>,
    <<47, Tx(8, 20, 1080, 130, 10, 26, 1920, 16, 891, 148500)>> >>
TxTiming == TxTimingHd \o TxTimingUhd

\* The user's own timing is what the caller has filled in; no configuration is
\* an error, and so is a rate of nothing.
TxNone == [none |-> TRUE]
TxGetConfig(sync, own) ==
    IF sync > User THEN TxNone
    ELSE IF sync = User THEN (IF own.phy_data_rate = 0 THEN TxNone ELSE own)
    ELSE LET rows == SelectSeq(TxTiming, LAMBDA row : row[1] = sync)
         IN IF rows = <<>> THEN TxNone ELSE Head(rows)[2]

-----------------------------------------------------------------------------
(* Sizes by name, in the order of ot_pic_size.                             *)

PicSizes == <<
    <<352, 288>>, <<640, 360>>, <<720, 576>>, <<720, 480>>, <<960, 576>>, <<1280, 720>>, <<1920, 1080>>, <<720, 480>>,
    <<720, 576>>, <<800, 600>>, <<1024, 768>>, <<1280, 1024>>, <<1366, 768>>, <<1440, 900>>, <<1280, 800>>,
    <<1600, 1200>>, <<1680, 1050>>, <<1920, 1200>>, <<640, 480>>, <<1920, 2160>>, <<2560, 1440>>, <<2560, 1600>>,
    <<2592, 1520>>, <<2592, 1944>>, <<2688, 1520>>, <<3840, 2160>>, <<4096, 2160>>, <<3000, 3000>>, <<4000, 3000>>,
    <<6080, 2800>>, <<7680, 4320>>, <<3840, 8640>> >>
GetPicSize(pic) == PicSizes[pic + 1]

\* The first of that size; 1080P for any other.
GetPicEnum(size) ==
    LET same == {i \in DOMAIN PicSizes : PicSizes[i] = size}
    IN IF same = {} THEN 6 ELSE (CHOOSE i \in same : \A j \in same : i <= j) - 1
=============================================================================
