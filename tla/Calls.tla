------------------------------- MODULE Calls -------------------------------
(***************************************************************************)
(* One call of a helper at a time, with what it is asked and what comes    *)
(* out: the attributes of an encoder channel, the opening of an AAC        *)
(* encoder, the pools of the decoders, the windows of an output, the       *)
(* rectangles of the regions found, the way from the sensors to the pipes, *)
(* the thread that cuts a file and sends it, and what is fed by hand.      *)
(***************************************************************************)
EXTENDS EncoderRates, Buffers, Layouts, Sensors, Screens, Regions, Pixels, Mats, Lists, Tensors,
        Feeds

CONSTANTS MaxChannels, MaxParts, MaxFile \* bounds on the decoders, the parts of a stream and the bytes of a file

VARIABLES
    call,       \* what is asked
    phase,      \* "asked", "busy" in a loop, "done"
    out         \* what has come out so far

callVars == <<call, phase, out>>

Decoders ==
    [type : {"h265", "h264_ipb", "h264_ip", "jpeg"}, size : {1, 2}, frame_buf_cnt : {1, 3}, ref_frame_num : {2}]
PoolCalls == [what : {"pools"}, chns : UNION {[1..n -> Decoders] : n \in 1..MaxChannels}]

\* A file is a few parts, each of a sort and a length.  An "exif" picture has
\* a segment with another picture in it.
VideoParts   == {<<"pic", 20>>, <<"pic", 9>>, <<"pic", 60>>, <<"hdr", 10>>, <<"junk", 3>>}
PictureParts == {<<"pic", 20>>, <<"exif", 40>>, <<"pic", 60>>, <<"junk", 3>>}
Segment      == 12

Stream(kind, parts) ==
    LET from[i \in 1..(Len(parts) + 1)] == IF i = 1 THEN 0 ELSE from[i - 1] + parts[i - 1][2]
        at(sorts) == {from[i] : i \in {j \in DOMAIN parts : parts[j][1] \in sorts}}
        pictures  == {<<from[i], from[i + 1]>> : i \in {j \in DOMAIN parts : parts[j][1] \in {"pic", "exif"}}}
    IN [kind |-> kind, len |-> from[Len(parts) + 1], pictures |-> pictures, parts |-> parts,
        pics |-> at({"pic", "exif"}),
        ends |-> IF kind = "jpeg" THEN {p[2] - 2 : p \in pictures} \cup {x + 8 : x \in at({"exif"})}
                 ELSE IF kind = "mpeg4" THEN at({"pic"}) ELSE at({"pic", "hdr"}),
        segments |-> [x \in {y + 2 : y \in at({"exif"})} |-> Segment]]

Streams ==
    {Stream(kind, parts) : kind \in {"h264", "h265", "mpeg4"}, parts \in UNION {[1..n -> VideoParts] : n \in 0..MaxParts}}
    \cup {Stream("jpeg", parts) : parts \in UNION {[1..n -> PictureParts] : n \in 0..MaxParts}}
StreamCalls == [what : {"stream"}, stream : Streams, mode : {"frame", "stream"}, circle_send : BOOLEAN]

\* Sizes on both sides of each step, as far as the numbers go.
PictureSizes ==
    {s \in {63, 64, 256, 257, 2048, 2049, 4096, 4097, 8192, 8193, 29978, 29979, 30000, 30001} \X {1, 15, 16, 17, 32} :
        s[1] * s[2] <= 132000 \/ s[1] > MaxiNumLimit}
PictureBlocks ==
    {[what |-> "block", user |-> u, width |-> s[1], height |-> s[2], align |-> a, bit_width |-> b, format |-> f,
      compress_mode |-> m] : u \in {"common", "vi", "vpss"}, s \in PictureSizes, a \in {0, 100}, b \in {8, 10, 14},
      f \in {"420", "422", "400", "package_422", "444"}, m \in {"none", "seg", "compact"}}
RawBlocks ==
    {[what |-> "block", user |-> u, width |-> s[1], height |-> s[2], align |-> a, bit_width |-> b, format |-> "raw",
      compress_mode |-> m] : u \in {"common", "vi"}, s \in PictureSizes, a \in {0, 2000}, b \in {8, 10, 14},
      m \in {"none", "line", "frame"}}
BlockCalls == PictureBlocks \cup RawBlocks
CoderCalls ==
    {[what |-> "coder", type |-> t, width |-> s[1], height |-> s[2], format |-> f, bit_width |-> b, share_buf_en |-> e,
      frame_buf_ratio |-> r] : t \in {"h264", "h265", "mpeg4", "jpeg"}, s \in PictureSizes, f \in {"420", "422"},
      b \in {8, 10}, e \in BOOLEAN, r \in {69, 70, 99, 100}}
MapCalls ==
    {[what |-> "map", type |-> t, width |-> s[1], height |-> s[2], blk |-> k] :
      t \in {"h264", "h265", "jpeg"}, s \in PictureSizes, k \in {3, 4, 16, 128}}

\* Every sensor the board may be built with.
RouteCalls ==
    {[what |-> "route", route |-> r, sns |-> s, ch |-> c] :
      r \in {"all"}, s \in SnsTypes, c \in Keys(FALSE)}
    \cup {[what |-> "route", route |-> r, sns |-> s, ch |-> c] :
      r \in {"wdr", "mode", "resolution"}, s \in SnsTypes, c \in Keys(TRUE)}
    \cup [what : {"route"}, route : DOMAIN Fixed, sns : SnsTypes, ch : {"none"}]

\* The whole screen, a part of it, and another place; a timing of the user's
\* own that is filled in or not.
ScreenCalls ==
    [what : {"screen"}, sync : 0..User, disp_rect : {DefRect, [DefRect EXCEPT !.width = 1280], [DefRect EXCEPT !.x = 320]},
     image_size : {DefImage, <<640, 360>>}, dev_frame_rate : {50}, own : {TxTiming[1][2], Tx(0, 0, 0, 0, 0, 0, 0, 0, 0, 0)}]
PaceCalls    == [what : {"pace"}]
PictureCalls == [what : {"size"}, size : {GetPicSize(pic) : pic \in 0..31} \cup {<<1920, 1088>>, <<0, 0>>}]

Nothing == [none |-> TRUE]

Init ==
    /\ call \in VencParams \cup AacAttrs \cup PoolCalls \cup Layers \cup Points \cup Blobs \cup StreamCalls
               \cup BlockCalls \cup CoderCalls \cup MapCalls \cup RouteCalls
               \cup ScreenCalls \cup PictureCalls \cup RegionCalls \cup BitmapCalls \cup RoiCalls
               \cup ThumbCalls(MaxFile) \cup RingCalls \cup PlaneCalls \cup ColourCalls \cup ReportCalls \cup LabelCalls
               \cup MatCalls \cup ShareCalls \cup ListCalls \cup TensorCalls
               \cup PaceCalls \cup DecoderCalls \cup FpnCalls \cup UserCalls
    /\ phase = "asked" /\ out = Nothing

Asks(what) == call.what = what /\ phase = "asked"
Answers(answer) == phase' = "done" /\ out' = answer /\ UNCHANGED call

CreateChannel == Asks("venc") /\ Answers(VencCreate(call))
OpenEncoder   == Asks("aac") /\ Answers(CheckAndInit(call))
ConfigPools   == Asks("pools") /\ Answers(ConfigVbPool(call.chns))
FindObject    == Asks("picture") /\ Answers(Restore(call, Convert(call)))
AskBlock      == Asks("block") /\ Answers(Block(call))
AskCoder      == Asks("coder") /\ Answers(CoderBlocks(call))
AskMaps       == Asks("map") /\ Answers(Maps(call))
SetUpRoute    == Asks("route") /\ Answers(Route(call.route, call.sns, call.ch))
SetUpScreen   == Asks("screen") /\ Answers([layer |-> VoLayerAttr(call), second |-> LayerLayerAttr(call),
                                              hdmi |-> HdmiConvertSync(call.sync), tx |-> TxGetConfig(call.sync, call.own),
                                              def |-> DefConfig, def_layer |-> DefLayerConfig, wbc |-> DefWbcAttr])
NamePicture   == Asks("size") /\ Answers([pic |-> GetPicEnum(call.size)])
AttachRegions == /\ Asks("regions")
                 /\ Answers(IF Legal(call.handle_num)
                            THEN [attr |-> SetChnAttr(call.kind, call.handle_num), handles |-> Handles(call.kind, call.handle_num),
                                  created |-> CreateRegions(call.kind, call.handle_num)]
                            ELSE [attr |-> <<>>])
LoadBitmap    == /\ Asks("bitmap")
                 /\ \E bmp \in {CASE call.way = "map" -> LoadBmpEx(call, call.fmt)
                                  [] call.way = "canvas" -> LoadBmpCanvas(call, call.fmt, call.canvas)
                                  [] call.way = "image" -> LoadBmp(call, call.canvas.stride)} :
                       Answers([room |-> bmp.room, moves |-> bmp.moves, fil |-> FilBmp(call.width, call.height),
                                clut |-> ClutData(call)])
MarkRoi       == Asks("roi") /\ Answers([marks |-> ProcessJpegRoi(call, RoimapStride("jpeg", call.size[1])),
                                          stride |-> RoimapStride("jpeg", call.size[1]),
                                          size |-> RoimapSize("jpeg", call.size[1], call.size[1])])
FindThumb     == Asks("thumb") /\ Answers(GetThmFromJpg(call.file))
SaveRing      == Asks("ring") /\ Answers(SaveStreamPhysAddr(call.ring, call))
JoinPlanes    == Asks("planes") /\ Answers(PlanToSemi(call.size))
MixColour     == Asks("colour") /\ Answers([eight |-> ByEight(call.b, call.g, call.r), two |-> ByTwo(call.b, call.g, call.r),
                                             packed |-> [f \in DOMAIN CompInfo |-> MakeColor(call.b, call.g, call.r, CompInfo[f])]])
WriteReport   == Asks("report") /\ Answers(SaveDetectionResults(call.objects, call.total))
LayMat        == Asks("mat") /\ Answers(Created(call.dims, call.shape, call.elem[1], call.elem[2]))
ShareMat      == Asks("share") /\ Answers(Shared(call))
LinkLists     == Asks("links") /\ Answers(RingDone(call))
ChainLists    == Asks("chain") /\ Answers(ChainDone(call))
AskTensor     == (\E what \in TensorQuestions : Asks(what)) /\ Answers(Tensored(call))
ConfigDecoder == Asks("decoder") /\ Answers([attr |-> ConfigAttr(call), vb |-> VbSize(call)])
CorrectFpn    == Asks("fpn") /\ Answers(CorrectionAttr(call))
ShowUserPic   == /\ Asks("user_pic")
                 /\ \E frame \in {GetUserPicFrameInfo(call)} : Answers([frame |-> frame, cells |-> ReadFileToSp42x(frame)])
DrawLabel     == Asks("label") /\ Answers(DrawObjects(call))
StartWindows  == Asks("windows") /\ Answers(StartChn(call.mode, call.width, call.height))

\* Few enough regions are all shown.
BlobToRect ==
    /\ Asks("blobs")
    /\ IF Len(call.area) > call.rect_max_num
       THEN phase' = "busy" /\ out' = [thr |-> call.cur_area_threshold % ThreshSize]
       ELSE phase' = "done" /\ out' = [thr |-> 0]
    /\ UNCHANGED call

GetThresh ==
    /\ call.what = "blobs" /\ phase = "busy"
    /\ LET thr == NextThresh(out.thr, call.area_thr_step)
       IN /\ out' = [thr |-> thr]
          /\ phase' = IF Cardinality(Above(call.area, thr)) > call.rect_max_num THEN "busy" ELSE "done"
    /\ UNCHANGED call

BeginStream ==
    /\ Asks("stream")
    /\ phase' = "busy"
    /\ out' = [used |-> 0, read |-> 0, piece |-> <<0, 0>>, seen |-> {}]
    /\ UNCHANGED call

\* What can be read behind the bytes used.
Left(used) == Min({MinBufSize, Max({0, call.stream.len - used})})

\* Read, cut and sent; from the beginning again if the file has ended.
SendStreamProcess ==
    /\ call.what = "stream" /\ phase = "busy"
    /\ Left(out.used) > 0 \/ call.circle_send
    /\ \E used \in {IF Left(out.used) = 0 THEN 0 ELSE out.used} : \E n \in {Left(used)} :
       \E cut \in {CutFrame(call.stream, used, n, call.mode)} : \E from \in {used + cut.start} :
          out' = [used |-> from + cut.len, read |-> used + n, piece |-> <<from, from + cut.len>>,
                  seen |-> (IF Left(out.used) = 0 THEN {} ELSE out.seen)
                           \cup {p \in call.stream.pictures : from <= p[1] /\ p[2] <= from + cut.len}]
    /\ UNCHANGED <<call, phase>>

\* At the end of the file, or when the thread is told to stop.
EndStream ==
    /\ call.what = "stream" /\ phase = "busy"
    /\ phase' = "done"
    /\ UNCHANGED <<call, out>>

\* A picture is sent as soon as it is found to be due, which may be late.
BeginPace == Asks("pace") /\ phase' = "busy" /\ out' = NotSent /\ UNCHANGED call
SendInTime ==
    /\ call.what = "pace" /\ phase = "busy" /\ out.sent < MaxSent
    /\ \E wait \in 0..(Beat + MaxLate) : Due(out, wait) /\ out' = HandleSendStream(out, wait)
    /\ UNCHANGED <<call, phase>>

FileEnds == call.what = "stream" /\ phase = "busy" /\ Left(out.used) = 0 /\ ~call.circle_send

Goes ==
    BlobToRect \/ GetThresh \/ BeginStream \/ SendStreamProcess \/ (FileEnds /\ EndStream)

Next ==
    \/ CreateChannel \/ OpenEncoder \/ ConfigPools \/ StartWindows \/ FindObject
    \/ AskBlock \/ AskCoder \/ AskMaps \/ SetUpRoute \/ SetUpScreen \/ NamePicture
    \/ AttachRegions \/ LoadBitmap \/ MarkRoi \/ FindThumb \/ SaveRing \/ JoinPlanes \/ MixColour \/ WriteReport \/ DrawLabel
    \/ LayMat \/ ShareMat \/ LinkLists \/ ChainLists \/ AskTensor
    \/ ConfigDecoder \/ CorrectFpn \/ ShowUserPic \/ BeginPace \/ SendInTime
    \/ Goes \/ EndStream

Spec == Init /\ [][Next]_callVars

\* A loop that is begun goes on; nobody has to stop a thread.
FairSpec == Spec /\ WF_callVars(Goes)

-----------------------------------------------------------------------------
(* Properties.                                                             *)

Answered(what) == call.what = what /\ phase = "done"

\* What is asked of a coder fits it.
AttributesHold ==
    /\ Answered("venc")    => RatesCoherent(call, out)
    /\ Answered("aac")     => AdviceHolds(call, out)
    /\ Answered("decoder") => DecoderFits(call, out)

\* The pools have the buffers of every channel, each counted once, as long as
\* there are no more sizes than pools; a pool for motion takes none of the
\* pictures'.
PoolsCounted ==
    Answered("pools") =>
       LET chns  == call.chns
           kinds == {<<CalVbSize(chns[i]).pic, chns[i].frame_buf_cnt, i>> : i \in DOMAIN chns}
                    \cup {k \in {<<CalVbSize(chns[i]).tmv, chns[i].ref_frame_num + 1, i>> : i \in DOMAIN chns} : k[1] # <<>>}
           sizes == {k[1] : k \in kinds}
       IN Cardinality(sizes) <= MaxCommonPools =>
          /\ \A s \in sizes : MapThenSumSet(LAMBDA k : k[2], {k \in kinds : k[1] = s})
                = MapThenSumSet(LAMBDA j : out.common_pool[j].blk_cnt,
                                {j \in DOMAIN out.common_pool : out.common_pool[j].blk_size = s /\ j < out.max_pool_cnt})
          /\ DOMAIN out.common_pool = 0..(out.max_pool_cnt - 1)

\* What is set aside is enough for what is put there, and is given back when
\* nobody uses it any more.
PoolsServe ==
    /\ Answered("block") => BlockFits(call, out)
    /\ Answered("coder") => CoderFits(call, out)
    /\ Answered("map")   => MapsFit(call, out)
    /\ Answered("share") => SharedFairly(call, out)

\* Whatever is placed is placed where it belongs: windows, regions and labels on
\* a picture, a bitmap's rows and the elements of a Mat in their memory, the
\* bytes of a ring and the samples of two planes one behind the other; and a
\* fixed pattern is found again as it was saved.
PlacesHold ==
    /\ Answered("windows") => WindowsFit(call, out)
    /\ Answered("picture") => BoxReturns(call, out)
    /\ Answered("route") => ViewsFit(call.sns, out.views)
    /\ Answered("regions") => RegionsFit(call, out)
    /\ Answered("bitmap") => BitmapFits(call, out) /\ ClutKept(call, out)
    /\ Answered("roi") => RoiMarked(call, out)
    /\ Answered("label") => LabelFits(call, out)
    /\ Answered("mat") => MatPlaced(call, out)
    /\ Answered("ring") => RingSaved(call, out)
    /\ Answered("planes") => PlanesPaired(call, out)
    /\ Answered("fpn") => FpnReturns(call, out)

\* On the way of a sensor the receiver, the device and the ISP, which leaves
\* out the black lines, mean the same frame, at the same rate and with the same
\* bits; the group fuses as many pipes as the device feeds, and the pipes are
\* those of the mode; the channel is not larger than what the ISP gives.
WayAgrees(cfg) ==
    LET attr == cfg.mipi.combo_dev_attr
        pub  == cfg.pipe.pub_attr
    IN /\ attr.devno = cfg.dev.vi_dev /\ cfg.mipi.mipi_dev = cfg.dev.vi_dev /\ cfg.mipi.ext.devno = cfg.dev.vi_dev
       /\ attr.width = cfg.dev.width /\ attr.height = cfg.dev.height
       /\ cfg.dev.width = pub.size.width /\ cfg.dev.height = pub.y + pub.size.height
       /\ attr.rate = cfg.dev.rate /\ attr.bits = cfg.pipe.bits
       /\ cfg.grp.wdr_mode = pub.wdr_mode /\ cfg.grp.pipe_id = cfg.bind
       /\ Len(cfg.bind) = CASE pub.wdr_mode = "none" -> 1 [] pub.wdr_mode = "2to1" -> 2 [] OTHER -> 3
       /\ cfg.pipe.chn.size = cfg.pipe.size
       /\ cfg.pipe.size.width <= pub.size.width /\ cfg.pipe.size.height <= pub.size.height

\* Sensors beside each other share nothing.
Apart(a, b) ==
    /\ a.mipi.combo_dev_attr.lanes \cap b.mipi.combo_dev_attr.lanes = {}
    /\ a.dev.vi_dev # b.dev.vi_dev /\ a.grp.fusion_grp # b.grp.fusion_grp /\ a.mipi.divide_mode = b.mipi.divide_mode
    /\ {a.bind[i] : i \in DOMAIN a.bind} \cap {b.bind[i] : i \in DOMAIN b.bind} = {}
    /\ a.sns.bus_id # b.sns.bus_id /\ a.sns.sns_clk_src # b.sns.sns_clk_src /\ a.sns.sns_rst_src # b.sns.sns_rst_src

\* The sensors there are attributes for beside others.
Placed(route, sns) ==
    CASE route = "two" -> GetWdrMode(sns) = "none" [] route = "four" -> sns = "os05a10" [] OTHER -> TRUE

\* Each way agrees with itself and lies apart from the others; the pools'
\* blocks hold the channel's picture and the pipe's frame, but for a sensor
\* larger than the one the pools were made for; and pipes that are not fed
\* directly find frames.
RoutesAgree ==
    Answered("route") /\ Placed(call.route, call.sns) =>
       LET cfgs  == out.cfgs
           raw(cfg) == GetPicBufCfg([width |-> cfg.pipe.size.width, height |-> cfg.pipe.size.height, align |-> DefaultAlign,
                                     bit_width |-> cfg.pipe.bits, format |-> "raw", compress_mode |-> cfg.pipe.compress_mode])
           chn(cfg) == GetPicBufCfg([width |-> cfg.pipe.size.width, height |-> cfg.pipe.size.height, align |-> DefaultAlign,
                                     bit_width |-> 8, format |-> "420", compress_mode |-> cfg.pipe.chn.compress_mode])
       IN /\ \A i \in DOMAIN cfgs : WayAgrees(cfgs[i])
          /\ \A i, j \in DOMAIN cfgs : i # j => Apart(cfgs[i], cfgs[j])
          /\ \A i \in DOMAIN cfgs : cfgs[i].pipe.size.width <= GetSize(call.sns).width =>
                raw(cfgs[i]).vb_size <= out.pools[2].blk_size /\ chn(cfgs[i]).vb_size <= out.pools[1].blk_size
          /\ out.mode.vi = "offline" => out.pools[2].blk_cnt >= Len(cfgs)
          /\ \A i \in DOMAIN cfgs : GetPicSize(out.venc) = <<cfgs[i].pipe.chn.size.width, cfgs[i].pipe.chn.size.height>>
          /\ Groups(call.route) >= Len(cfgs) /\ WndInfo[out.vo_mode][1] >= Groups(call.route)

\* The tables that are read by the number of a timing mean the same screen:
\* HDMI's format, where it has one, and the transmitter's, whose pixels come at
\* the rate its blanks ask for and go through its lanes, as far as they carry.
MaxLane == 2259
OneTiming(sync, tx) ==
    LET screen == GetWidthHeight(sync)
        pixels == tx.htotal * tx.vtotal * screen[3]
    IN /\ <<tx.hact, tx.vact>> = <<screen[1], screen[2]>>
       /\ pixels - 1000 * tx.pixel_clk \in (-15 * tx.pixel_clk)..(15 * tx.pixel_clk)
       /\ 1000 * tx.lanes * tx.phy_data_rate >= tx.bits * tx.pixel_clk \/ tx.phy_data_rate = MaxLane

\* The default timing's pixels come at the rate of its frames, the second
\* layer's defaults are the first one's, and every second screen is written
\* back as it is; who leaves the default gets the whole screen, who asks for a part that fits gets no more
\* than the screen, and the picture fills the layer unless the caller has its
\* own size; with the user's own timing nobody has said how large the screen is.
ScreensAgree ==
    Answered("screen") /\ call.sync # User =>
       LET screen == GetWidthHeight(call.sync)
           layer  == out.layer
       IN /\ out.hdmi # Customer => out.hdmi = screen
          /\ out.tx # TxNone => OneTiming(call.sync, out.tx)
          /\ call.sync = out.def.sync =>
                out.def.timing = [hact |-> out.tx.hact, htotal |-> out.tx.htotal, vact |-> out.tx.vact, vtotal |-> out.tx.vtotal]
          /\ 1000 * PixelClk(out.def.info) = out.def.timing.htotal * out.def.timing.vtotal * GetWidthHeight(out.def.sync)[3]
          /\ LayerLayerAttr(out.def_layer) = VoLayerAttr(out.def) /\ out.def_layer.layer # out.def.layer
          /\ out.wbc.src_id = out.def.layer /\ out.wbc.target_size = VoLayerAttr(out.def).disp
          /\ 2 * out.wbc.frame_rate = VoLayerAttr(out.def).rate
          /\ out.second = layer /\ layer.rate = screen[3]
          /\ call.disp_rect = DefRect => layer.disp = <<screen[1], screen[2]>>
          /\ call.disp_rect.width <= screen[1] /\ call.disp_rect.height <= screen[2] =>
                layer.disp[1] <= screen[1] /\ layer.disp[2] <= screen[2]
          /\ layer.image = layer.disp \/ layer.image = call.image_size
SizesAgree ==
    Answered("size") => \/ GetPicSize(out.pic) = call.size
                        \/ GetPicSize(out.pic) = DefImage /\ \A pic \in 0..31 : GetPicSize(pic) # call.size

\* What is written down or worked out twice comes to the same.
TablesAgree ==
    /\ RoutesAgree /\ ScreensAgree /\ SizesAgree /\ PoolsCounted
    /\ Answered("colour") => ColoursAgree(out) /\ ColourPacked(call, out.packed)
    /\ Answered("report") => ReportFair(call, out)

\* A stream whose pictures are long enough to be told from a start code, and
\* short enough for the buffer with what comes before them, is cut into
\* pictures: each is sent whole, in a piece of its own, with nothing that was
\* not read, and none is missing.  In JPEG nothing may lie between them.
Before(s, p) == Max({0} \cup {q[2] : q \in {r \in s.pictures : r[2] <= p[1]}})
Regular(s) ==
    /\ s.pictures # {}
    /\ IF s.kind = "jpeg"
       THEN \A i \in DOMAIN s.parts : s.parts[i][1] # "junk" /\ s.parts[i][2] <= MinBufSize
       ELSE \A p \in s.pictures :
              /\ p[2] - p[1] >= 2 * CodeLength(s.kind)
              /\ p[2] - Before(s, p) + CodeLength(s.kind) < MinBufSize \/ s.len - Before(s, p) <= MinBufSize
PicturesCut ==
    call.what = "stream" /\ phase # "asked" =>
       LET s == call.stream
           over == {p \in s.pictures : p[1] < out.piece[2] /\ out.piece[1] < p[2]}
       IN call.mode = "frame" /\ Regular(s) =>
          /\ out.piece[2] <= out.read
          /\ Cardinality(over) <= 1 /\ over \subseteq out.seen
          /\ out.used >= s.len => out.seen = s.pictures

\* No picture of a thread that sends them in time runs ahead of the beat.
BeatKept == call.what = "pace" /\ phase = "busy" => KeepsPace(out)

\* What is cut out of a stream or a file is one picture, with all that belongs
\* to it; a picture of the user's and a tensor are found whole where they were
\* put; and lists keep, in their order, the entries that belong to them.
OnePicture ==
    /\ PicturesCut
    /\ Answered("user_pic") => UserPicPlaced(call, out)
    /\ (\E what \in TensorQuestions : Answered(what)) => TensorsFit(call, out)
    /\ Answered("thumb") => ThumbFound(call, out)
    /\ BeatKept
    /\ Answered("links") \/ Answered("chain") => ListsKept(call, out)

\* The search for a threshold ends, with no more regions than are wanted, if
\* few enough are larger than all the thresholds of the last step; the thread
\* that does not begin again comes to the end of its file.
FewAreLarge ==
    IF call.what = "blobs"
    THEN /\ call.area_thr_step > 0
         /\ Cardinality(Above(call.area, ThreshSize - call.area_thr_step)) <= call.rect_max_num
    ELSE FALSE
FewAreShown ==
    IF call.what = "blobs" /\ phase = "done"
    THEN Cardinality(Above(call.area, out.thr)) <= call.rect_max_num ELSE FALSE
PlaysOnce == IF call.what = "stream" THEN ~call.circle_send ELSE FALSE
CallsEnd ==
    /\ FewAreLarge ~> FewAreShown
    /\ PlaysOnce ~> (phase = "done")
=============================================================================
