---------------------------- MODULE EncoderRates ----------------------------
(***************************************************************************)
(* The rates of the encoders, in kbit/s.  Video, sample_comm_venc.c: what  *)
(* sample_comm_venc_channel_param_init makes of the parameters of a        *)
(* channel.  A picture is its place in the order of sizes; 8 is any other  *)
(* size, 9 is 360P.  Audio, audio_aac_adp.c: which attributes              *)
(* open_aac_encoder accepts, and the rate it recommends when it refuses    *)
(* one.                                                                    *)
(***************************************************************************)
EXTENDS Integers, Sequences

Known     == 1..7        \* D1, 720P, 1080P, 2592X1944, 3840X2160, 4000X3000, 7680X4320
Other     == 8
Pic360    == 9
Pictures  == Known \cup {Other, Pic360}

\* Each table has the steady part, in 1024 kbit/s, and the part of 30 frames.
Rate(steady, share, size, frames) == 1024 * steady[size] + (share[size] * frames) \div 30
Share     == <<1024, 1024, 2048, 3072, 5120, 5120, 5120, 2048, 1024>>
ShareHalf == <<512, 1024, 2048, 3072, 5120, 5120, 5120, 2048, 2048>>

\* Without 360P, its size is like any other.
No360(table) == [table EXCEPT ![Pic360] = table[Other]]

Plain     == <<0, 2, 2, 3, 5, 10, 20, 2, 1>>
Mjpeg     == <<1, 3, 2, 20, 25, 30, 40, 5, 3>>

H264Qvbr(size, frames) == Rate(<<1, 2, 2, 3, 5, 10, 20, 15, 15>>, ShareHalf, size, frames)
H265Qvbr(size, frames) == Rate(<<1, 2, 2, 3, 5, 10, 20, 15, 15>>, ShareHalf, size, frames)
H264Avbr(size, frames) == Rate(Plain, Share, size, frames)
H265Avbr(size, frames) == Rate(No360(Plain), No360(Share), size, frames)
H264Vbr(size, frames)  == Rate(Plain, Share, size, frames)
H265Vbr(size, frames)  == Rate(No360(Plain), No360(Share), size, frames)
H265Cbr(size, frames)  == Rate(No360(Plain), No360(Share), size, frames)
MjpegVbr(size, frames) == Rate(Mjpeg, Share, size, frames)
MjpegCbr(size, frames) == Rate(Mjpeg, Share, size, frames)

\* Here 4000X3000 gets more than 7680X4320.
H264Cbr(size, frames)  == Rate([Plain EXCEPT ![6] = 12, ![7] = 10], Share, size, frames)

\* What the long term may take, besides what a moment may.
SetH264CvbrBitRate(size, frames) ==
    [max      |-> Rate(<<1, 2, 2, 4, 8, 12, 24, 24, 24>>, ShareHalf, size, frames),
     long_max |-> Rate(<<1, 2, 2, 3, 5, 10, 15, 15, 15>>, ShareHalf, size, frames),
     long_min |-> <<256, 512, 1024, 2048, 3072, 4096, 5120, 5120, 5120>>[size]]
SetH265CvbrBitRate(size, frames) == SetH264CvbrBitRate(size, frames)

-----------------------------------------------------------------------------
(* A channel's attributes; a rate of 0 where the mode has none.            *)
Attr(rc, max, long_max, long_min) ==
    [ok |-> TRUE, rc |-> rc, max |-> max, long_max |-> long_max, long_min |-> long_min]
Steady(rc, rate)  == Attr(rc, rate, rate, 0)
Varying(rc, r)    == Attr(rc, r.max, r.long_max, r.long_min)
Unsupported       == [Attr("none", 0, 0, 0) EXCEPT !.ok = FALSE]

\* A variable rate with an adaptive one asked for.
MjpegParamInit(p, frames) ==
    CASE p.rc = "fixqp"           -> Steady("MJPEG_FIXQP", 0)
      [] p.rc = "cbr"             -> Steady("MJPEG_CBR", MjpegCbr(p.size, frames))
      [] p.rc \in {"vbr", "avbr"} -> Steady("MJPEG_VBR", MjpegVbr(p.size, frames))
      [] OTHER                    -> Unsupported

H264ParamInit(p, frames) ==
    CASE p.rc = "cbr"   -> Steady("H264_CBR", H264Cbr(p.size, frames))
      [] p.rc = "vbr"   -> Steady("H264_VBR", H264Vbr(p.size, frames))
      [] p.rc = "avbr"  -> Steady("H264_AVBR", H264Avbr(p.size, frames))
      [] p.rc = "cvbr"  -> Varying("H264_CVBR", SetH264CvbrBitRate(p.size, frames))
      [] p.rc = "qvbr"  -> Steady("H264_QVBR", H264Qvbr(p.size, frames))
      [] p.rc = "qpmap" -> Steady("H264_QPMAP", 0)
      [] p.rc = "fixqp" -> Steady("H264_FIXQP", 0)

H265ParamInit(p, frames) ==
    CASE p.rc = "cbr"   -> Steady("H265_CBR", H265Cbr(p.size, frames))
      [] p.rc = "vbr"   -> Steady("H265_VBR", H265Vbr(p.size, frames))
      [] p.rc = "avbr"  -> Steady("H265_AVBR", H265Avbr(p.size, frames))
      [] p.rc = "cvbr"  -> Varying("H265_CVBR", SetH265CvbrBitRate(p.size, frames))
      [] p.rc = "qvbr"  -> Steady("H265_QVBR", H265Qvbr(p.size, frames))
      [] p.rc = "qpmap" -> Steady("H265_QPMAP", 0)
      [] p.rc = "fixqp" -> Steady("H265_FIXQP", 0)

\* Slip: the profile stays what the caller asked for.
SetGopAttr_KeepsProfile(p) ==
    IF p.type \in {"mjpeg", "jpeg"} THEN [gop |-> "normal_p", profile |-> p.profile]
    ELSE [gop |-> p.gop, profile |-> p.profile]

\* H.264's base profile has no bipredictive pictures.
SetGopAttr(p) ==
    IF p.type \in {"mjpeg", "jpeg"} THEN [gop |-> "normal_p", profile |-> p.profile]
    ELSE [gop |-> p.gop,
          profile |-> IF p.gop = "bipred_b" /\ p.type = "h264" /\ p.profile = 0 THEN 1 ELSE p.profile]

BgInterval == 90         \* smart_p.bg_interval

RateOf(p, frames) ==
    CASE p.type = "h265"  -> H265ParamInit(p, frames)
      [] p.type = "h264"  -> H264ParamInit(p, frames)
      [] p.type = "mjpeg" -> MjpegParamInit(p, frames)
      [] p.type = "jpeg"  -> Steady("none", 0)
ChannelParamInit(p, gop, frames) ==
    LET attr == SetGopAttr(p)
        rate == RateOf(p, frames)
    IN [gop |-> attr.gop, profile |-> attr.profile,
        stats_time |-> IF p.gop = "smart_p" THEN BgInterval \div gop ELSE 1,
        ok |-> rate.ok, rc |-> rate.rc, max |-> rate.max, long_max |-> rate.long_max, long_min |-> rate.long_min]

\* Whatever the caller has set.
VencCreate(p) == ChannelParamInit(p, 30, 30)

VencParams ==
    [what : {"venc"}, type : {"h264", "h265", "mjpeg", "jpeg"}, profile : {0, 1}, size : Pictures,
     rc : {"cbr", "vbr", "avbr", "cvbr", "qvbr", "qpmap", "fixqp"},
     gop : {"normal_p", "smart_p", "dual_p", "bipred_b"}]

-----------------------------------------------------------------------------
(* AAC.                                                                    *)

\* The least, the greatest and the recommended rate, each for one channel and
\* for two.
Both(rate)       == <<rate, rate>>
Row(least, greatest, advice) == [least |-> least, greatest |-> greatest, advice |-> advice]

GetAaclcBitrate ==
    [rate \in {8000, 16000, 22050, 24000, 32000, 44100, 48000} |->
       CASE rate = 32000 -> Row(Both(32), <<192, 320>>, <<48, 128>>)
         [] rate = 44100 -> Row(Both(48), <<265, 320>>, <<64, 128>>)
         [] rate = 48000 -> Row(Both(48), <<288, 320>>, <<64, 128>>)
         [] rate = 16000 -> Row(Both(24), <<96, 192>>, Both(48))
         [] rate = 8000 -> Row(Both(16), <<48, 96>>, <<24, 32>>)
         [] rate = 24000 -> Row(Both(32), <<144, 288>>, Both(48))
         [] rate = 22050 -> Row(Both(32), <<132, 265>>, <<64, 48>>)]

GetEaacBitrate ==
    [rate \in {16000, 22050, 24000, 32000, 44100, 48000} |->
       IF rate = 16000 THEN Row(Both(24), <<48, 96>>, Both(32)) ELSE Row(Both(32), <<64, 128>>, <<48, 64>>)]

GetEaacplusBitrate ==
    [rate \in {16000, 22050, 24000, 32000, 44100, 48000} |->
       CASE rate = 16000 -> Row(Both(16), Both(48), Both(32))
         [] rate \in {44100, 48000} -> Row(Both(16), Both(64), Both(48))
         [] OTHER -> Row(Both(16), Both(64), Both(32))]

GetAacldBitrate ==
    [rate \in {8000, 16000, 22050, 24000, 32000, 44100, 48000} |->
       CASE rate = 32000 -> Row(<<48, 64>>, Both(320), <<64, 128>>)
         [] rate = 44100 -> Row(<<64, 44>>, Both(320), <<128, 256>>)
         [] rate = 48000 -> Row(Both(64), Both(320), <<128, 256>>)
         [] rate = 16000 -> Row(<<24, 32>>, <<192, 320>>, <<48, 96>>)
         [] rate = 8000 -> Row(Both(16), <<96, 192>>, <<24, 48>>)
         [] rate = 24000 -> Row(<<32, 48>>, <<256, 320>>, <<64, 128>>)
         [] rate = 22050 -> Row(<<32, 48>>, <<256, 320>>, <<48, 96>>)]

GetAaceldBitrate ==
    [rate \in {8000, 16000, 22050, 24000, 32000, 44100, 48000} |->
       CASE rate = 32000 -> Row(<<32, 64>>, Both(320), <<64, 128>>)
         [] rate = 44100 -> Row(<<96, 192>>, Both(320), <<128, 256>>)
         [] rate = 48000 -> Row(<<96, 192>>, Both(320), <<128, 256>>)
         [] rate = 16000 -> Row(<<16, 32>>, <<256, 320>>, <<48, 96>>)
         [] rate = 8000 -> Row(<<32, 64>>, <<96, 192>>, <<32, 64>>)
         [] rate = 24000 -> Row(<<24, 32>>, <<256, 320>>, <<64, 128>>)
         [] rate = 22050 -> Row(<<24, 32>>, <<256, 320>>, <<48, 96>>)]

CheckAacAttr(attr) ==
    /\ attr.bit_width = 16
    /\ attr.aac_type = "eaacplus" => attr.snd_mode = "stereo"
    /\ attr.transport = "adts" => attr.aac_type \notin {"aacld", "aaceld"}

\* How many channels go in and come out.
InitConfig(attr) ==
    IF attr.snd_mode = "mono" /\ attr.aac_type # "eaacplus" THEN 1 ELSE 2

Refused == [ok |-> FALSE, advice |-> 0]

\* The rate against the row of the format and the sampling rate: refused
\* without advice if there is none.
CheckRate(table, attr, channels) ==
    IF attr.sample_rate \notin DOMAIN table THEN Refused
    ELSE LET row == table[attr.sample_rate]
         IN [ok |-> attr.bit_rate \in row.least[channels]..row.greatest[channels],
             advice |-> row.advice[channels]]

CheckAaclcConfig(attr, channels)    == CheckRate(GetAaclcBitrate, attr, channels)
CheckEaacConfig(attr, channels)     == CheckRate(GetEaacBitrate, attr, channels)
CheckEaacplusConfig(attr, channels) == CheckRate(GetEaacplusBitrate, attr, channels)
CheckAacldConfig(attr, channels)    == CheckRate(GetAacldBitrate, attr, channels)
CheckAaceldConfig(attr, channels)   == CheckRate(GetAaceldBitrate, attr, channels)

CheckConfig(attr, channels) ==
    IF attr.band_width # 0 /\ attr.band_width \notin 1000..(attr.sample_rate \div 2) THEN Refused
    ELSE CASE attr.aac_type = "aaclc"    -> CheckAaclcConfig(attr, channels)
           [] attr.aac_type = "eaac"     -> CheckEaacConfig(attr, channels)
           [] attr.aac_type = "eaacplus" -> CheckEaacplusConfig(attr, channels)
           [] attr.aac_type = "aacld"    -> CheckAacldConfig(attr, channels)
           [] attr.aac_type = "aaceld"   -> CheckAaceldConfig(attr, channels)

CheckAndInit(attr) ==
    IF CheckAacAttr(attr) THEN CheckConfig(attr, InitConfig(attr)) ELSE Refused

AacAttrs ==
    [what : {"aac"}, aac_type : {"aaclc", "eaac", "eaacplus", "aacld", "aaceld"},
     sample_rate : {8000, 12000, 16000, 22050, 24000, 32000, 44100, 48000},
     bit_rate : {8, 16, 22, 24, 32, 48, 64, 96, 128, 256, 320}, bit_width : {8, 16},
     snd_mode : {"mono", "stereo"}, transport : {"adts", "loas"}, band_width : {0, 500, 6000}]
-----------------------------------------------------------------------------
(* What must hold of the answers.                                          *)

\* The next larger picture; one of any other size has no place in the order.
NextSize(size) == IF size = Pic360 THEN 1 ELSE size + 1

\* Where the tables are out of order: 4000X3000 at H.264's constant rate, and
\* 360P, which gets more than D1 wherever there is a rate.
OutOfOrder(attr, size) == \/ attr.rc = "H264_CBR" /\ size = 6
                          \/ attr.max > 0 /\ size = Pic360

\* In every mode, a larger picture gets a lower rate where the tables are out
\* of order, and nowhere else; one of another size, however small, gets no less
\* than 1080P; the rates of the long term lie in order below that of a moment;
\* no bipredictive picture is asked of H.264's base profile; and the rate is
\* measured over a second at least.
RatesCoherent(p, attr) ==
    /\ attr.long_min <= attr.long_max /\ attr.long_max <= attr.max
    /\ p.size \in (Known \ {7}) \cup {Pic360} =>
          (VencCreate([p EXCEPT !.size = NextSize(@)]).max < attr.max <=> OutOfOrder(attr, p.size))
    /\ p.size = Other => attr.max >= VencCreate([p EXCEPT !.size = 3]).max
    /\ p.type = "h264" /\ attr.gop = "bipred_b" => attr.profile > 0
    /\ attr.stats_time > 0

\* Whoever asks again, at the rate the message recommends, is accepted; two
\* channels are never advised less than one, but for AAC-LC at 22050 Hz; of what
\* audio_aac_adp.h recommends all is accepted but EAAC's 22 kbit/s at 32000 Hz,
\* which is refused; and what is accepted is in the range written there, but for
\* AAC ELD with one channel at 16000, 22050 and 24000 Hz, which may have less.
HeaderAdvice == {<<"aaclc", 48000, 128>>, <<"aaclc", 44100, 128>>, <<"aaclc", 32000, 96>>, <<"aaclc", 24000, 64>>,
                 <<"aaclc", 22050, 64>>, <<"aaclc", 16000, 48>>, <<"eaac", 48000, 48>>, <<"eaac", 44100, 48>>,
                 <<"eaac", 32000, 22>>, <<"eaacplus", 48000, 32>>, <<"eaacplus", 48000, 24>>,
                 <<"eaacplus", 44100, 32>>, <<"eaacplus", 44100, 24>>, <<"eaacplus", 32000, 16>>}
HeaderRange  == [aaclc |-> 16..320, eaac |-> 24..128, eaacplus |-> 16..64, aacld |-> 16..320, aaceld |-> 32..320]
Proper(attr) == CheckAacAttr(attr) /\ attr.band_width = 0
AdviceHolds(attr, answer) ==
    /\ answer.advice > 0 => CheckAndInit([attr EXCEPT !.bit_rate = answer.advice]).ok
    /\ answer.advice > 0 /\ attr.snd_mode = "mono" /\ <<attr.aac_type, attr.sample_rate>> # <<"aaclc", 22050>> =>
          answer.advice <= CheckAndInit([attr EXCEPT !.snd_mode = "stereo"]).advice
    /\ Proper(attr) /\ <<attr.aac_type, attr.sample_rate, attr.bit_rate>> \in HeaderAdvice =>
          (answer.ok <=> <<attr.aac_type, attr.sample_rate, attr.bit_rate>> # <<"eaac", 32000, 22>>)
    /\ answer.ok => \/ attr.bit_rate \in HeaderRange[attr.aac_type]
                    \/ /\ attr.aac_type = "aaceld" /\ attr.snd_mode = "mono" /\ attr.bit_rate \in 16..31
                       /\ attr.sample_rate \in {16000, 22050, 24000}
=============================================================================
