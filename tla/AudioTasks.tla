----------------------------- MODULE AudioTasks -----------------------------
(***************************************************************************)
(* The threads of sample_comm_audio.c.  Each of them may end by itself, by *)
(* clearing the flag its destroyer looks at; two of them close a file      *)
(* which the destroyer closes as well.  Then the codecs: the chip behind   *)
(* the audio interface, set up through its device file (ES8388 or the      *)
(* inner codec, as the build says), and the AAC library, which             *)
(* audio_aac_adp.c loads, counts the users of, and offers to the encoder   *)
(* and the decoder.                                                        *)
(***************************************************************************)
EXTENDS Tasks

Start(t)  == <<"start", t>>
End       == <<"end", 0>>
Unsent    == <<"unsent", 0>>
Sound     == <<"ai_frame", 0>>
Coded     == <<"aenc_stream", 0>>
Buffer    == <<"buffer", 0>>
SoundFile == <<"file", 0>>
Ai        == <<"ai_dev", 0>>
AiChn     == <<"ai_chn", 0>>
Vqe       == <<"ai_vqe", 0>>
AiRate    == <<"ai_resample", 0>>
Ao        == <<"ao_dev", 0>>
AoChn     == <<"ao_chn", 0>>
AoRate    == <<"ao_resample", 0>>
AoSys     == <<"ao_sys_chn", 0>>
VoDev     == <<"vo_dev", 0>>
HdmiInit  == <<"hdmi_init", 0>>
HdmiOpen  == <<"hdmi_open", 0>>
Hdmi      == <<"hdmi", 0>>                 \* it runs
Aenc      == <<"aenc", 0>>
Adec      == <<"adec", 0>>
Bind      == <<"bind", 0>>

\* Where a frame of AI goes: to the encoder or to the output.
AiGetFrameAndSend(to) ==
    <<Take(Sound, Loop), Use({Sound, to}, "ai_send", Unsent), Give(Sound, End), Jump(Loop),
      Mark(Unsent), Give(Sound, On)>>

\* The first three returns leave the flag up.
AiProc(t, to) ==
    <<Use({AiChn}, "ai_get_chn_param", Ret), Use({AiChn}, "ai_set_chn_param", Ret),
      Use({AiChn}, "ai_get_fd", Ret), Mark(Loop), While(Start(t), End), Try("ai_select", End), Fork(Loop)>>
    \o AiGetFrameAndSend(to) \o <<Mark(End), Lower(Start(t))>>

AencGetStreamAndSend ==
    <<Take(Coded, End), Use({Coded, Adec}, "adec_send_stream", Unsent), Use({Coded, SoundFile}, "fwrite", On),
      Give(Coded, End), Jump(Loop), Mark(Unsent), Give(Coded, On)>>

\* Slip: the flag is cleared before the file is closed.
CloseAndClear_FlagFirst(t) == <<Lower(Start(t)), Free(SoundFile), Null(SoundFile)>>

CloseAndClear(t) == <<Free(SoundFile), Null(SoundFile), Lower(Start(t))>>

AencProc(t) ==
    <<Use({Aenc}, "aenc_get_fd", End), Mark(Loop), While(Start(t), End), Try("aenc_select", End), Fork(Loop)>>
    \o AencGetStreamAndSend \o <<Mark(End)>> \o CloseAndClear(t)

AdecProc(t) ==
    <<Take(Buffer, End), Mark(Loop), While(Start(t), <<"done", 0>>),
      Use({SoundFile, Buffer}, "fread", <<"again", 0>>),
      Use({Buffer, Adec}, "adec_send_stream", <<"done", 0>>), Jump(Loop),
      Mark(<<"again", 0>>), Try("adec_send_end_of_stream", On), Jump(Loop),
      Mark(<<"done", 0>>), Drop(Buffer), Mark(End)>> \o CloseAndClear(t)

\* One of its calls stands for all of them: results ignored, two seconds apart.
AoVolProc(t) ==
    <<Mark(Loop), While(Start(t), End), Use({Ao}, "ao_set_volume", On), Jump(Loop), Mark(End)>>

\* pthread_create's result is not looked at.
CreatTrd(t) == StartThread(Start(t), t, On)

\* Slip: the flag is not cleared.
DestoryTrd_KeepsFlag(t) == <<While(Start(t), <<"stopped", t>>), Join(t), Mark(<<"stopped", t>>)>>

DestoryTrd(t) == StopThread(Start(t), t)

DestoryTrdFile(t) ==
    DestoryTrd(t)
    \o <<IfSet(SoundFile, <<"no_file", 0>>), Free(SoundFile), Null(SoundFile), Mark(<<"no_file", 0>>)>>

DestoryTrdAoVolCtrl(t) ==
    <<While(Start(t), <<"stopped", t>>), Lower(Start(t)), Cancel(t), Join(t), Mark(<<"stopped", t>>)>>

------------------------------------------------------------------------------
(* Devices and channels; every failure is a return on the spot.            *)
StartAi   == <<Try("ai_set_pub_attr", Ret), Take(Ai, Ret), Take(AiChn, Ret), Take(AiRate, Ret),
               Try("ai_set_vqe_attr", Ret), Take(Vqe, Ret)>>
StopAi    == <<Give(AiRate, Ret), Give(Vqe, Ret), Give(AiChn, Ret), Give(Ai, Ret)>>
StartHdmi ==
    LET Done == <<"hdmi_done", 0>> IN
    <<Take(VoDev, Done), Take(HdmiInit, Done), Take(HdmiOpen, Done), Use({HdmiOpen}, "hdmi_attr", Done),
      Take(Hdmi, Done), Give(Hdmi, Done), Use({HdmiOpen}, "hdmi_audio_attr", Done), Take(Hdmi, Done),
      Mark(Done)>>                                  \* whose result start_ao ignores
StopHdmi  == <<Give(Hdmi, Ret), Give(HdmiOpen, Ret), Give(HdmiInit, Ret), Give(VoDev, Ret)>>

StartAo   == <<Try("ao_set_pub_attr", Ret), Take(Ao, Ret), Take(AoChn, Ret),
               Try("ao_disable_resample", Ret), Take(AoRate, Ret), Take(AoSys, Ret)>>
StopAo    == <<Give(AoRate, Ret), Give(AoChn, Ret), Give(AoSys, Ret), Give(Ao, Ret)>>
StartAenc == <<Take(Aenc, Ret)>>
StopAenc  == <<Give(Aenc, Ret)>>
StartAdec == <<Take(Adec, Ret)>>
StopAdec  == <<Give(Adec, Ret)>>
AoBindAdec   == <<Take(Bind, Ret)>>
AoUnbindAdec == <<Give(Bind, On)>>

\* Callers: from the microphone through encoder and decoder, with a file;
\* from the microphone to the output, that of HDMI; from a file to another
\* output, with the volume control.
EncodeCaller ==
    StartAi \o StartAenc \o StartAdec \o <<Take(SoundFile, Ret)>> \o CreatTrd(1) \o CreatTrd(2) \o <<Key>>
    \o DestoryTrd(1) \o DestoryTrdFile(2) \o StopAdec \o StopAenc \o StopAi

LoopCaller ==
    StartAi \o StartHdmi \o StartAo \o CreatTrd(1) \o <<Key>>
    \o DestoryTrd(1) \o StopAo \o StopHdmi \o StopAi

PlayCaller ==
    StartAdec \o StartAo \o AoBindAdec \o <<Take(SoundFile, Ret)>> \o CreatTrd(1) \o CreatTrd(2) \o <<Key>>
    \o DestoryTrdFile(1) \o DestoryTrdAoVolCtrl(2) \o AoUnbindAdec \o StopAo \o StopAdec

-----------------------------------------------------------------------------
(* The codecs.                                                             *)

Es8388   == <<"es8388_fd", 0>>
AcodecFd == <<"fd_acodec", 0>>

\* n registers, one ioctl each.
Ioctls(name, fd, n, failed) == [r \in 1..n |-> Of(r, Use({fd}, name, failed))]

Es8388SoftReset(failed)       == Ioctls("soft_reset", Es8388, 1, failed)
Es8388SetInputCtrl(failed)    == Ioctls("input_ctrl", Es8388, 6, failed)
\* As a master the codec needs two ratios first; some rates have none.
Es8388SetClkMode(failed) ==
    <<Fork(<<"slave_mode", 0>>), Try("clk_ratio", failed)>> \o Ioctls("lrclk_ratio", Es8388, 3, failed)
    \o <<Mark(<<"slave_mode", 0>>)>> \o Ioctls("master_mode", Es8388, 1, failed)
Es8388SetClkPolarity(failed)  == Ioctls("clk_polarity", Es8388, 3, failed)
Es8388SetClkCtrl(failed)      == Es8388SetClkMode(failed) \o Es8388SetClkPolarity(failed)
Es8388SetDataCtrl(failed)     == <<Try("work_mode", failed)>> \o Ioctls("data_ctrl", Es8388, 4, failed)
Es8388SetOutputCtrl(failed)   == Ioctls("output_ctrl", Es8388, 6, failed)
Es8388SetInputVolume(failed)  == Ioctls("input_volume", Es8388, 5, failed)
Es8388SetOutputVolume(failed) == Ioctls("output_volume", Es8388, 7, failed)

Es8388CfgAudio(failed) ==
    LET Err == <<"es8388_err", 0>> Done == <<"es8388_ok", 0>>
    IN <<Take(Es8388, failed)>> \o Es8388SoftReset(Err) \o Es8388SetInputCtrl(Err) \o Es8388SetClkCtrl(Err)
       \o Es8388SetDataCtrl(Err) \o Es8388SetOutputCtrl(Err) \o Es8388SetInputVolume(Err)
       \o Es8388SetOutputVolume(Err) \o <<Free(Es8388), Jump(Done), Mark(Err), Free(Es8388), Jump(failed), Mark(Done)>>

Es8388Disable ==
    LET NoFile == <<"not_disabled", 0>> Close == <<"disabled", 0>>
    IN <<Take(Es8388, NoFile), Of(2, Use({Es8388}, "soft_reset", Close)), Mark(Close), Free(Es8388), Mark(NoFile)>>

\* A setting that fails leaves the file open.
InnerCodecCfgAudio(failed) ==
    <<Take(AcodecFd, failed), Use({AcodecFd}, "acodec_reset", On), Try("i2s_fs", failed),
      Use({AcodecFd}, "acodec_fs", failed), Use({AcodecFd}, "acodec_mixer", failed), Free(AcodecFd)>>

\* Which of the two is compiled in.
CfgAcodec(failed) ==
    <<Fork(<<"inner", 0>>)>> \o Es8388CfgAudio(failed) \o <<Jump(<<"codec_set", 0>>), Mark(<<"inner", 0>>)>>
    \o InnerCodecCfgAudio(failed) \o <<Mark(<<"codec_set", 0>>)>>

AcodecCaller == CfgAcodec(Ret) \o <<Key, Fork(Ret)>> \o Es8388Disable

------------------------------------------------------------------------------
(* The AAC library: side 1 encodes, side 2 decodes.  open_cnt is up to 2.  *)
Sides         == 1..2
AacLib(s)     == <<"lib_handle", s>>
OpenCnt(s, n) == <<"open_cnt", 2 * s + n>>           \* up: open_cnt >= n
Registered(s) == <<"aac_handle", s>>
Coder(s)      == <<"aac_coder", s>>
AacState(s)   == <<"aac_state", s>>

AudioDlopen(s, failed) == <<Take(AacLib(s), failed)>>
AudioDlclose(s)        == <<Free(AacLib(s)), Null(AacLib(s))>>
LibDlsym(s, n, failed) == [f \in 1..n |-> Of(10 * s + f, Use({AacLib(s)}, "dlsym", failed))]

\* "again" tells the second call of a text from its first.
AacInitLib(s, functions, again, failed) ==
    LET First == <<"lib_first", 2 * s + again>> NoSymbol == <<"no_symbol", 2 * s + again>>
        Done  == <<"lib_ready", 2 * s + again>>
    IN <<While(OpenCnt(s, 1), First), Raise(OpenCnt(s, 2)), Jump(Done), Mark(First)>>
       \o AudioDlopen(s, failed) \o LibDlsym(s, functions, NoSymbol) \o <<Raise(OpenCnt(s, 1)), Jump(Done),
       Mark(NoSymbol)>> \o AudioDlclose(s) \o <<Jump(failed), Mark(Done)>>
AacInitEncLib(again, failed) == AacInitLib(1, 5, again, failed)
AacInitDecLib(again, failed) == AacInitLib(2, 9, again, failed)

\* The table of functions is cleared with the library.
AacDeinitLib(s) ==
    LET One == <<"lib_one_left", s>> Closed == <<"lib_closed", s>>
    IN <<While(OpenCnt(s, 2), One), Lower(OpenCnt(s, 2)), Jump(Closed),
         Mark(One), Lower(OpenCnt(s, 1)), IfSet(AacLib(s), Closed)>> \o AudioDlclose(s) \o <<Mark(Closed)>>

\* A library whose coder cannot be registered stays counted.
AencAacInit(again, failed) == AacInitEncLib(again, failed) \o <<Take(Registered(1), failed)>>
AdecAacInit(again, failed) == AacInitDecLib(again, failed) \o <<Take(Registered(2), failed)>>
AencAacDeinit(failed) == <<Give(Registered(1), failed)>> \o AacDeinitLib(1)
AdecAacDeinit(failed) == <<Give(Registered(2), failed)>> \o AacDeinitLib(2)

OpenAacCoder(s, failed) ==
    LET NoState == <<"no_state", s>> NoAttr == <<"no_attr", s>> Done == <<"coder_open", s>>
    IN <<Take(Coder(s), failed), Of(s, Use({Coder(s)}, "memset_s", NoState)),
         Take(AacState(s), NoState), Of(s, Use({Coder(s)}, "memcpy_s", NoAttr)), Jump(Done),
         Mark(NoAttr), Free(AacState(s)), Mark(NoState), Free(Coder(s)), Jump(failed), Mark(Done)>>
OpenAacEncoder(failed) == <<Use({AacLib(1)}, "default_config", failed)>> \o OpenAacCoder(1, failed)
OpenAacDecoder(failed) == OpenAacCoder(2, failed)

\* Closed through the library, which has to be there.
CloseAacCoder(s) == <<Of(s, Use({AacLib(s)}, "close", On)), Free(AacState(s)), Free(Coder(s))>>

EncodeAacFrm(failed) ==
    <<Use({Coder(1)}, "encode_frm_check", failed), Use({AacLib(1), AacState(1)}, "aacenc_frame", failed)>>

DecodeAacFrm(failed) ==
    <<Use({AacLib(2), AacState(2)}, "find_sync_header", failed), Use({AacLib(2), AacState(2)}, "aacdec_frame", failed),
      Use({AacLib(2), AacState(2)}, "last_frame_info", failed)>>

\* The new state may be none; the coder keeps it all the same.
ResetAacDecoder(failed) == <<Free(AacState(2)), Null(AacState(2)), Retake(AacState(2), failed)>>

\* The media library: an encoder, then a decoder that may be reset.  An
\* initialisation that fails is tried a second time.
AacCaller ==
    LET Second(s) == <<"second", s>> Ready(s) == <<"ready", s>> Close(s) == <<"close", s>> NoCoder(s) == <<"no_coder", s>>
        Encode == <<"encode", 0>> Decode == <<"decode", 0>> Frame2 == <<"frame", 0>>
    IN AencAacInit(0, Second(1)) \o <<Jump(Ready(1)), Mark(Second(1))>> \o AencAacInit(1, Ret) \o <<Mark(Ready(1))>>
       \o OpenAacEncoder(NoCoder(1))
       \o <<Mark(Encode)>> \o EncodeAacFrm(Close(1)) \o <<Fork(Encode), Mark(Close(1))>> \o CloseAacCoder(1)
       \o <<Mark(NoCoder(1))>> \o AencAacDeinit(Ret)
       \o AdecAacInit(0, Second(2)) \o <<Jump(Ready(2)), Mark(Second(2))>> \o AdecAacInit(1, Ret) \o <<Mark(Ready(2))>>
       \o OpenAacDecoder(NoCoder(2))
       \o <<Mark(Decode), Fork(Frame2)>> \o ResetAacDecoder(Close(2)) \o <<Mark(Frame2)>> \o DecodeAacFrm(Close(2))
       \o <<Fork(Decode), Mark(Close(2))>> \o CloseAacCoder(2) \o <<Mark(NoCoder(2))>> \o AdecAacDeinit(Ret)
=============================================================================
