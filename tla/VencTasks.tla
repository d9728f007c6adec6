----------------------------- MODULE VencTasks -----------------------------
(***************************************************************************)
(* The threads of sample_comm_venc.c beside the stream thread of           *)
(* VencStream: frames sent with a QP map or a ROI map, automatic rate      *)
(* control, the SVC-T stream and snapshots.  No route of sample_vio        *)
(* starts them: their caller starts a thread, waits for a key, and stops   *)
(* what it started.                                                        *)
(***************************************************************************)
EXTENDS Tasks

CONSTANT Cnt          \* para->cnt, the channels served

Chns      == 1..Cnt
Started   == <<"thread_start", 0>>
Chan(i)   == <<"chan", i>>                 \* the for loop over the channels, at i
Error     == <<"error", 0>>
Image(i)  == <<"frame", i>>                \* a frame of VPSS
QpMap(i)  == <<"qpmap", i>>
Skip(i)   == <<"skip_weight", i>>
Roi(i)    == <<"roimap", i>>

\* A caller of a start and a stop function.
Caller == StartThread(Started, 1, Ret) \o <<Key>> \o StopThread(Started, 1)

\* Slip: a frame that could not be sent is not given back.
SendFrameEx_KeepsUnsent(i, maps) == <<Use({Image(i)} \cup maps, "send_frame_ex", Loop)>>

(* While the thread is to run: a frame of each channel in turn.  No frame: *)
(* the next channel.  Not sent: the frame goes back and the round is over. *)
(* Not given back: the thread is over.                                     *)
SendFrameEx(i, maps) ==
    <<Use({Image(i)} \cup maps, "send_frame_ex", <<"unsent", i>>), Jump(<<"sent", i>>),
      Mark(<<"unsent", i>>), Give(Image(i), Error), Jump(Loop), Mark(<<"sent", i>>)>>

Round(bodies) ==
    <<Mark(Loop), While(Started, Error)>> \o For(bodies) \o <<Mark(Chan(Cnt + 1)), Jump(Loop)>>

QpmapSendFrameStart ==
    Round([i \in Chns |->
        <<Mark(Chan(i)), Take(Image(i), Chan(i + 1))>> \o SendFrameEx(i, {QpMap(i), Skip(i)})
        \o <<Give(Image(i), Error)>>])

SendRoimapFrameStart ==
    Round([i \in Chns |->
        <<Mark(Chan(i)), Take(Image(i), Chan(i + 1))>> \o SendFrameEx(i, {Roi(i)})
        \o <<Give(Image(i), Error)>>])

SetVpssBufferDepth ==
    For([i \in Chns |-> <<Try("vpss_get_chn_attr", Error), Try("vpss_set_chn_attr", Error)>>])

AllocQpmapSkipweightMemory == For([i \in Chns |-> <<Take(QpMap(i), Error), Take(Skip(i), Error)>>])

QpmapSendFrameProc ==
    AllocQpmapSkipweightMemory \o SetVpssBufferDepth \o QpmapSendFrameStart \o <<Mark(Error)>>
    \o For([i \in Chns |-> <<Drop(QpMap(i)), Drop(Skip(i))>>])

\* A map that cannot be allocated is a plain return.
SendRoimapFrameProc ==
    [i \in Chns |-> Take(Roi(i), Ret)] \o SetVpssBufferDepth \o SendRoimapFrameStart
    \o <<Mark(Error)>> \o [i \in Chns |-> Drop(Roi(i))]

------------------------------------------------------------------------------
(* Rate control: the regions and parameters are set without a look at the  *)
(* results; when it is stopped, they are reset.                            *)
SetSvc == <<Try("send_svc_region", On), Try("get_svc_param", On), Try("set_svc_param", On)>>

RateautoStreamProc ==
    For([i \in Chns |-> <<Try("vpss_get_chn_attr", On), Try("vpss_set_chn_attr", On)>>])
    \o Round([i \in Chns |->
         <<Mark(Chan(i)), Take(Image(i), Chan(i + 1)), Give(Image(i), Ret),
           Try("enable_svc", Ret)>> \o SetSvc])
    \o <<Mark(Error)>>

StopRateauto ==
    StopThread(Started, 1)
    \o For([i \in Chns |-> <<Try("enable_svc", On)>> \o SetSvc \o <<Try("enable_svc", On)>>])

RateautoCaller == StartThread(Started, 1, Ret) \o <<Key>> \o StopRateauto

------------------------------------------------------------------------------
(* The SVC-T stream: three files of a channel, by layer.                   *)
Layers    == 0..2
File(n)   == <<"file", n>>
Pack(i)   == <<"pack", i>>
Stream(i) == <<"stream", i>>

\* The write in it is commented out: it reads nothing and cannot fail.
SaveStream(objs) == Use(objs, "save_stream", On)

SetNameSaveStreamSvcT ==
    For([i \in Chns |->
        <<Try("get_chn_attr", Ret), Take(File(i), Ret), Take(File(i + 1), Ret), Take(File(i + 2), Ret),
          Try("get_fd", Ret), Try("get_stream_buf_info", Ret)>>])

\* A frame of a higher layer is not written to the lower files; what is then
\* tested was never set, so that the first file may end the loop either way.
SaveFrameToFileSvcT(i) ==
    <<Fork(<<"second", i>>), Fork(<<"unsaved", i>>),
      SaveStream({File(i), Pack(i)}), Mark(<<"second", i>>),
      SaveStream({File(i + 1), Pack(i)}),
      SaveStream({File(i + 2), Pack(i)}),
      Jump(<<"saved", i>>)>>

\* When it is not saved the packs are freed, and the stream is released with
\* none, which the driver may refuse.
GetStreamFromOneChannlSvcT(i) ==
    <<Try("query_status", Loop), Fork(Chan(i + 1)), Take(Pack(i), Loop), Take(Stream(i), <<"free", i>>)>>
    \o SaveFrameToFileSvcT(i)
    \o <<Mark(<<"unsaved", i>>), Drop(Pack(i)), Fork(Loop),
         Mark(<<"saved", i>>), Give(Stream(i), <<"free", i>>), Drop(Pack(i)), Jump(Chan(i + 1)),
         Mark(<<"free", i>>), Drop(Pack(i)), Jump(Loop)>>

GetVencStreamProcSvcT ==
    LET Close(i, n) == <<IfSet(File(i + n), <<"closed", i, n>>), Free(File(i + n)),
                         Mark(<<"closed", i, n>>)>>
    IN SetNameSaveStreamSvcT
       \o Round([i \in Chns |->
            (IF i = 1 THEN <<Try("select", Error), Fork(Loop)>> ELSE <<>>)
            \o <<Mark(Chan(i)), Fork(Chan(i + 1))>> \o GetStreamFromOneChannlSvcT(i)])
       \o <<Mark(Error)>>
       \o For([i \in Chns |-> Close(i, 0) \o Close(i, 1) \o Close(i, 2)])

------------------------------------------------------------------------------
(* Snapshots, on the caller's thread: no key, no other thread.             *)
VencChn == <<"venc_chn", 0>>
Running == <<"venc_run", 0>>
Fd      == <<"fd", 0>>
JpgFile == <<"jpg", 0>>
Stop    == <<"stop", 0>>

SnapStart  == <<Take(VencChn, Ret), Try("set_jpeg_enc_mode", Ret), Take(Running, Ret)>>
PhotoStart == <<Take(VencChn, Ret), Take(Running, Ret)>>
SnapStop   == <<Mark(Stop), Give(Running, Ret), Give(VencChn, Ret)>>

\* The picture inside a picture, read into memory of its own: "look" is what
\* the search for its marks comes to.
Source  == <<"fp_jpg", 0>>
Thumb   == <<"g_dst_buf", 0>>
ThmFile == <<"fp_thm", 0>>
NoThumb == <<"no_thumb", 0>>

GetThmFromJpg(look, failed) ==
    LET Short == <<"thumb_short", 0>> Done == <<"thumb_read", 0>>
    IN <<Take(Source, failed)>> \o look
       \o <<Take(Thumb, NoThumb), Use({Source, Thumb}, "fread_thm", Short), Free(Source), Jump(Done),
            Mark(Short), Free(Thumb), Null(Thumb), Mark(NoThumb), Free(Source), Jump(failed), Mark(Done)>>

\* And written to a file of its own; if there is none, the memory stays.  A
\* write that fails ends the loop and is no failure.
GetDcfInfo(look, failed) ==
    LET Again == <<"write_again", 0>> Written == <<"thm_written", 0>>
    IN GetThmFromJpg(look, failed)
       \o <<Take(ThmFile, failed), Mark(Again), Use({ThmFile, Thumb}, "fwrite_thm", Written), Fork(Again),
            Mark(Written), Free(ThmFile), Drop(Thumb)>>

\* The stream comes by value: freeing its packs is seen by the caller, that
\* it is not released again is not.  As nothing is written, the file of the
\* snapshot is empty, and a thumbnail in it is never found.
SaveThm == <<"save_thm", 0>>

SaveSnapStream ==
    <<Take(Fd, <<"no_file", 0>>), Take(JpgFile, Error),
      SaveStream({JpgFile, Pack(0)}), While(SaveThm, <<"no_thm", 0>>)>>
    \o GetDcfInfo(<<Jump(NoThumb)>>, Error)
    \o <<Mark(<<"no_thm", 0>>), Drop(JpgFile), Drop(Fd), Jump(<<"saved", 0>>),
      Mark(Error), Drop(Pack(0)), Free(JpgFile), IfSet(JpgFile, Stop), Drop(Fd), Jump(Stop),
      Mark(<<"no_file", 0>>), Drop(Pack(0)), Jump(Stop)>>

GetSnapStream ==
    <<Try("query_status", Stop), Fork(<<"next", 0>>), Take(Pack(0), Stop), Take(Stream(0), <<"free", 0>>)>>
    \o SaveSnapStream
    \o <<Mark(<<"saved", 0>>), Give(Stream(0), <<"free", 0>>), Drop(Pack(0)), Jump(<<"next", 0>>),
         Mark(<<"free", 0>>), Drop(Pack(0)), Jump(Stop)>>

\* snap_cnt pictures; a time-out ends it.
SnapProcess ==
    <<Try("get_fd", Stop), Mark(<<"next", 0>>), Fork(Stop), Try("select", Stop)>> \o GetSnapStream
SaveJpeg == SnapProcess

\* The caller wants a thumbnail or not.
WantsThm == <<Fork(<<"plain", 0>>), Raise(SaveThm), Mark(<<"plain", 0>>)>>

SnapCaller  == WantsThm \o SnapStart \o SnapProcess \o SnapStop
PhotoCaller == WantsThm \o PhotoStart \o SaveJpeg \o SnapStop

\* A thumbnail out of any picture.
ThumbCaller == GetDcfInfo(<<Fork(NoThumb)>>, Ret)

------------------------------------------------------------------------------
(* Channels.                                                               *)

\* Four modes of rate control may encode a picture again: they are told not
\* to.  The others are left as they are.
CloseReencode(failed) ==
    LET Other == <<"other_rc", 0>>
    IN <<Use({VencChn}, "get_chn_attr", failed), Use({VencChn}, "get_rc_param", failed), Fork(Other),
         Use({VencChn}, "set_rc_param", failed), Mark(Other)>>

\* A channel for JPEG has no rate control.
CreateVenc(failed) ==
    LET NotClosed == <<"not_closed", 0>> Done == <<"venc_created", 0>>
    IN <<Take(VencChn, failed), Fork(Done)>> \o CloseReencode(NotClosed)
       \o <<Jump(Done), Mark(NotClosed), Give(VencChn, On), Jump(failed), Mark(Done)>>

\* A channel that cannot be started is left as created.
StartVencChn(failed) == CreateVenc(failed) \o <<Take(Running, failed)>>

\* Where the memory of the channels lies (64 of them): all or the first failure.
VencMemConfig(failed) == [i \in Chns |-> Of(i, Try("set_mem_cfg", failed))]

VencCaller == VencMemConfig(Ret) \o StartVencChn(Ret) \o <<Give(Running, On), Give(VencChn, On)>>
=============================================================================
