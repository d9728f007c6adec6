----------------------------- MODULE VdecTasks -----------------------------
(***************************************************************************)
(* sample_comm_vdec.c: the decoder channels, their pool, and a thread per  *)
(* channel that reads a file and sends it.  What is cut out of the file is *)
(* in Feeds.  g_vdec_vb_src is never anything but OT_VB_SRC_MOD.           *)
(***************************************************************************)
EXTENDS Tasks

CONSTANT ChnNum          \* chn_num

VdecPool      == <<"vdec_pool", 0>>
VdecChn(i)    == <<"vdec_chn", i>>
Path(i)       == <<"path", i>>
StreamFile(i) == <<"fp_strm", i>>
SendBuf(i)    == <<"buf", i>>
Ctrl(i)       == <<"e_thread_ctrl", i>>           \* up: THREAD_CTRL_START
Finished      == <<"finished", 0>>

InitVbPool(failed) == <<Try("vb_set_mod_pool_cfg", failed), Take(VdecPool, failed)>>
ExitVbPool == <<Drop(VdecPool)>>

\* Low delay is on or off for all.
ConfigLdyAttr(i, failed) ==
    LET Normal == <<"no_low_delay", i>>
    IN <<Fork(Normal), Of(i, Use({VdecChn(i)}, "low_delay_attr", failed)), Mark(Normal)>>

\* The channels that are up when a later one fails stay.
VdecStart(n, failed) ==
    <<Try("vdec_mod_param", failed)>>
    \o For([i \in 1..n |-> <<Take(VdecChn(i), failed), Of(i, Use({VdecChn(i)}, "vdec_chn_param", failed))>>
                          \o ConfigLdyAttr(i, failed) \o <<Of(i, Use({VdecChn(i)}, "start_recv", failed))>>])

VdecStop(n, failed) ==
    For([i \in 1..n |-> <<Of(i, Use({VdecChn(i)}, "stop_recv", failed)), Give(VdecChn(i), failed)>>])

\* As long as it is refused, a frame is sent again; the flag ends that.
SendStreamProc(i) ==
    <<Mark(<<"send", i>>), Of(i, Use({VdecChn(i), SendBuf(i)}, "send_stream", <<"refused", i>>)),
      Jump(<<"sent", i>>),
      Mark(<<"refused", i>>), While(Ctrl(i), <<"sent", i>>), Jump(<<"send", i>>), Mark(<<"sent", i>>)>>

EndOfStream(i) == Of(i, Use({VdecChn(i)}, "send_end_of_stream", On))

\* Round and round the file, or twice through the buffer at most.
CircleSend(i) ==
    <<Mark(Loop), While(Ctrl(i), Finished), Of(i, Use({StreamFile(i), SendBuf(i)}, "fread", On)),
      Fork(<<"more", i>>), EndOfStream(i), Mark(<<"more", i>>)>>
    \o SendStreamProc(i) \o <<Jump(Loop)>>

SendOnce(i) ==
    <<Mark(Loop), While(Ctrl(i), Finished), Of(i, Use({StreamFile(i), SendBuf(i)}, "fread", Finished)),
      Fork(Finished)>>
    \o SendStreamProc(i)

SendStream(i, process) ==
    LET Close == <<"end", 0>> NoFile == <<"end1", 0>>
    IN <<Of(i, Try("check_send_stream_param", Ret)), Take(Path(i), Ret), Take(StreamFile(i), NoFile),
         Take(SendBuf(i), Close)>>
       \o process
       \o <<Mark(Finished), EndOfStream(i), Drop(SendBuf(i)), Mark(Close), Free(StreamFile(i)),
            Mark(NoFile), Free(Path(i))>>

\* The id of a thread is 0 when it does not run.
StartSendStream(n) ==
    [i \in 1..n |-> Raise(Ctrl(i))] \o For([i \in 1..n |-> <<Null(Thread(i)), Create(i, On)>>])

JoinIfRunning(i, none) == <<IfSet(Thread(i), none), Join(i), Null(Thread(i)), Mark(none)>>

StopSendStream(n, where) ==
    For([i \in 1..n |-> <<Lower(Ctrl(i))>> \o JoinIfRunning(i, <<"none_to_stop", i, where>>)
                        \o <<Of(i, Try("stop_recv", On))>>])

\* The status is asked for until the channel has nothing left to decode.
CmdNotCircleSend(n, failed) ==
    For([i \in 1..n |-> JoinIfRunning(i, <<"none_to_join", i>>) \o <<Of(i, Use({VdecChn(i)}, "query_status", failed))>>])

------------------------------------------------------------------------------
(* Callers: until a key is pressed, or until the file is decoded.          *)
VdecUp == InitVbPool(Ret) \o VdecStart(ChnNum, <<"exit", 0>>) \o StartSendStream(ChnNum)

VdecDown ==
    StopSendStream(ChnNum, 0) \o VdecStop(ChnNum, <<"exit", 0>>) \o <<Mark(<<"exit", 0>>)>> \o ExitVbPool

CircleCaller == VdecUp \o <<Key>> \o VdecDown
DecodeCaller ==
    VdecUp \o CmdNotCircleSend(ChnNum, <<"asked", 0>>) \o <<Mark(<<"asked", 0>>)>> \o VdecDown
=============================================================================
