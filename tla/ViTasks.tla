------------------------------ MODULE ViTasks ------------------------------
(***************************************************************************)
(* The two threads of sample_comm_vi.c that send frames to a VI pipe: the  *)
(* frames of two WDR pipes, dumped, matched by their time and sent back,   *)
(* and the dark frames of an FPN calibration.  Then the pipes that are fed *)
(* from memory with sample_comm_isp.c: a pipe's ISP runs in a thread of    *)
(* its own, inside one call that returns when the ISP is left; pipe i has  *)
(* thread i.                                                               *)
(***************************************************************************)
EXTENDS Tasks

CONSTANT TryTime      \* try_time: how often a pair that does not match is looked at

SendPipe   == <<"g_send_pipe_pthread", 0>>
Frame(p)   == <<"frame", p>>
UserSource == <<"source", 0>>              \* the pipe takes its frames from the user
Send       == <<"send", 0>>
Release(p) == <<"release", p>>             \* the release loop, from i = p downwards

\* Of a pair whose times differ too much the older frame is given back and
\* taken anew.  What is looked at is equal enough, or pipe 1 is older, or 0.
MatchWdrPts ==
    LET Older1(n) == <<"older1", n>>
        Again(n)  == <<"again", n>>
        Look(n) == <<Fork(Send), Fork(Older1(n)),
                     Give(Frame(0), On), Retake(Frame(0), Release(1)), Jump(Again(n)),
                     Mark(Older1(n)), Give(Frame(1), On), Retake(Frame(1), Release(1)),
                     Mark(Again(n))>>
    IN For([n \in 1..TryTime |-> Look(n)]) \o <<Jump(Release(1))>>

SendPipeWdrFrame ==
    <<Use({}, "isp_run_once", Release(1)), Use({Frame(0), Frame(1)}, "send_pipe_raw", Release(1)),
      Use({}, "wait_be_end", Release(1))>>

WdrDumpAndSendProc ==
    <<Try("dump_attr", Ret), Try("dump_attr", Ret), Take(UserSource, Ret),
      Mark(Loop), While(SendPipe, Ret), Take(Frame(0), Loop), Take(Frame(1), Release(0))>>
    \o MatchWdrPts \o <<Mark(Send)>> \o SendPipeWdrFrame
    \o <<Mark(Release(1)), Give(Frame(1), On), Mark(Release(0)), Give(Frame(0), On), Jump(Loop)>>

SendWdrFrame ==
    <<Raise(SendPipe), Create(1, <<"no_thread", 0>>), Key, Lower(SendPipe), Join(1), Jump(Ret),
      Mark(<<"no_thread", 0>>), Lower(SendPipe)>>

------------------------------------------------------------------------------
(* FPN calibration: the thread reads the caller's frames and the parameter *)
(* block on the caller's stack.                                            *)
Dark == <<"dark_frames", 0>>
Info == <<"send_frame_info", 0>>
Chn  == <<"vi_chn", 0>>

SendPipeFrameProc ==
    <<Take(UserSource, Ret), Mark(Loop), While(SendPipe, <<"end", 0>>), Fork(Loop),
      Use({Dark, Info}, "send_pipe_raw", Loop), Jump(Loop), Mark(<<"end", 0>>), Give(UserSource, Ret)>>

FpnCalibrateProcess ==
    <<Use({Dark}, "first_calibrate", <<"exit", 0>>), Local(Info),
      Raise(SendPipe), Create(1, <<"no_thread", 0>>),
      Use({Dark}, "second_calibrate", <<"join", 0>>),
      Mark(<<"join", 0>>), Lower(SendPipe), Join(1), Jump(<<"leave", 0>>),
      Mark(<<"no_thread", 0>>), Lower(SendPipe),
      Mark(<<"leave", 0>>), Drop(Info)>>

FpnCalibrate ==
    <<Key, Give(Chn, Ret), Take(Dark, <<"enable", 0>>)>> \o FpnCalibrateProcess
    \o <<Use({Dark}, "save_fpn_file", <<"exit", 0>>), Mark(<<"exit", 0>>), Drop(Dark),
         Mark(<<"enable", 0>>), Take(Chn, Ret)>>

------------------------------------------------------------------------------
(* FPN correction for a scene: the frame it is read into has a pool of its *)
(* own, a block of it and a mapping.                                       *)
ScenePool == <<"fpn_pool", 0>>
SceneBlk  == <<"fpn_blk", 0>>
SceneMap  == <<"fpn_virt_addr", 0>>
SceneFile == <<"fpn_file", 0>>

GetFrameBlk(failed) ==
    LET NoMap == <<"no_mmap", 0>> NoBlk == <<"no_blk", 0>> Got == <<"fpn_frame", 0>>
    IN <<Take(ScenePool, failed), Take(SceneBlk, NoBlk), Take(SceneMap, NoMap), Jump(Got),
         Mark(NoMap), Give(SceneBlk, On), Mark(NoBlk), Give(ScenePool, On), Jump(failed), Mark(Got)>>

ReleaseFrameBlk == <<Give(SceneMap, On), Give(SceneBlk, On), Give(ScenePool, On)>>

\* The ISP takes the frame: it is used until the correction is off.
SetFpnAttr(enable, failed) == <<Of(enable, Use({SceneBlk}, "fpn_set_attr", failed))>>

\* A file that is not there gives the frame back and counts as success; a name
\* that cannot be written keeps it.
EnableFpnForScene(failed) ==
    LET Exit == <<"scene_exit", 0>> NoFile == <<"no_fpn_file", 0>> Done == <<"scene_on", 0>>
    IN <<Try("fpn_pipe_attr", failed)>> \o GetFrameBlk(failed)
       \o <<Try("fpn_file_name_iso", failed), Take(SceneFile, NoFile), Use({SceneFile, SceneMap}, "fread_fpn", On),
            Free(SceneFile), Try("fclose_fpn", Exit)>>
       \o SetFpnAttr(1, Exit) \o <<Jump(Done), Mark(Exit)>> \o ReleaseFrameBlk \o <<Jump(failed), Mark(NoFile)>>
       \o ReleaseFrameBlk \o <<Mark(Done)>>

\* The frame stays when the correction cannot be turned off.
DisableFpnCorrection ==
    <<Try("fpn_get_attr", Ret)>> \o SetFpnAttr(0, Ret) \o ReleaseFrameBlk

SceneCaller == EnableFpnForScene(Ret) \o <<Key>> \o DisableFpnCorrection

-----------------------------------------------------------------------------
(* The ISP of a pipe.                                                      *)

IspPipes    == 1..2
MemPipe(i)  == <<"mem_pipe", i>>
PipeRuns(i) == <<"pipe_runs", i>>
PipeChn(i)  == <<"pipe_chn", i>>
Sensor(i)   == <<"g_sns_type", i>>
AeLib(i)    == <<"ae_lib", i>>
AwbLib(i)   == <<"awb_lib", i>>
Isp(i)      == <<"isp", i>>
IspInit(i)  == <<"isp_init", i>>            \* up from isp_init to isp_exit
Way(i, n)   == 10 * i + n                   \* the n-th text about pipe i

StartMemPipe(i, failed) ==
    LET NoChn == <<"no_pipe_chn", i>> NoStart == <<"no_pipe_start", i>> Up == <<"pipe_up", i>>
    IN <<Take(MemPipe(i), failed), Take(PipeRuns(i), NoStart), Take(PipeChn(i), NoChn), Jump(Up),
         Mark(NoChn), Give(PipeRuns(i), On), Mark(NoStart), Give(MemPipe(i), On), Jump(failed), Mark(Up)>>
StopMemPipe(i) == <<Give(PipeChn(i), On), Give(PipeRuns(i), On), Give(MemPipe(i), On)>>

SensorRegiterCallback(i, failed) == <<Take(Sensor(i), failed)>>
SensorUnregiterCallback(i)       == <<Give(Sensor(i), On)>>
BindSns(i, failed)               == <<Of(i, Use({Sensor(i)}, "set_bus_info", failed))>>
AeLibCallback(i, failed)         == <<Take(AeLib(i), failed)>>
AeLibUncallback(i)               == <<Give(AeLib(i), On)>>
AwbLibCallback(i, failed)        == <<Take(AwbLib(i), failed)>>
AwbLibUncallback(i)              == <<Give(AwbLib(i), On)>>

RegisterLibs(i, failed) ==
    LET Exit1 == <<"lib_exit1", i>> Exit0 == <<"lib_exit0", i>> Done == <<"libs", i>>
    IN SensorRegiterCallback(i, failed) \o BindSns(i, Exit0) \o AeLibCallback(i, Exit0) \o AwbLibCallback(i, Exit1)
       \o <<Jump(Done), Mark(Exit1)>> \o AeLibUncallback(i) \o <<Mark(Exit0)>> \o SensorUnregiterCallback(i)
       \o <<Jump(failed), Mark(Done)>>
DeregisterLibs(i) == AwbLibUncallback(i) \o AeLibUncallback(i) \o SensorUnregiterCallback(i)

\* It fails at once, or comes back when the ISP is left, which may be before
\* the thread has come to it: nobody waits for the thread to run.
IspThread(i) ==
    <<Of(i, Try("isp_run", Ret)), Mark(Loop), While(IspInit(i), Ret), Jump(Loop)>>

IspRun(i, failed) == <<Create(i, failed)>>

ExitIsp(i, n) ==
    LET Stays == <<"isp_stays", Way(i, n)>>
    IN <<Give(Isp(i), Stays), Lower(IspInit(i)), Mark(Stays)>>

\* Waits for the thread; no one else ends it.
IspStop(i, n) ==
    LET None == <<"no_isp_pid", Way(i, n)>>
    IN <<IfSet(Thread(i), None), Join(i), Null(Thread(i)), Mark(None)>>

\* A failed isp_init is a return on the spot.
StartPipeIsp(i, failed) ==
    LET Exit1 == <<"isp_exit1", i>> Exit0 == <<"isp_exit0", i>> Done == <<"isp_up", i>>
    IN RegisterLibs(i, failed)
       \o <<Take(Isp(i), Exit0), Of(i, Use({Isp(i)}, "isp_set_pub_attr", Exit1)),
            Of(i, Use({Isp(i)}, "isp_init", failed)), Raise(IspInit(i))>>
       \o IspRun(i, Exit1) \o <<Jump(Done), Mark(Exit1)>> \o ExitIsp(i, 1)
       \o <<Mark(Exit0)>> \o DeregisterLibs(i) \o <<Jump(failed), Mark(Done)>>

StopPipeIsp(i, n) == ExitIsp(i, n) \o IspStop(i, n) \o DeregisterLibs(i)

StartPipes(failed) ==
    LET Failed(i) == <<"pipe_failed", i>> Done == <<"pipes_up", 0>>
    IN StartMemPipe(1, failed) \o StartMemPipe(2, Failed(2))
       \o <<Jump(Done), Mark(Failed(2))>> \o StopMemPipe(1) \o <<Jump(failed), Mark(Done)>>

\* Stopped from the last to the first, started ISPs from the first.
StopPipes == StopMemPipe(2) \o StopMemPipe(1)

StartIsps(failed) ==
    LET Failed == <<"isp_failed", 0>> Done == <<"isps_up", 0>>
    IN StartPipeIsp(1, failed) \o StartPipeIsp(2, Failed)
       \o <<Jump(Done), Mark(Failed)>> \o StopPipeIsp(1, 2) \o <<Jump(failed), Mark(Done)>>
StopIsps == For([i \in IspPipes |-> StopPipeIsp(i, 3)])

StartVirtPipe ==
    LET NoIsp == <<"start_isp_failed", 0>> Done == <<"virt_up", 0>>
    IN StartPipes(Ret) \o StartIsps(NoIsp) \o <<Jump(Done), Mark(NoIsp)>> \o StopPipes \o <<Jump(Ret), Mark(Done)>>
StopVirtPipe == StopIsps \o StopPipes

VirtPipeCaller == StartVirtPipe \o <<Key>> \o StopVirtPipe
=============================================================================
