------------------------------ MODULE SvpTasks ------------------------------
(***************************************************************************)
(* svp/common/sample_common_svp.c: the routes of the vision samples, from  *)
(* a sensor or from a file, with an output and an encoder that are there   *)
(* when their switch is on, and the memory, job and DSP helpers.  VI,      *)
(* VPSS, VO and the encoder are one object each: what happens inside their *)
(* start functions is in VioLadders and VencStream.  Then the images and   *)
(* matrices of two accelerators, sample_common_ive.c and                   *)
(* sample_common_mau.c; each starts the media system once, under a flag of *)
(* its own.                                                                *)
(***************************************************************************)
EXTENDS VdecTasks

SvpSys     == <<"svp_sys", 0>>
SvpVi      == <<"svp_vi", 0>>
SvpBind(g) == <<"svp_bind", g>>
SvpVpss(g) == <<"svp_vpss", g>>
VpssGrps   == 1..1                         \* vpss_grp_cnt
SvpVo      == <<"svp_vo", 0>>
SvpVenc    == <<"svp_venc", 0>>
GetStream  == <<"get_stream", 0>>
VoOpen     == <<"is_vo_open", 0>>
VencOpen   == <<"is_venc_open", 0>>
EndInit(n) == <<"end_init", n>>

Switches == <<Fork(<<"no_vo", 0>>), Raise(VoOpen), Mark(<<"no_vo", 0>>),
              Fork(<<"no_venc", 0>>), Raise(VencOpen), Mark(<<"no_venc", 0>>)>>

\* The body that a switch guards.
IfOn(switch, skip, body) == <<While(switch, skip)>> \o body \o <<Mark(skip)>>

\* sample_comm_sys_exit may be called when nothing is up.
VbInit(failed) == <<Take(SvpSys, failed), Try("set_vi_vpss_mode", failed)>>

\* Of several groups those below the one that failed stay; bound to a file
\* they do not.
StartVpss(failed)         == [g \in VpssGrps |-> Take(SvpVpss(g), failed)]
StopVpss                  == [g \in VpssGrps |-> Give(SvpVpss(g), On)]
ViBindMultiVpss(failed)   == [g \in VpssGrps |-> Take(SvpBind(g), failed)]
ViUnbindMultiVpss(failed) == [g \in VpssGrps |-> Give(SvpBind(g), failed)]
VpssUnbindVdec            == [g \in VpssGrps |-> Give(SvpBind(g), On)]
VpssBindVdec(failed) ==
    [g \in VpssGrps |-> Take(SvpBind(g), <<"not_bound", 0>>)]
    \o <<Jump(<<"bound", 0>>), Mark(<<"not_bound", 0>>)>> \o [g \in VpssGrps |-> Drop(SvpBind(g))]
    \o <<Jump(failed), Mark(<<"bound", 0>>)>>

StartVo(failed) == IfOn(VoOpen, <<"vo_started", 0>>, <<Take(SvpVo, failed)>>)
StopVo(n)       == IfOn(VoOpen, <<"vo_stopped", n>>, <<Give(SvpVo, On)>>)

\* An encoder that cannot be started takes the output down with it.
StartVenc(failed) ==
    LET NoVenc == <<"end_0", 0>> NoStream == <<"end_1", 0>> Done == <<"venc_started", 0>>
    IN <<While(VencOpen, Done), Try("get_gop_attr", NoVenc), Take(SvpVenc, NoVenc),
         Take(GetStream, NoStream), Jump(Done),
         Mark(NoStream), Give(SvpVenc, On), Mark(NoVenc)>>
       \o StopVo(0) \o <<Jump(failed), Mark(Done)>>

StopVenc == IfOn(VencOpen, <<"venc_stopped", 0>>, <<Give(GetStream, On), Give(SvpVenc, On)>>)

\* The result of the unbind takes the place of the one that led there.
StartViVpssVencVo ==
    VbInit(EndInit(0))
    \o <<Take(SvpVi, EndInit(1))>> \o ViBindMultiVpss(EndInit(2)) \o StartVpss(EndInit(3))
    \o StartVo(EndInit(4)) \o StartVenc(EndInit(4))
    \o <<Jump(<<"success", 0>>), Mark(EndInit(4))>> \o StopVpss
    \o <<Mark(EndInit(3))>> \o ViUnbindMultiVpss(EndInit(2))
    \o <<Give(SvpVi, On), Drop(SvpSys), Jump(<<"success", 0>>),
         Mark(EndInit(2)), Give(SvpVi, On),
         Mark(EndInit(1)), Mark(EndInit(0)), Drop(SvpSys), Jump(Ret),
         Mark(<<"success", 0>>)>>

StopViVpssVencVo ==
    StopVenc \o StopVo(1)
    \o ViUnbindMultiVpss(On) \o StopVpss \o <<Give(SvpVi, On), Drop(SvpSys)>>

\* Sent to the encoder, and if that went well to the output.
VencVoSendStream(sent) ==
    IfOn(VencOpen, <<"venc_sent", 0>>, <<Use({SvpVenc}, "venc_send_frame", sent)>>)
    \o IfOn(VoOpen, <<"vo_sent", 0>>, <<Use({SvpVo}, "vo_send_frame", sent)>>)

SvpViCaller ==
    Switches \o StartViVpssVencVo \o VencVoSendStream(<<"done", 0>>) \o <<Mark(<<"done", 0>>), Key>>
    \o StopViVpssVencVo

------------------------------------------------------------------------------
(* From a file: one decoder channel, one group, two VPSS channels with a   *)
(* pool each.                                                              *)
VpssChns  == 1..2
VbPool(c) == <<"vb_pool", c>>
Attach(c) == <<"attached", c>>

\* Pools and attachments are undone below the one that failed.
CreateVb(failed) ==
    [c \in VpssChns |-> Take(VbPool(c), <<"vb_fail_0", 0>>)]
    \o <<Jump(<<"vb_done", 0>>), Mark(<<"vb_fail_0", 0>>)>> \o [c \in VpssChns |-> Drop(VbPool(c))]
    \o <<Jump(failed), Mark(<<"vb_done", 0>>)>>
DestroyVb == [c \in VpssChns |-> Give(VbPool(c), On)]

VpssAttachVb(failed) ==
    [c \in VpssChns |-> Take(Attach(c), <<"not_attached", 0>>)]
    \o <<Jump(<<"attach_done", 0>>), Mark(<<"not_attached", 0>>)>> \o [c \in VpssChns |-> Drop(Attach(c))]
    \o <<Jump(failed), Mark(<<"attach_done", 0>>)>>
VpssDetachVb == [c \in VpssChns |-> Give(Attach(c), On)]

StartVdec(failed) ==
    InitVbPool(failed) \o VdecStart(1, <<"end_1", 1>>)
    \o <<Try("set_display_mode", <<"end_1", 1>>), Jump(<<"vdec_done", 0>>), Mark(<<"end_1", 1>>)>>
    \o ExitVbPool \o <<Jump(failed), Mark(<<"vdec_done", 0>>)>>
StopVdec(n) == VdecStop(1, <<"vdec_stopped", n>>) \o <<Mark(<<"vdec_stopped", n>>)>> \o ExitVbPool

CreateVbStartVdecVpssVo ==
    CreateVb(Ret) \o StartVdec(EndInit(1)) \o StartVpss(EndInit(2)) \o VpssAttachVb(EndInit(3))
    \o VpssBindVdec(EndInit(4)) \o StartVo(EndInit(5)) \o StartSendStream(1) \o StartVenc(EndInit(6))
    \o <<Jump(<<"success", 0>>), Mark(EndInit(6))>> \o StopSendStream(1, 0) \o StopVo(1)
    \o <<Mark(EndInit(5))>> \o VpssUnbindVdec \o <<Mark(EndInit(4))>> \o VpssDetachVb
    \o <<Mark(EndInit(3))>> \o StopVpss \o <<Mark(EndInit(2))>> \o StopVdec(0)
    \o <<Mark(EndInit(1))>> \o DestroyVb \o <<Jump(Ret), Mark(<<"success", 0>>)>>

DestroyVbStopVdecVpssVo ==
    StopVenc \o StopSendStream(1, 1) \o StopVo(2) \o VpssUnbindVdec \o VpssDetachVb
    \o StopVpss \o StopVdec(1) \o DestroyVb

SvpVdecCaller == Switches \o CreateVbStartVdecVpssVo \o <<Key>> \o DestroyVbStopVdecVpssVo

------------------------------------------------------------------------------
(* Helpers: the system, memory, a drawing job of VGS, the DSP.             *)
Vb       == <<"vb", 0>>
SysUp    == <<"sys", 0>>
Inited   == <<"g_sample_svp_init_flag", 0>>
MemInfo  == <<"mem_info", 0>>
SvpMem(k) == <<"svp_mem", k>>
VgsJob   == <<"vgs_job", 0>>
DspPower == <<"dsp_power", 0>>
DspCore  == <<"dsp_core", 0>>

CheckSysInit ==
    <<Try("sys_exit", Ret), Try("vb_exit", Ret), Try("vb_set_cfg", Ret), Take(Vb, Ret), Take(SysUp, Ret),
      Raise(Inited)>>
CheckSysExit ==
    IfOn(Inited, <<"exit", 0>>, <<Give(SysUp, <<"exit_failed", 0>>), Give(Vb, On), Mark(<<"exit_failed", 0>>)>>)
    \o <<Lower(Inited)>>

CreateMemInfo  == <<Take(MemInfo, <<"no_mem", 0>>)>>
DestroyMemInfo == <<Drop(MemInfo)>>

\* Memory that is written back by hand; the macro frees it once.
MallocMem(failed)    == <<Take(SvpMem(0), failed)>>
MallocCached(failed) == <<Take(SvpMem(1), failed)>>
FlushCache(failed)   == <<Use({SvpMem(1)}, "flush_cache", failed)>>
MmzFree(k)           == <<Drop(SvpMem(k))>>

VgsFillRect ==
    <<Take(VgsJob, <<"drawn", 0>>), Use({VgsJob}, "add_cover_task", <<"fail", 0>>),
      Use({VgsJob}, "add_cover_task", <<"fail", 0>>), Give(VgsJob, <<"fail", 0>>), Jump(<<"drawn", 0>>),
      Mark(<<"fail", 0>>), Give(VgsJob, On), Mark(<<"drawn", 0>>)>>

LoadCoreBinary ==
    <<Take(DspPower, <<"no_dsp", 0>>)>>
    \o [b \in 1..4 |-> Of(b, Use({DspPower}, "dsp_load_bin", <<"no_dsp", 0>>))]
    \o <<Take(DspCore, <<"no_dsp", 0>>)>>
UnloadCoreBinary == <<Give(DspCore, <<"no_dsp", 0>>), Give(DspPower, <<"no_dsp", 0>>)>>

HelpersCaller ==
    CheckSysInit \o CreateMemInfo
    \o MallocMem(<<"no_cached", 0>>) \o MallocCached(<<"no_cached", 0>>) \o FlushCache(<<"no_cached", 0>>)
    \o <<Mark(<<"no_cached", 0>>)>> \o MmzFree(1) \o MmzFree(0)
    \o VgsFillRect \o LoadCoreBinary \o UnloadCoreBinary
    \o <<Mark(<<"no_dsp", 0>>)>> \o DestroyMemInfo \o <<Mark(<<"no_mem", 0>>)>> \o CheckSysExit

-----------------------------------------------------------------------------
(* IVE and MAU.                                                            *)

IveSys      == <<"ive_sys", 0>>
MauSys      == <<"mau_sys", 0>>
Picture(n)  == <<"img_addr", n>>
IveMem      == <<"ive_mem_info", 0>>
IveFile     == <<"ive_fp", 0>>
DmaJob      == <<"dma_handle", 0>>
Sources     == 1..2                         \* the left and the right matrix
Matrix(s)   == <<"matrix", s>>
MatrixIdx(s) == <<"matrix_idx", s>>

\* Whatever system there was is left first; that may fail unnoticed.
IveMpiInit(failed) == <<Try("ive_sys_exit", On), Take(IveSys, failed)>>

IveCheckMpiInit(failed) ==
    LET Init == <<"ive_init", 0>> Done == <<"ive_up", 0>>
    IN <<While(IveSys, Init), Jump(Done), Mark(Init)>> \o IveMpiInit(failed) \o <<Raise(IveSys), Mark(Done)>>

\* The flag stays up with the system.
IveMpiExit ==
    LET Down == <<"ive_down", 0>> Stays == <<"ive_stays", 0>>
    IN <<While(IveSys, Down), Give(IveSys, Stays), Mark(Down), Lower(IveSys), Mark(Stays)>>

\* Row by row; a file that has ended is read from its start.
IveReadFile(n, failed) ==
    <<Use({IveFile}, "fgetc", failed), Use({IveFile}, "fseek", failed), IfSet(Picture(n), failed),
      Use({IveFile, Picture(n)}, "fread_row", failed)>>
IveWriteFile(n, failed) == <<IfSet(Picture(n), failed), Use({IveFile, Picture(n)}, "fwrite_row", failed)>>

\* One block of memory for all the planes.
SetImageAddr(n, failed) == <<Take(Picture(n), failed)>>

\* The planar types, but for the two with planes of luma and chroma, are
\* reported as created without any memory.
CreateImageFlag(n, failed) ==
    LET Done == <<"image", n>>
    IN <<Of(n, Try("image_param", failed)), Fork(Done)>> \o SetImageAddr(n, failed) \o <<Mark(Done)>>

IveCreateMemInfo(failed) == <<Take(IveMem, failed)>>

\* Only who asks for the result at once waits for the job, again after each
\* timeout.
DmaImage(src, n, instant, failed) ==
    LET Query == <<"query_dma", n>>
    IN <<IfSet(src, failed), IfSet(Picture(n), failed), Take(DmaJob, failed)>>
       \o (IF instant THEN <<Mark(Query), Fork(Query), Give(DmaJob, failed)>> ELSE <<>>)

IveCaller ==
    LET Close == <<"close", 0>> End == <<"ive_end", 0>>
    IN IveCheckMpiInit(Ret) \o CreateImageFlag(1, End) \o CreateImageFlag(2, End) \o IveCreateMemInfo(End)
       \o <<Take(IveFile, End)>> \o IveReadFile(1, Close) \o DmaImage(Picture(1), 2, TRUE, Close)
       \o IveWriteFile(2, Close) \o <<Mark(Close), Free(IveFile), Mark(End), Drop(IveMem)>>
       \o [n \in 1..2 |-> Drop(Picture(n))] \o IveMpiExit

------------------------------------------------------------------------------
MauMpiInit(failed) == <<Try("mau_sys_exit", failed), Take(MauSys, failed)>>

MauCheckMpiInit(failed) ==
    LET Init == <<"mau_init", 0>> Done == <<"mau_up", 0>>
    IN <<While(MauSys, Init), Jump(Done), Mark(Init)>> \o MauMpiInit(failed) \o <<Raise(MauSys), Mark(Done)>>

\* The flag is down even if the system is not.
MauMpiExit == <<Lower(MauSys), Give(MauSys, On)>>

CheckSrcIdxBlobInfo(s, failed) == <<IfSet(MatrixIdx(s), failed), Of(s, Try("idx_blob", failed))>>
CheckSrcBlobInfo(s, failed)    == <<IfSet(Matrix(s), failed), Of(s, Try("src_blob", failed))>>

\* A matrix may have an index or not: "with" is the set of those that do.
SetIdxInfoCheckParam(with, failed) ==
    <<Try("idx_param", failed)>>
    \o For([s \in Sources |-> IF s \in with THEN CheckSrcIdxBlobInfo(s, failed) ELSE <<>>])

\* Filled by the processor, so the cache is flushed for the accelerator.
SetIdxInfo(with, failed) ==
    SetIdxInfoCheckParam(with, failed)
    \o For([s \in Sources |-> IF s \in with THEN <<Of(s, Use({MatrixIdx(s)}, "flush_idx", failed))>> ELSE <<>>])

GenerateMatrixData(failed) ==
    For([s \in Sources |-> CheckSrcBlobInfo(s, failed)])
    \o [s \in Sources |-> Of(s, Use({Matrix(s)}, "flush_matrix", failed))]

MauCaller ==
    LET End == <<"mau_end", 0>>
    IN MauCheckMpiInit(Ret) \o [s \in Sources |-> Take(Matrix(s), End)] \o <<Take(MatrixIdx(1), End)>>
       \o GenerateMatrixData(End) \o SetIdxInfo({1}, End) \o <<Mark(End), Drop(MatrixIdx(1))>>
       \o [s \in Sources |-> Drop(Matrix(s))] \o MauMpiExit
=============================================================================
