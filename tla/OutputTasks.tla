----------------------------- MODULE OutputTasks -----------------------------
(***************************************************************************)
(* sample_comm_vo.c and sample_comm_sys.c: the outputs, the pools and the  *)
(* system they need, and the bindings between the modules.  Every output   *)
(* has a layer for the picture and one for the picture in it (PIP), each   *)
(* with two channels.                                                      *)
(***************************************************************************)
EXTENDS Tasks

Pools     == <<"vb_pools", 0>>
System    == <<"mpp_sys", 0>>
OutDev    == <<"vo_out_dev", 0>>
Layer(l)  == <<"vo_layer", l>>           \* 1 the device's own, 2 PIP, 3 one by itself
Window(l, i) == <<"vo_chn", 10 * l + i>>
Windows   == 1..2
Wbc       == <<"vo_wbc", 0>>
TxInit    == <<"out_hdmi_init", 0>>
TxOpen    == <<"out_hdmi_open", 0>>
Tx        == <<"out_hdmi", 0>>           \* HDMI runs

\* What had been there is gone: both exits come first.
SysInit(failed) ==
    LET Undo == <<"sys_init", 0>> Done == <<"sys_inited", 0>>
    IN <<Try("vb_set_cfg", failed), Take(Pools, failed), Take(System, Undo), Jump(Done),
         Mark(Undo), Give(Pools, On), Jump(failed), Mark(Done)>>

\* Here the pools stay when the system cannot be initialised.
SysInitWithVbSupplement(failed) ==
    <<Try("vb_set_cfg", failed), Try("vb_set_supplement_cfg", failed), Take(Pools, failed), Take(System, failed)>>

SysExit == <<Give(System, On), Try("exit_mod_common_pool", On), Give(Pools, On)>>

\* A module's memory, device by device and channel by channel.
SetModuleMemConfig(mod, failed) == <<Of(mod, Try("set_mem_cfg", failed))>>
MemConfig(failed) == For([mod \in 1..2 |-> SetModuleMemConfig(mod, failed)])

------------------------------------------------------------------------------
(* A binding is one call of the system for a source and a destination.     *)
FromVi   == <<<<"vi", "vo">>, <<"vi", "vpss">>, <<"vi", "venc">>>>
FromAvs  == <<<<"avs", "venc">>, <<"avs", "vo">>>>
FromVpss == <<<<"vpss", "vo">>, <<"vpss", "avs">>, <<"vpss", "venc">>>>
ToOthers == <<<<"vdec", "vpss">>, <<"vo", "vo">>>>
Pairs    == FromVi \o FromAvs \o FromVpss \o ToOthers
Bound(p)   == <<"bound", p>>             \* the p-th of the pairs

BindPair(p, failed) == <<Take(Bound(p), failed)>>

\* Only the destination says which binding of VO to VO is meant.
UnbindPair(p) == <<Give(Bound(p), On)>>

BindCaller ==
    LET Undo(p) == <<"bind_failed", p>> n == Len(Pairs)
    IN SysInitWithVbSupplement(Ret) \o MemConfig(Undo(1))
       \o For([p \in 1..n |-> BindPair(p, Undo(p))]) \o <<Key>>
       \o For([k \in 1..n |-> UnbindPair(n + 1 - k) \o <<Mark(Undo(n + 1 - k))>>]) \o SysExit

------------------------------------------------------------------------------
StartDev(failed) ==
    LET Known == <<"known_sync", 0>>
    IN <<Try("vo_set_pub_attr", failed), Fork(Known), Try("vo_user_sync_info", failed),
         Try("vo_dev_frame_rate", failed), Mark(Known), Take(OutDev, failed)>>
StopDev(failed) == <<Give(OutDev, failed)>>

StartLayer(l, failed) == <<Of(l, Try("vo_set_layer_attr", failed)), Take(Layer(l), failed)>>
StopLayer(l, failed)  == <<Give(Layer(l), failed)>>

\* The channels before the one that failed stay enabled.
StartChn(l, failed) ==
    <<Of(l, Use({Layer(l)}, "vo_get_layer_attr", failed))>>
    \o For([i \in Windows |-> <<Of(l, Use({Layer(l)}, "vo_set_chn_attr", failed)), Take(Window(l, i), failed)>>])
StopChn(l, failed) == [i \in Windows |-> Give(Window(l, i), failed)]

\* Up to the first failure, there and back.
HdmiStart(failed) ==
    <<Take(TxInit, failed), Take(TxOpen, failed), Use({TxOpen}, "out_hdmi_attr", failed), Take(Tx, failed)>>
HdmiStop(failed) == <<Give(Tx, failed), Give(TxOpen, failed), Give(TxInit, failed)>>

\* Two calls whose results are not looked at.
SetIntfParam == <<Use({OutDev}, "vo_hdmi_param", On)>>

\* What becomes of HDMI is not looked at.
OutStartVo(failed) ==
    LET NoLayer == <<"no_layer", 1>> NoChn == <<"no_chn", 1>> Up == <<"out_up", 1>>
    IN StartDev(failed) \o <<Try("vo_layer_attr", NoLayer)>> \o StartLayer(1, NoLayer) \o SetIntfParam
       \o StartChn(1, NoChn) \o HdmiStart(Up) \o <<Jump(Up), Mark(NoChn)>> \o StopLayer(1, On)
       \o <<Mark(NoLayer)>> \o StopDev(On) \o <<Jump(failed), Mark(Up)>>

OutStopVo(failed) ==
    LET NoHdmi == <<"hdmi_stopped", 0>>
    IN HdmiStop(NoHdmi) \o <<Mark(NoHdmi)>> \o StopChn(1, failed) \o StopLayer(1, failed) \o StopDev(failed)

\* Each failure stops the device the layer is shown on, which is not PIP's.
StartPip(failed) ==
    LET NoLayer == <<"no_layer", 2>> NoChn == <<"no_chn", 2>> Up == <<"out_up", 2>>
    IN <<Try("vo_pip_size", NoLayer)>> \o StartLayer(2, NoLayer) \o StartChn(2, NoChn)
       \o <<Jump(Up), Mark(NoChn)>> \o StopLayer(2, On) \o <<Mark(NoLayer)>> \o StopDev(On) \o <<Jump(failed), Mark(Up)>>

StopPip(failed) == StopChn(2, failed) \o StopLayer(2, failed)

StartWbc(failed) ==
    LET NoDepth == <<"no_depth", 0>>
    IN <<Fork(NoDepth), Try("vo_wbc_depth", failed), Mark(NoDepth),
         Use({OutDev}, "vo_wbc_src", failed), Try("vo_wbc_attr", failed), Take(Wbc, failed)>>
StopWbc == <<Give(Wbc, On)>>

StartLayerChn(failed) ==
    LET NoChn == <<"no_chn", 3>> Up == <<"out_up", 3>>
    IN <<Try("vo_layer_size", failed)>> \o StartLayer(3, failed) \o StartChn(3, NoChn)
       \o <<Jump(Up), Mark(NoChn)>> \o StopLayer(3, On) \o <<Jump(failed), Mark(Up)>>
StopLayerChn(failed) == StopChn(3, failed) \o StopLayer(3, failed)

\* The picture, the picture in it and what is written back of both; another
\* layer.
OutputCaller ==
    LET NoWbc == <<"no_wbc", 0>> NoPip == <<"no_pip", 0>> NoVo == <<"no_out", 0>>
    IN SysInit(Ret) \o OutStartVo(NoVo) \o StartPip(NoPip) \o StartWbc(NoWbc) \o <<Key>> \o StopWbc
       \o <<Mark(NoWbc)>> \o StopPip(NoPip) \o <<Mark(NoPip)>> \o OutStopVo(NoVo) \o <<Mark(NoVo)>> \o SysExit

LayerCaller == StartLayerChn(Ret) \o <<Key>> \o StopLayerChn(Ret)
=============================================================================
