---------------------------- MODULE VioLadders ----------------------------
(* The start and stop functions behind the routes of sample_vio, as        *)
(* ladders.  A C function of the form "call, test, goto label" is          *)
(*   climb    its calls in order; each names what it acts on and where a   *)
(*            failure lands: 0 the result is ignored, k the k-th call of   *)
(*            the descent, Leave the return statement;                     *)
(*   descent  the calls under its labels, results ignored;                 *)
(*   finish   what runs after a climb without failure: nothing in a start  *)
(*            function, the way down in a route.                           *)
(* Attributes, sizes and formats are left out; a call that only sets them  *)
(* is a Set, and is kept where its failure is tested.                      *)
EXTENDS Naturals, Sequences, SequencesExt

CONSTANT MaxDev       \* OT_VI_MAX_DEV_NUM, the devices of the four-sensor route

ASSUME LadderAssumption == MaxDev \in Nat /\ MaxDev > 2

Leave == 99

Step(op, kind, n, land) == [op |-> op, what |-> <<kind, n>>, land |-> land]
Start(kind, n, land)    == Step("start", kind, n, land)  \* brings an object up
Stop(kind, n, land)     == Step("stop", kind, n, land)   \* takes it down
Set(kind, n, land)      == Step("set", kind, n, land)    \* may fail, holds nothing
Call(name, n, land)     == Step("call", name, n, land)
Join(kind, n)           == Step("join", kind, n, 0)      \* if it runs, end it
Wait(pipe)              == Step("wait", "isp", pipe, 0)  \* poll until the ISP has switched
Key                     == Step("key", "key", 0, 0)

Ladder(climb, descent, finish) == [climb |-> climb, descent |-> descent, finish |-> finish]
Rungs(climb, descent)  == Ladder(climb, descent, <<>>)
Sweep(steps)           == Ladder(steps, <<>>, <<>>)

\* "for (...) { if (start(i)) goto exit; } ... exit: for (i = i - 1; ...) stop(i)"
Each(n, Do(_))    == [i \in 1..n |-> Do(i)]
Back(n, Do(_))    == [i \in 1..n |-> Do(n + 1 - i)]
Unwind(n, i)      == n + 2 - i

------------------------------------------------------------------------------
(* The configurations of VI: one pipe, two pipes for WDR, the same without *)
(* ISP threads, the second sensor, and one per device.                     *)
Linear == 0
Wdr == 1
WdrSend == 2
Second == 3
Four(i) == 10 + i

ViCfg(c) ==
    CASE c = Linear  -> [dev |-> 0, clk |-> 0, pipes |-> <<0>>, run |-> TRUE]
      [] c = Wdr     -> [dev |-> 0, clk |-> 0, pipes |-> <<0, 1>>, run |-> TRUE]
      [] c = WdrSend -> [dev |-> 0, clk |-> 0, pipes |-> <<0, 1>>, run |-> FALSE]
      [] c = Second  -> [dev |-> 2, clk |-> 1, pipes |-> <<1>>, run |-> TRUE]
      [] OTHER       -> [dev |-> c - 10, clk |-> c - 10, pipes |-> <<c - 10>>, run |-> TRUE]

Dev(c) == ViCfg(c).dev
Pipes(c) == ViCfg(c).pipes

\* The ISP runs on the first pipe only when several are fused.
IspPipe(c) == Pipes(c)[1]

\* It first takes down what a process before it may have left: nothing here.
SysInit == Rungs(<<Start("vb", 0, Leave), Start("sys", 0, Leave), Call("set_vi_vpss_mode", 0, Leave)>>, <<>>)

SetViVpssMode == Rungs(<<Set("vi_vpss_mode", 0, Leave), Set("vi_video_mode", 0, Leave)>>, <<>>)

SysExit == Sweep(<<Stop("sys", 0, 0), Stop("vb", 0, 0)>>)

\* "mipi_attr" is each of the settings after the sensor clock: they hold
\* nothing and a failure of any of them returns at the same place.
StartMipiRx(c) ==
    Rungs(<<Set("mipi_mode", Dev(c), Leave), Start("mipi_clk", Dev(c), Leave),
            Set("mipi_reset", Dev(c), Leave), Start("sns_clk", ViCfg(c).clk, Leave),
            Set("mipi_attr", Dev(c), Leave)>>, <<>>)

StopMipiRx(c) == Sweep(<<Stop("mipi_clk", Dev(c), 0), Stop("sns_clk", ViCfg(c).clk, 0)>>)

\* No configuration enables BAS.
StartDev(dev) == Rungs(<<Set("dev_attr", dev, Leave), Start("dev", dev, Leave)>>, <<>>)

StopDev(dev) == Sweep(<<Stop("dev", dev, 0)>>)

\* One fusion group for all pipes of the device.
SetGrpInfo(dev) == Rungs(<<Set("grp_attr", dev, Leave)>>, <<>>)

DevBindPipe(c) ==
    LET n == Len(Pipes(c))
        Bind(i) == Start("vi_bind", Pipes(c)[i], Unwind(n, i))
        Unbind(i) == Stop("vi_bind", Pipes(c)[i], 0)
    IN Rungs(Each(n, Bind), Back(n, Unbind))

DevUnbindPipe(c) ==
    LET Unbind(i) == Stop("vi_bind", Pipes(c)[i], 0)
    IN Sweep(Each(Len(Pipes(c)), Unbind))

StartOnePipe(p) ==
    Rungs(<<Start("pipe", p, Leave), Start("pipe_run", p, 2), Start("vi_chn", p, 1)>>,
          <<Stop("pipe_run", p, 0), Stop("pipe", p, 0)>>)

StopOnePipe(p) == Sweep(<<Stop("vi_chn", p, 0), Stop("pipe_run", p, 0), Stop("pipe", p, 0)>>)

\* The four loops over the pipes of a configuration.
OverPipes(c, starter) ==
    LET n == Len(Pipes(c))
        Up(i) == Call(starter, Pipes(c)[i], Unwind(n, i))
        Down(i) == Call("stop_one_pipe", Pipes(c)[i], 0)
    IN Rungs(Each(n, Up), Back(n, Down))

StartPipe(c) == OverPipes(c, "start_one_pipe")

StopPipe(c) ==
    LET Down(i) == Call("stop_one_pipe", Pipes(c)[i], 0)
    IN Sweep(Back(Len(Pipes(c)), Down))

------------------------------------------------------------------------------
(* The ISP of a pipe.                                                      *)
RegisterSensorLib(p) ==
    Rungs(<<Start("sns", p, Leave), Set("sns_bus", p, 2), Start("ae", p, 2), Start("awb", p, 1)>>,
          <<Stop("ae", p, 0), Stop("sns", p, 0)>>)

DeregisterSensorLib(p) == Sweep(<<Stop("awb", p, 0), Stop("ae", p, 0), Stop("sns", p, 0)>>)

\* ss_mpi_isp_exit gives back the memory and the ISP in it.
StartOnePipeIsp(p, run) ==
    Rungs(<<Call("register_sensor_lib", p, Leave), Start("isp_mem", p, 2), Set("isp_pub_attr", p, 1),
            Start("isp", p, Leave)>> \o (IF run THEN <<Start("isp_thread", p, 1)>> ELSE <<>>),
          <<Stop("isp_mem", p, 0), Call("deregister_sensor_lib", p, 0)>>)

\* Mutant: the thread is joined before its ISP is told to exit.
StopOnePipeIsp_JoinsFirst(p) ==
    Sweep(<<Join("isp_thread", p), Stop("isp_mem", p, 0), Call("deregister_sensor_lib", p, 0)>>)

StopOnePipeIsp(p) ==
    Sweep(<<Stop("isp_mem", p, 0), Join("isp_thread", p), Call("deregister_sensor_lib", p, 0)>>)

StartIsp(c) ==
    Rungs(<<Call(IF ViCfg(c).run THEN "start_one_pipe_isp" ELSE "start_one_pipe_isp_norun",
                 IspPipe(c), Leave)>>, <<>>)

StopIsp(c) == Sweep(<<Call("stop_one_pipe_isp", IspPipe(c), 0)>>)

StartVi(c) ==
    Rungs(<<Call("start_mipi_rx", c, Leave), Call("start_dev", Dev(c), 4), Call("dev_bind_pipe", c, 3),
            Call("set_grp_info", Dev(c), 2), Call("start_pipe", c, 2), Call("start_isp", c, 1)>>,
          <<Call("stop_pipe", c, 0), Call("dev_unbind_pipe", c, 0), Call("stop_dev", Dev(c), 0),
            Call("stop_mipi_rx", c, 0)>>)

StopVi(c) ==
    Sweep(<<Call("stop_isp", c, 0), Call("stop_pipe", c, 0), Call("dev_unbind_pipe", c, 0),
            Call("stop_dev", Dev(c), 0), Call("stop_mipi_rx", c, 0)>>)

StopFourVi(n) ==
    LET Down(i) == <<Call("stop_isp", Four(i - 1), 0), Call("stop_pipe", Four(i - 1), 0),
                     Call("dev_unbind_pipe", Four(i - 1), 0), Call("stop_dev", i - 1, 0)>>
        Mipi(i) == Call("stop_mipi_rx", Four(i - 1), 0)
    IN Sweep(FlattenSeq(Each(n, Down)) \o Each(n, Mipi))

\* Switching the mode keeps the ISP over the restart of everything else.
ModeSwitchStopVi(c) ==
    Sweep(<<Call("stop_pipe", c, 0), Call("dev_unbind_pipe", c, 0),
            Call("stop_dev", Dev(c), 0), Call("stop_mipi_rx", c, 0)>>)

ModeSwitchStartOnePipe(p) ==
    Rungs(<<Start("pipe", p, Leave), Set("chn_attr", p, 1)>>, <<Stop("pipe_run", p, 0)>>)

ModeSwitchStartPipe(c) == OverPipes(c, "mode_switch_start_one_pipe")

ModeSwitchStartVi(c) ==
    Rungs(<<Call("start_mipi_rx", c, Leave), Call("start_dev", Dev(c), 4), Call("dev_bind_pipe", c, 3),
            Call("set_grp_info", Dev(c), 2), Call("mode_switch_start_pipe", c, 2), Call("switch_isp", c, 1)>>,
          <<Call("stop_pipe", c, 0), Call("dev_unbind_pipe", c, 0), Call("stop_dev", Dev(c), 0),
            Call("stop_mipi_rx", c, 0)>>)

\* Both attribute calls stop the ISP when they fail and go on; the function
\* reports success whatever happened.
SwitchIsp(c) ==
    Sweep(<<Call("get_pub_attr", c, 0), Call("set_pub_attr", c, 0), Wait(IspPipe(c)),
            Call("start_pipe_chn_or_unbind", c, 0)>>)

PubAttr(c, name) == Rungs(<<Set(name, IspPipe(c), 1)>>, <<Call("stop_isp", c, 0)>>)

StartPipeChnOrUnbind(c) ==
    Rungs(<<Call("mode_switch_start_pipe_chn", c, 1)>>, <<Call("dev_unbind_pipe", c, 0)>>)

ModeSwitchStartPipeChn(c) == OverPipes(c, "mode_switch_start_one_pipe_chn")

ModeSwitchStartOnePipeChn(p) ==
    Rungs(<<Start("pipe_run", p, 2), Start("vi_chn", p, 1)>>,
          <<Stop("pipe_run", p, 0), Stop("pipe", p, 0)>>)

------------------------------------------------------------------------------
(* VPSS, VO and the encoder.                                               *)
VpssStartChn(g) ==
    Rungs(<<Start("vpss_chn0", g, Leave), Start("vpss_chn1", g, 1)>>, <<Stop("vpss_chn0", g, 0)>>)

VpssStart(g) ==
    Rungs(<<Start("grp", g, Leave), Start("grp_run", g, 2), Call("vpss_start_chn", g, 1)>>,
          <<Stop("grp_run", g, 0), Stop("grp", g, 0)>>)

VpssStopBoth(g) ==
    Sweep(<<Stop("vpss_chn0", g, 0), Stop("vpss_chn1", g, 0), Stop("grp_run", g, 0), Stop("grp", g, 0)>>)

StartVpss(g) ==
    Rungs(<<Call("vpss_start", g, Leave), Set("low_delay", g, 1)>>, <<Call("vpss_stop_both", g, 0)>>)

StopVpss(g) == Sweep(<<Stop("vpss_chn0", g, 0), Stop("grp_run", g, 0), Stop("grp", g, 0)>>)

\* VO_MODE_2MUX for one group, VO_MODE_4MUX for more.
Windows(n) == IF n > 1 THEN 4 ELSE 2

VoStartChn(n) ==
    LET Up(i) == Start("vo_chn", i - 1, Leave) IN Rungs(Each(Windows(n), Up), <<>>)

VoStopChn(n) ==
    LET Down(i) == Stop("vo_chn", i - 1, Leave) IN Sweep(Each(Windows(n), Down))

HdmiStart ==
    Rungs(<<Start("hdmi_init", 0, Leave), Start("hdmi_open", 0, Leave), Start("hdmi_run", 0, Leave)>>, <<>>)

HdmiStop ==
    Sweep(<<Stop("hdmi_run", 0, Leave), Stop("hdmi_open", 0, Leave), Stop("hdmi_init", 0, Leave)>>)

StartVo(n) ==
    Rungs(<<Start("vo_dev", 0, Leave), Start("vo_layer", 0, 2), Call("vo_start_chn", n, 1),
            Call("hdmi_start", 0, 0)>>,
          <<Stop("vo_layer", 0, 0), Stop("vo_dev", 0, 0)>>)

StopVo(n) ==
    Sweep(<<Call("hdmi_stop", 0, 0), Call("vo_stop_chn", n, Leave), Stop("vo_layer", 0, Leave),
            Stop("vo_dev", 0, Leave)>>)

CommVencStart(i) == Rungs(<<Start("venc", i, Leave), Start("venc_recv", i, Leave)>>, <<>>)

CommVencStop(i) == Sweep(<<Stop("venc_recv", i, 0), Stop("venc", i, 0)>>)

StartVenc(n) ==
    LET Up(i) == Call("comm_venc_start", i - 1, Unwind(n, i))
        Down(i) == Call("comm_venc_stop", i - 1, 0)
    IN Rungs(Append(Each(n, Up), Start("venc_thread", 0, 1)), Back(n, Down))

StopGetStream(n) ==
    LET Down(i) == Stop("venc_recv", i - 1, Leave)
    IN Sweep(Append(Each(n, Down), Join("venc_thread", 0)))

StopVenc(n) ==
    LET Down(i) == Call("comm_venc_stop", i - 1, 0)
    IN Sweep(<<Call("stop_get_stream", n, 0)>> \o Each(n, Down))

StartVencAndVo(n) ==
    LET Bind(i) == <<Start("vpss_vo", i - 1, 0), Start("vpss_venc", i - 1, 0)>>
    IN Rungs(<<Call("start_vo", n, Leave), Call("start_venc", n, 1)>> \o FlattenSeq(Each(n, Bind)),
             <<Call("stop_vo", n, 0)>>)

StopVencAndVo(n) ==
    LET Unbind(i) == <<Stop("vpss_vo", i - 1, 0), Stop("vpss_venc", i - 1, 0)>>
    IN Sweep(FlattenSeq(Each(n, Unbind)) \o <<Call("stop_venc", n, 0), Call("stop_vo", n, 0)>>)

------------------------------------------------------------------------------
(* Frames taken from pools of their own: number 0 the dark frames of a     *)
(* calibration, 1 its result, 2 the correction, 3 and 4 the user picture   *)
(* and the file it is scaled from.                                         *)
GetFrames(k) == Rungs(<<Start("pool", k, Leave), Start("blk", k, 1)>>, <<Stop("pool", k, 0)>>)

ReleaseFrames(k) == Sweep(<<Stop("blk", k, 0), Stop("pool", k, 0)>>)

\* One call releases the blocks of both pools and destroys the first pool.
ReleaseCalib == Sweep(<<Stop("blk", 0, 0), Stop("blk", 1, 0), Stop("pool", 0, 0)>>)

GetCalibFrames ==
    Rungs(<<Call("get_frames", 0, Leave), Call("get_frames", 1, 1)>>, <<Call("release_calib", 0, 0)>>)

CalibrateProcess ==
    LET down == <<Stop("send_thread", 0, 0)>>
    IN Ladder(<<Set("calib1", 0, Leave), Start("send_thread", 0, Leave), Set("calib2", 0, 1)>>, down, down)

FpnCalibrate ==
    LET down == <<Call("release_calib", 0, 0), Start("vi_chn", 0, 0)>>
    IN Ladder(<<Key, Stop("vi_chn", 0, Leave), Call("get_calib_frames", 0, 2),
                Call("calibrate_process", 0, 1), Set("fpn_save", 0, 1)>>, down, down)

EnableFpn ==
    Rungs(<<Call("get_frames", 2, Leave), Set("fpn_load", 0, 1), Set("fpn_on", 0, 1)>>,
          <<Call("release_frames", 2, 0)>>)

DisableFpn == Sweep(<<Set("fpn_off", 0, Leave), Call("release_frames", 2, 0)>>)

RestartGetStream ==
    Rungs(<<Start("venc_recv", 0, Leave), Start("venc_thread", 0, Leave)>>, <<>>)

CalibrateAndCorrect ==
    Sweep(<<Call("stop_get_stream", 1, 0), Call("fpn_calibrate", 0, 0), Key,
            Call("restart_get_stream", 0, 0), Call("enable_fpn", 0, 0)>>)

SendWdr == Sweep(<<Start("wdr_thread", 0, Leave), Key, Stop("wdr_thread", 0, 0)>>)

\* A job of the VGS: cancelled only when its end fails.
VgsJob == Rungs(<<Start("vgs_job", 0, Leave), Set("vgs_task", 0, Leave), Stop("vgs_job", 0, 1)>>,
                <<Stop("vgs_job", 0, 0)>>)

ReadUserFrame ==
    LET down == <<Call("release_frames", 4, 0)>>
    IN Ladder(<<Call("get_frames", 4, Leave), Set("pic_file", 0, 1), Call("vgs_job", 0, 1)>>, down, down)

LoadUserPic(k) ==
    Rungs(<<Set("pipe_attr", 0, Leave), Call("get_frames", 3, Leave),
            Call(IF k = 0 THEN "read_user_frame" ELSE "vgs_job", 0, 1)>>,
          <<Call("release_frames", 3, 0)>>)

UserPic(k) ==
    Sweep(<<Call("load_user_pic", k, Leave), Key, Start("user_pic", 0, 0), Key, Stop("user_pic", 0, 0),
            Call("release_frames", 3, 0)>>)

SwitchUserPic == Sweep(<<Call("user_pic_one", 0, Leave), Call("user_pic_one", 1, Leave)>>)

------------------------------------------------------------------------------
(* The routes.                                                             *)
OneRoute(c, body) ==
    LET down == <<Call("stop_vpss", 0, 0), Stop("vi_vpss", 0, 0), Call("stop_vi", c, 0), Call("sys_exit", 0, 0)>>
    IN Ladder(<<Call("sys_init", 0, Leave), Call("start_vi", c, 4), Start("vi_vpss", 0, 0),
                Call("start_vpss", 0, 2), Call("start_venc_and_vo", 1, 1)>> \o body,
              down, <<Call("stop_venc_and_vo", 1, 0)>> \o down)

AllMode == OneRoute(Linear, <<Key>>)
WdrRoute == OneRoute(Wdr, <<Key>>)
WdrSendFrame == OneRoute(WdrSend, <<Call("send_wdr", 0, 0)>>)
Fpn == OneRoute(Linear, <<Call("calibrate_and_correct", 0, 0), Key, Call("disable_fpn", 0, 0)>>)
LdcDis == OneRoute(Linear, <<Key, Key, Key>>)

\* The live demo, whose two threads are the matter of NnnLive: here, what its
\* route brings up and takes down, call by call.  (Joining a thread that could
\* not be created is undefined; here it is passed over.)
SwitchLowDelay(attr) == <<Key, Set(attr, 0, 0), Key, Set(attr, 0, 0)>>
LowDelay ==
    OneRoute(Linear, <<Start("nnn_thread", 0, 0)>> \o SwitchLowDelay("pipe_low_delay")
                     \o SwitchLowDelay("chn_low_delay") \o <<Key, Join("nnn_thread", 0)>>)

UserPicRoute == OneRoute(Linear, <<Call("switch_user_pic", 0, 0), Key>>)

\* The first route of a switch keeps the ISP when it ends well.
FirstRoute(c) ==
    LET down == <<Call("stop_vpss", 0, 0), Stop("vi_vpss", 0, 0)>>
    IN Ladder(<<Call("start_vi", c, Leave), Start("vi_vpss", 0, 0), Call("start_vpss", 0, 2),
                Call("start_venc_and_vo", 1, 1), Key>>,
              down \o <<Call("stop_vi", c, 0)>>,
              <<Call("stop_venc_and_vo", 1, 0)>> \o down \o <<Call("mode_switch_stop_vi", c, 0)>>)

SecondRoute(c) ==
    LET down == <<Call("stop_vpss", 0, 0), Stop("vi_vpss", 0, 0), Call("stop_vi", c, 0)>>
    IN Ladder(<<Call("mode_switch_start_vi", c, Leave), Start("vi_vpss", 0, 0), Call("start_vpss", 0, 2),
                Call("start_venc_and_vo", 1, 1), Key>>,
              down, <<Call("stop_venc_and_vo", 1, 0)>> \o down)

\* Switching to WDR, or to another resolution of the same sensor.
Switch(c) ==
    LET down == <<Call("sys_exit", 0, 0)>>
    IN Ladder(<<Call("sys_init", 0, Leave), Call("first_route", Linear, 1), Call("second_route", c, 1)>>,
              down, down)

StartExtChn(p) == Rungs(<<Start("ext_chn", p, Leave)>>, <<>>)

DoubleStart(c) ==
    Rungs(<<Call("start_vi", c, Leave), Call("start_ext_chn", 0, Leave), Start("vi_vpss", 0, 0),
            Call("start_vpss", 0, 3), Start("vi_vpss", 1, 0), Call("start_vpss", 1, 1)>>,
          <<Stop("vi_vpss", 1, 0), Call("stop_vpss", 0, 0), Stop("vi_vpss", 0, 0),
            Stop("ext_chn", 0, 0), Call("stop_vi", c, 0)>>)

DoubleStop(c) ==
    Sweep(<<Call("stop_vpss", 1, 0), Stop("vi_vpss", 1, 0), Call("stop_vpss", 0, 0), Stop("vi_vpss", 0, 0),
            Stop("ext_chn", 0, 0), Call("stop_vi", c, 0)>>)

Fisheye ==
    LET down == <<Call("double_stop", Linear, 0), Call("sys_exit", 0, 0)>>
    IN Ladder(<<Call("sys_init", 0, Leave), Call("double_start", Linear, 2),
                Call("start_venc_and_vo", 2, 1), Key>>,
              down, <<Call("stop_venc_and_vo", 2, 0)>> \o down)

\* The configurations of the routes with several sensors, by their number.
Sensors(n) == IF n = 2 THEN <<Linear, Second>> ELSE [i \in 1..n |-> Four(i - 1)]

StartMultiViVpss(n) ==
    LET Vi(i) == Call("start_vi", Sensors(n)[i], 2 * n + Unwind(n, i))
        Bind(i) == Start("vi_vpss", i - 1, 0)
        Vpss(i) == Call("start_vpss", i - 1, Unwind(n, i))
        NoVpss(i) == Call("stop_vpss", i - 1, 0)
        Unbind(i) == Stop("vi_vpss", i - 1, 0)
        NoVi(i) == Call("stop_vi", Sensors(n)[i], 0)
    IN Rungs(Each(n, Vi) \o Each(n, Bind) \o Each(n, Vpss),
             Back(n, NoVpss) \o Each(n, Unbind) \o Back(n, NoVi))

ManyRoutes(n, down) ==
    LET all == down \o <<Call("sys_exit", 0, 0)>>
    IN Ladder(<<Call("sys_init", 0, Leave), Call("start_multi_vi_vpss", n, Len(all)),
                Call("start_venc_and_vo", n, 1), Key>>,
              all, <<Call("stop_venc_and_vo", n, 0)>> \o all)

TwoSensor ==
    ManyRoutes(2, <<Call("stop_vpss", 0, 0), Call("stop_vpss", 1, 0), Stop("vi_vpss", 0, 0),
                    Stop("vi_vpss", 1, 0), Call("stop_vi", Linear, 0), Call("stop_vi", Second, 0)>>)

FourSensor ==
    LET Down(i) == <<Call("stop_vpss", i - 1, 0), Stop("vi_vpss", i - 1, 0)>>
    IN ManyRoutes(MaxDev, Append(FlattenSeq(Each(MaxDev, Down)), Call("stop_four_vi", MaxDev, 0)))

------------------------------------------------------------------------------
\* sample_vio_execute_case; case 6 is empty.
Routes == {"all_mode", "wdr", "fpn", "ldc_dis", "low_delay", "fisheye", "user_pic", "two_sensor", "four_sensor",
           "switch_mode", "wdr_send_frame", "switch_resolution"}

Body(name, n) ==
    CASE name = "sys_init" -> SysInit                 [] name = "sys_exit" -> SysExit
      [] name = "set_vi_vpss_mode" -> SetViVpssMode   [] name = "set_grp_info" -> SetGrpInfo(n)
      [] name = "start_dev" -> StartDev(n)            [] name = "stop_dev" -> StopDev(n)
      [] name = "start_mipi_rx" -> StartMipiRx(n)     [] name = "stop_mipi_rx" -> StopMipiRx(n)
      [] name = "dev_bind_pipe" -> DevBindPipe(n)     [] name = "dev_unbind_pipe" -> DevUnbindPipe(n)
      [] name = "start_one_pipe" -> StartOnePipe(n)   [] name = "stop_one_pipe" -> StopOnePipe(n)
      [] name = "start_pipe" -> StartPipe(n)          [] name = "stop_pipe" -> StopPipe(n)
      [] name = "register_sensor_lib" -> RegisterSensorLib(n)
      [] name = "deregister_sensor_lib" -> DeregisterSensorLib(n)
      [] name = "start_one_pipe_isp" -> StartOnePipeIsp(n, TRUE)
      [] name = "start_one_pipe_isp_norun" -> StartOnePipeIsp(n, FALSE)
      [] name = "stop_one_pipe_isp" -> StopOnePipeIsp(n)
      [] name = "start_isp" -> StartIsp(n)            [] name = "stop_isp" -> StopIsp(n)
      [] name = "start_vi" -> StartVi(n)              [] name = "stop_vi" -> StopVi(n)
      [] name = "stop_four_vi" -> StopFourVi(n)
      [] name = "mode_switch_stop_vi" -> ModeSwitchStopVi(n)
      [] name = "mode_switch_start_vi" -> ModeSwitchStartVi(n)
      [] name = "mode_switch_start_one_pipe" -> ModeSwitchStartOnePipe(n)
      [] name = "mode_switch_start_pipe" -> ModeSwitchStartPipe(n)
      [] name = "switch_isp" -> SwitchIsp(n)
      [] name = "get_pub_attr" -> PubAttr(n, "get_pub_attr")
      [] name = "set_pub_attr" -> PubAttr(n, "set_pub_attr")
      [] name = "start_pipe_chn_or_unbind" -> StartPipeChnOrUnbind(n)
      [] name = "mode_switch_start_pipe_chn" -> ModeSwitchStartPipeChn(n)
      [] name = "mode_switch_start_one_pipe_chn" -> ModeSwitchStartOnePipeChn(n)
      [] name = "vpss_start_chn" -> VpssStartChn(n)   [] name = "vpss_start" -> VpssStart(n)
      [] name = "vpss_stop_both" -> VpssStopBoth(n)   [] name = "start_vpss" -> StartVpss(n)
      [] name = "stop_vpss" -> StopVpss(n)            [] name = "vo_start_chn" -> VoStartChn(n)
      [] name = "vo_stop_chn" -> VoStopChn(n)         [] name = "hdmi_start" -> HdmiStart
      [] name = "hdmi_stop" -> HdmiStop               [] name = "start_vo" -> StartVo(n)
      [] name = "stop_vo" -> StopVo(n)                [] name = "comm_venc_start" -> CommVencStart(n)
      [] name = "comm_venc_stop" -> CommVencStop(n)   [] name = "start_venc" -> StartVenc(n)
      [] name = "stop_get_stream" -> StopGetStream(n) [] name = "stop_venc" -> StopVenc(n)
      [] name = "start_venc_and_vo" -> StartVencAndVo(n)
      [] name = "stop_venc_and_vo" -> StopVencAndVo(n)
      [] name = "get_frames" -> GetFrames(n)          [] name = "release_frames" -> ReleaseFrames(n)
      [] name = "release_calib" -> ReleaseCalib       [] name = "get_calib_frames" -> GetCalibFrames
      [] name = "calibrate_process" -> CalibrateProcess
      [] name = "fpn_calibrate" -> FpnCalibrate       [] name = "enable_fpn" -> EnableFpn
      [] name = "disable_fpn" -> DisableFpn           [] name = "restart_get_stream" -> RestartGetStream
      [] name = "calibrate_and_correct" -> CalibrateAndCorrect
      [] name = "send_wdr" -> SendWdr                 [] name = "vgs_job" -> VgsJob
      [] name = "read_user_frame" -> ReadUserFrame    [] name = "load_user_pic" -> LoadUserPic(n)
      [] name = "user_pic_one" -> UserPic(n)          [] name = "switch_user_pic" -> SwitchUserPic
      [] name = "first_route" -> FirstRoute(n)        [] name = "second_route" -> SecondRoute(n)
      [] name = "start_ext_chn" -> StartExtChn(n)
      [] name = "double_start" -> DoubleStart(n)      [] name = "double_stop" -> DoubleStop(n)
      [] name = "start_multi_vi_vpss" -> StartMultiViVpss(n)
      [] name = "all_mode" -> AllMode                 [] name = "wdr" -> WdrRoute
      [] name = "fpn" -> Fpn                          [] name = "ldc_dis" -> LdcDis
      [] name = "fisheye" -> Fisheye                  [] name = "user_pic" -> UserPicRoute
      [] name = "two_sensor" -> TwoSensor             [] name = "four_sensor" -> FourSensor
      [] name = "switch_mode" -> Switch(Wdr)          [] name = "switch_resolution" -> Switch(Linear)
      [] name = "wdr_send_frame" -> WdrSendFrame      [] name = "low_delay" -> LowDelay
=============================================================================
