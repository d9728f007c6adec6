------------------------------ MODULE Workers ------------------------------
(***************************************************************************)
(* The execution of the threads written down in ViTasks, VencTasks,        *)
(* AudioTasks, VdecTasks, RegionTasks, OutputTasks, NpuTasks, SvpNpuTasks  *)
(* and SvpTasks.  A job is a caller (thread 0) with the threads it         *)
(* creates; they run side by side, one call at a time.  "held" is what     *)
(* exists: driver objects, memory, files, threads nobody has joined; "ptr" *)
(* is what the program's variables still point to.  A call fails by        *)
(* itself, at most MaxFaults different ones in a run, and one that has     *)
(* failed may fail again.  Flags are read as they were last written.       *)
(***************************************************************************)
EXTENDS FiniteSets, Naturals, Sequences, ViTasks, VencTasks, AudioTasks, RegionTasks,
        OutputTasks, SvpNpuTasks, SvpTasks

\* The programs of a job, thread 0 first.
Code ==
    [wdr      |-> <<SendWdrFrame, WdrDumpAndSendProc>>,
     fpn      |-> <<FpnCalibrate, SendPipeFrameProc>>,
     scene    |-> <<SceneCaller>>,
     qpmap    |-> <<Caller, QpmapSendFrameProc>>,
     roimap   |-> <<Caller, SendRoimapFrameProc>>,
     rateauto |-> <<RateautoCaller, RateautoStreamProc>>,
     svc_t    |-> <<Caller, GetVencStreamProcSvcT>>,
     snap     |-> <<SnapCaller>>,
     photo    |-> <<PhotoCaller>>,
     thumb    |-> <<ThumbCaller>>,
     venc_chn |-> <<VencCaller>>,
     encode   |-> <<EncodeCaller, AiProc(1, Aenc), AencProc(2)>>,
     loop     |-> <<LoopCaller, AiProc(1, AoChn)>>,
     play     |-> <<PlayCaller, AdecProc(1), AoVolProc(2)>>,
     acodec   |-> <<AcodecCaller>>,
     aac      |-> <<AacCaller>>,
     overlay  |-> <<OverlayCaller>>,
     mosaicex |-> <<MosaicExCaller>>,
     mipi_tx  |-> <<MipiTxCaller>>,
     virt_pipe |-> <<VirtPipeCaller>> \o [i \in IspPipes |-> IspThread(i)],
     binds    |-> <<BindCaller>>,
     output   |-> <<OutputCaller>>,
     layer    |-> <<LayerCaller>>,
     vdec     |-> <<CircleCaller>> \o [i \in 1..ChnNum |-> SendStream(i, CircleSend(i))],
     decode   |-> <<DecodeCaller>> \o [i \in 1..ChnNum |-> SendStream(i, SendOnce(i))],
     ive      |-> <<IveCaller>>,
     mau      |-> <<MauCaller>>,
     svp_vi   |-> <<SvpViCaller>>,
     svp_vdec |-> <<SvpVdecCaller, SendStream(1, CircleSend(1))>>,
     svp_helpers |-> <<HelpersCaller>>,
     svp_npu      |-> <<SvpNpuCaller>>,
     multithread  |-> <<Resnet50Multithread>>
                      \o [k \in ModelSlots |-> ExecuteFuncContious(k)],
     dynamicbatch |-> <<MobilenetV3Dynamicbatch>>]

CONSTANT MaxFaults     \* bound on the calls that fail

ASSUME WorkersAssumption ==
    /\ MaxFaults \in Nat
    /\ {TryTime, Cnt, MaxThreadNum, ChnNum} \subseteq Nat \ {0}

\* No text leads to a mark that is not there, or is there twice.
ASSUME MarksAreUnique ==
    \A j \in DOMAIN Code : \A t \in DOMAIN Code[j] : \A p \in DOMAIN Code[j][t] :
       LET land == Code[j][t][p].land IN
       land \in {On, Ret} \/ Cardinality({q \in DOMAIN Code[j][t] :
                                Code[j][t][q].op = "mark" /\ Code[j][t][q].name = land}) = 1

Jobs == DOMAIN Code

\* What is there when the caller is called.
Before(j) == IF j = "fpn" THEN {Chn} ELSE {}

VARIABLES
    job,        \* which of them runs
    pc,         \* where each thread is; 0 before it is created, Len + 1 when it has ended
    held, ptr,
    flags,      \* the flags that are up
    faults      \* names of the calls that have failed

vars == <<job, pc, held, ptr, flags, faults>>

Threads == DOMAIN pc

Init ==
    /\ job \in Jobs
    /\ pc = [t \in 0..(Len(Code[job]) - 1) |-> IF t = 0 THEN 1 ELSE 0]
    /\ held = Before(job) /\ ptr = Before(job)
    /\ flags = {} /\ faults = {}

\* "code" is what the threads of the job execute.
Text(t, code)  == code[t + 1]
Ended(t, code) == pc[t] = Len(Text(t, code)) + 1
Runs(t, code)  == pc[t] \in DOMAIN Text(t, code)
At(t, code)    == Text(t, code)[pc[t]]

Place(text, here, land) ==
    IF land = On THEN here + 1
    ELSE IF land = Ret THEN Len(text) + 1
    ELSE CHOOSE p \in DOMAIN text : text[p].op = "mark" /\ text[p].name = land

Goto(t, code, land)   == pc' = [pc EXCEPT ![t] = Place(Text(t, code), @, land)]
GoOn(t)               == pc' = [pc EXCEPT ![t] = @ + 1]
Does(t, code, ops)    == Runs(t, code) /\ At(t, code).op \in ops

\* A call gives way to its failure, under a name.
Fails(t, code, name) ==
    /\ name \in faults \/ Cardinality(faults) < MaxFaults
    /\ faults' = faults \cup {name}
    /\ Goto(t, code, At(t, code).land)

Fault(h) == <<h[1], h[2], "kept">>       \* the name under which giving h back fails

-----------------------------------------------------------------------------
Takes(t, code) ==
    /\ Does(t, code, {"take"})
    /\ LET i == At(t, code) IN
       \/ /\ GoOn(t)
          /\ held' = held \cup i.objs /\ ptr' = ptr \cup i.objs
          /\ UNCHANGED faults
       \/ Fails(t, code, i.name) /\ ptr' = ptr \ i.objs /\ UNCHANGED held
    /\ UNCHANGED <<job, flags>>

Gives(t, code) ==
    /\ Does(t, code, {"give"})
    /\ LET i == At(t, code) IN
       \/ GoOn(t) /\ held' = held \ i.objs /\ UNCHANGED faults
       \/ Fails(t, code, Fault(i.name)) /\ UNCHANGED held
    /\ UNCHANGED <<job, ptr, flags>>

\* Memory, files and pointers: nothing that could fail.
Keeps(t, code) ==
    /\ Does(t, code, {"local", "free", "null", "drop"})
    /\ GoOn(t)
    /\ LET i == At(t, code) IN
       /\ held' = CASE i.op = "local" -> held \cup i.objs
                    [] i.op = "free"  -> held \ i.objs
                    [] i.op = "drop"  -> held \ (i.objs \cap ptr)
                    [] OTHER          -> held
       /\ ptr' = CASE i.op = "local" -> ptr \cup i.objs
                   [] i.op = "free"  -> ptr
                   [] OTHER          -> ptr \ i.objs
    /\ UNCHANGED <<job, flags, faults>>

Calls(t, code) ==
    /\ Does(t, code, {"call"})
    /\ \/ GoOn(t) /\ UNCHANGED faults
       \/ Fails(t, code, At(t, code).name)
    /\ UNCHANGED <<job, held, ptr, flags>>

Branches(t, code) ==
    /\ Does(t, code, {"mark", "jump", "fork", "ifset", "while"})
    /\ LET i == At(t, code)
           stays == CASE i.op = "mark"  -> {TRUE}
                      [] i.op = "jump"  -> {FALSE}
                      [] i.op = "fork"  -> BOOLEAN
                      [] i.op = "ifset" -> {i.objs \subseteq ptr}
                      [] i.op = "while" -> {i.name \in flags}
       IN \/ TRUE \in stays /\ GoOn(t)
          \/ FALSE \in stays /\ Goto(t, code, i.land)
    /\ UNCHANGED <<job, held, ptr, flags, faults>>

SetsFlag(t, code) ==
    /\ Does(t, code, {"raise", "lower"})
    /\ GoOn(t)
    /\ LET i == At(t, code) IN flags' = IF i.op = "raise" THEN flags \cup {i.name} ELSE flags \ {i.name}
    /\ UNCHANGED <<job, held, ptr, faults>>

Creates(t, code) ==
    /\ Does(t, code, {"create"})
    /\ LET i == At(t, code) IN
       \/ /\ pc' = [pc EXCEPT ![t] = @ + 1, ![i.name[2]] = 1]
          /\ held' = held \cup i.objs /\ ptr' = ptr \cup i.objs /\ UNCHANGED faults
       \/ Fails(t, code, i.name) /\ UNCHANGED <<held, ptr>>
    /\ UNCHANGED <<job, flags>>

\* A thread that is cancelled ends at its next call of sleep, or first sees
\* its flag.
Cancels(t, code) ==
    /\ Does(t, code, {"cancel"})
    /\ LET c == At(t, code).name[2] IN
       \/ GoOn(t)
       \/ Runs(c, code) /\ pc' = [pc EXCEPT ![t] = @ + 1, ![c] = Len(Text(c, code)) + 1]
    /\ UNCHANGED <<job, held, ptr, flags, faults>>

\* The join of a thread that was never created is undefined: here it returns.
Joins(t, code) ==
    /\ Does(t, code, {"join"})
    /\ LET c == At(t, code).name[2] IN Ended(c, code) \/ pc[c] = 0
    /\ GoOn(t)
    /\ held' = held \ At(t, code).objs
    /\ UNCHANGED <<job, ptr, flags, faults>>

PressKey(t, code) ==
    /\ Does(t, code, {"key"})
    /\ GoOn(t)
    /\ UNCHANGED <<job, held, ptr, flags, faults>>

StepOf(t, code) ==
    \/ Takes(t, code) \/ Gives(t, code) \/ Keeps(t, code) \/ Calls(t, code) \/ Branches(t, code)
    \/ SetsFlag(t, code) \/ Creates(t, code) \/ Cancels(t, code) \/ Joins(t, code)

Step(t) == StepOf(t, Code[job])

Next == \E t \in Threads, code \in {Code[job]} : StepOf(t, code) \/ PressKey(t, code)

\* Every thread is scheduled; no one has to press a key.
Spec     == Init /\ [][Next]_vars
AnyThread == 0..(2 + MaxThreadNum)
FairSpec == Spec /\ \A t \in AnyThread : WF_vars(t \in DOMAIN pc /\ Step(t))

-----------------------------------------------------------------------------
(* Properties.                                                             *)

\* What the code loses, or treats twice, when the calls "f" have failed.
If(test, objs) == IF test THEN objs ELSE {}
Some(names, f) == \E x \in f : x[1] \in names /\ Len(x) = 2
All(names, ks) == {<<n, k>> : n \in names, k \in ks}

\* The release loop does not know of an exchange that failed; the user source
\* is never taken back.
WdrSpoils(f) == {UserSource} \cup {Frame(p) : p \in {q \in {0, 1} : <<"again", q>> \in f}}

FpnSpoils(f) == If(Chn \in f, {Chn})

\* The frame given back with a file that was not there is used, and given back
\* again; the one without a name, and that of a correction that stays on, are kept.
SceneSpoils(f) ==
    If(f \cap {SceneFile, <<"fpn_file_name_iso", 0>>, <<"fpn_get_attr", 0>>, <<"fpn_set_attr", 0>>} # {},
       {ScenePool, SceneBlk, SceneMap})

\* The maps allocated before the one that was not.
RoimapSpoils(f) == UNION {If(Roi(i) \in f, {Roi(k) : k \in 1..(i - 1)}) : i \in Chns}

\* The files of neighbouring channels share entries of the table; all are lost
\* when the thread cannot be set up; a stream may be lost at any time.
SvctSpoils(f) ==
    {File(n) : n \in 2..(Cnt + 1)} \cup {Stream(i) : i \in Chns}
    \cup If(Some({"file", "get_chn_attr", "get_fd", "get_stream_buf_info"}, f),
            {File(n) : n \in 1..(Cnt + 2)})

\* The channel that was created but not started, or not stopped; the stream
\* that was not saved.
SnapSpoils(f) ==
    If(Some({"set_jpeg_enc_mode", "venc_run"}, f) \/ Fault(Running) \in f, {VencChn})
    \cup If(Some({"fd", "jpg"}, f) \/ SaveThm \in flags, {Stream(0)})
    \cup If(JpgFile \in f, {JpgFile, Fd})

\* What was started before a start that failed, what comes after a stop that
\* failed, and threads that ended by themselves or were never created.
AudioDevices == {Ai, AiChn, AiRate, Vqe, Ao, AoChn, AoRate,
                 AoSys, Aenc, Adec, Bind, VoDev, HdmiInit, HdmiOpen, Hdmi}
AudioSpoils(f) ==
    LET Starts == AudioDevices \cup {SoundFile} \cup
                  All({"ai_set_pub_attr", "ai_set_vqe_attr", "ao_set_pub_attr", "ao_disable_resample",
                   "hdmi_attr", "hdmi_audio_attr"}, {0})
        Stops  == {Fault(d) : d \in AudioDevices}
        Calls1 == {"ai_select", "ai_send", "buffer", "adec_send_stream", "thread"}
        Calls2 == {"aenc_get_fd", "aenc_select", "aenc_stream", "adec_send_stream", "thread"}
    IN If(f \cap (Starts \cup Stops) # {}, AudioDevices)
       \cup If(Some(Calls1, f) \/ Fault(Sound) \in f, {Thread(1)})
       \cup If(Some(Calls2, f) \/ Fault(Coded) \in f, {Thread(2)})

\* A label undoes nothing of the rungs above it, for the slots already done:
\* those below the slot whose rung failed.
MultiSpoils(f) ==
    LET Load   == {"mem", "weight", "loaded"}
        Model  == Load \cup {"desc", "aclmdl_query_size", "aclmdl_get_desc"}
        Data   == Model \cup {"input_dataset", "output_dataset", "output_buf", "output_databuf", "realpath"}
        Inputs == Data \cup {"data_buf", "fill_input_data"}
        Slots  == ModelSlots
        FailedAt(rungs)  == {k \in Slots : \E r \in rungs : <<r, k>> \in f}
        BelowOf(rungs)   == {i \in Slots : \E k \in FailedAt(rungs) : i < k}
    IN All({"mem", "weight"}, FailedAt(Load))
       \cup All({"input_dataset", "output_dataset", "output_buf", "output_databuf"}, BelowOf(Model))
       \cup All({"data_buf"}, BelowOf(Data)) \cup All({"input_databuf"}, BelowOf(Inputs))
       \cup All({"thread"}, FailedAt({"thread"}))

DynamicSpoils(f) ==
    {Acl, Device(0)}
    \cup If(Some({"weight", "loaded"}, f), All({"mem", "weight"}, {1}))
    \cup If(Some({"data_buf", "input_databuf"}, f), All({"input_dataset", "data_buf"}, {1}))
    \cup If(Some({"output_buf", "output_databuf"}, f), All({"output_dataset", "output_buf"}, {1}))

\* A start that fails leaves the channels before it, a stop those after it.
VdecSpoils(f) ==
    If(Some({"vdec_chn", "vdec_chn_param", "low_delay_attr", "start_recv", "set_display_mode", "stop_recv"}, f)
       \/ \E i \in 1..ChnNum : Fault(VdecChn(i)) \in f, {VdecChn(i) : i \in 1..ChnNum})

\* A start that failed after its fourth step reports success, and is stopped
\* as if it were up.
SvpViSpoils(f) ==
    If(f \cap {SvpVpss(1), SvpVo, SvpVenc, GetStream, <<"get_gop_attr", 0>>} # {},
       {SvpVi, SvpBind(1), SvpVpss(1), SvpVo, SvpVenc, GetStream})

\* The output that went down with the encoder is stopped again.
SvpVdecSpoils(f) ==
    If(f \cap {SvpVenc, GetStream, <<"get_gop_attr", 0>>} # {}, {SvpVo}) \cup VdecSpoils(f)

HelpersSpoil(f) ==
    If(f \cap {SysUp, Fault(SysUp)} # {}, {Vb})
    \cup If(Some({"dsp_load_bin", "dsp_core"}, f) \/ Fault(DspCore) \in f, {DspPower})

\* A model loaded without its description stays loaded; a buffer the data set
\* refuses is freed under task_buf_ptr and work_buf_ptr.
SvpNpuSpoils(f) ==
    If(Some({"svp_get_desc"}, f), {ModelDesc})
    \cup If(f \cap {ModelDesc, <<"svp_get_desc", 0>>, <<"get_model_base_info", 0>>} # {}, {ModelId})
    \cup {InMem(b) : b \in {c \in {TaskBuf, WorkBuf} : <<"add_dataset_buffer", InMem(c)>> \in f}}

\* A setting of the inner codec that fails leaves its file open.
AcodecSpoils(f) == If(Some({"i2s_fs", "acodec_fs", "acodec_mixer"}, f), {AcodecFd})

\* A library whose coder is not registered, or not taken back, stays counted;
\* a decoder that was reset without a new state goes on with none.
AacSpoils(f) ==
    {AacLib(s) : s \in {r \in Sides : Registered(r) \in f \/ Fault(Registered(r)) \in f}}
    \cup If(<<"again", 2>> \in f, {AacState(2)})

\* Overlays that were not created are used, those not attached detached; of
\* the mosaics that cannot be undone the first stays.
RegionSpoils(f) ==
    UNION {If(Region(i) \in f, {Region(i), Attached(i)}) \cup If(Attached(i) \in f, {Attached(i)}) : i \in Overlays}
    \cup If(Region(4) \in f, {Region(3)}) \cup If(Attached(4) \in f, {Attached(3)})

MipiTxSpoils(f) == If(Fault(Screen) \in f, {MipiFd}) \cup If(<<"again", 0>> \in f, {Screen})

\* The ISP whose initialisation failed stays, with its libraries.
IspSpoils(f) ==
    UNION {If(<<"isp_init", i>> \in f, {Isp(i), AwbLib(i), AeLib(i), Sensor(i)}) : i \in IspPipes}

BindSpoils(f) == If(System \in f, {Pools})

\* Channels before the one that failed stay on, a stop ends at its first
\* failure, HDMI is stopped whether it was started or not, and the output's
\* device is stopped by the PIP that failed.
OutputSpoils(f) ==
    LET NotAll(l) == f \cap {<<"vo_set_chn_attr", l>>, Window(l, 2)} # {}
        Kept(l)   == \E i \in Windows : Fault(Window(l, i)) \in f
    IN UNION {If(NotAll(l), {Window(l, 1)}) \cup If(Kept(l), {Window(l, 2), Layer(l)}) : l \in 1..3}
       \cup If(f \cap {TxInit, TxOpen, <<"out_hdmi_attr", 0>>, Tx, Fault(Tx), Fault(TxOpen)} # {}, {TxInit, TxOpen, Tx})
       \cup If(Kept(1) \/ Fault(Layer(1)) \in f \/ NotAll(2)
               \/ f \cap {<<"vo_pip_size", 0>>, <<"vo_set_layer_attr", 2>>, <<"vo_get_layer_attr", 2>>,
                          Layer(2), Window(2, 1)} # {}, {OutDev})

Spoils(f) ==
    {h \in held : Fault(h) \in f} \cup
    CASE job = "wdr" -> WdrSpoils(f)
      [] job = "fpn" -> FpnSpoils(f)
      [] job = "scene" -> SceneSpoils(f)
      [] job = "roimap" -> RoimapSpoils(f)
      [] job = "svc_t" -> SvctSpoils(f)
      [] job \in {"snap", "photo"} -> SnapSpoils(f)
      [] job = "thumb" -> If(ThmFile \in f, {Thumb})
      [] job = "venc_chn" -> If(Running \in f, {VencChn})
      [] job \in {"encode", "loop", "play"} -> AudioSpoils(f)
      [] job = "acodec" -> AcodecSpoils(f)
      [] job = "aac" -> AacSpoils(f)
      [] job \in {"overlay", "mosaicex"} -> RegionSpoils(f)
      [] job = "mipi_tx" -> MipiTxSpoils(f)
      [] job = "virt_pipe" -> IspSpoils(f)
      [] job = "binds" -> BindSpoils(f)
      [] job \in {"output", "layer"} -> OutputSpoils(f)
      [] job \in {"vdec", "decode"} -> VdecSpoils(f)
      [] job = "svp_vi" -> SvpViSpoils(f)
      [] job = "svp_vdec" -> SvpVdecSpoils(f)
      [] job = "svp_helpers" -> HelpersSpoil(f)
      [] job = "svp_npu" -> SvpNpuSpoils(f)
      [] job = "multithread" -> MultiSpoils(f)
      [] job = "dynamicbatch" -> DynamicSpoils(f)
      [] OTHER -> {}

\* A thread uses, gives back, closes, frees and joins only what is there, and
\* takes nothing anew over what is still held: no frame is sent after its
\* release, no file is closed by the thread and again by its destroyer, no
\* buffer is freed under a thread that runs.  Spoils names the exceptions.
HoldsWhatItUses ==
    \A t \in Threads, code \in {Code[job]} : Runs(t, code) =>
       LET i == At(t, code) IN
       CASE i.op \in {"give", "free", "call", "join"} -> i.objs \ held \subseteq Spoils(faults)
         [] i.op = "drop" -> (i.objs \cap ptr) \ held \subseteq Spoils(faults)
         [] i.op \in {"take", "local", "create"} -> i.objs \cap held \subseteq Spoils(faults)
         [] OTHER -> TRUE

\* When the caller returns, every frame, stream, buffer, file, channel, model
\* and thread of the job is given back, whatever fails on the way, but for
\* what Spoils says the code loses, and what had been there is there again.
NothingKept ==
    Ended(0, Code[job]) =>
       (held \ Before(job)) \cup (Before(job) \ held) \subseteq Spoils(faults)

\* A caller that has come to its first join returns: the loops look at the flag
\* the stop functions clear in every round, whatever fails in them.  Not so in
\* "decode", where the decoder may refuse the stream for good, and not when an
\* ISP cannot be left: its thread stays in the driver.
StopEnds ==
    (job # "decode" /\ Does(0, Code[job], {"join"}))
    ~> (Ended(0, Code[job]) \/ \E i \in IspPipes : Fault(Isp(i)) \in faults)
=============================================================================
