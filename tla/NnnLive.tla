------------------------------ MODULE NnnLive -------------------------------
(***************************************************************************)
(* The live demo: sample_vio_lowdelay brings the video route up, starts    *)
(* the inference thread sample_nnnn_proc, waits for five keys or a signal, *)
(* stops the thread and takes the route down again.  The thread takes      *)
(* frames from channel 1 of VPSS group 0, runs the model on them and sends *)
(* them to the display.                                                    *)
(***************************************************************************)
EXTENDS NpuModel, FiniteSets

CONSTANTS
    Blocks,         \* video buffer blocks VPSS channel 1 can hand out
    NoBlock,        \* no frame; also the NULL a failed mmap returns
    Keys            \* calls of sample_get_char before the thread is stopped

ASSUME LiveAssumption ==
    /\ Slots = {0}
    /\ NoBlock \notin Blocks
    /\ Data = Blocks \cup {NoBlock}
    /\ Keys \in Nat \ {0}

VARIABLES
    pcM,            \* where the main thread is in sample_vio_lowdelay
    lost,           \* parts of the route whose own start or stop call has failed
    keys,           \* calls of sample_get_char that have returned
    sig,            \* g_sig_flag
    up,             \* the parts of the media route that are running
    run,            \* nnn_thd_run
    pcT,            \* where the inference thread is
    acl,            \* AscendCL: "down", "up" or "final"
    frame,          \* frame_info of the inference thread
    held,           \* blocks the thread has from VPSS and not given back
    mapped,         \* the block mmapped into the process
    shown           \* blocks the video output keeps a reference to

mainVars   == <<pcM, lost, keys, up>>
threadVars == <<pcT, acl, frame, held, mapped>>
liveVars   == <<pcM, lost, keys, sig, up, run, pcT, acl, frame, held, mapped,
                shown, slot, heap, faults>>

Parts == {"vb", "sys", "vi", "vi_bind", "vpss", "vo", "venc", "out_bind"}

MainPcs == {"sys_init", "start_vi", "bind_vi", "start_vpss", "start_vo",
            "start_venc", "bind_out", "create", "check_sig", "enter", "reading",
            "clear", "join", "unbind_out", "stop_venc", "stop_vo", "stop_vpss",
            "unbind_vi", "stop_vi", "sys_exit", "done", "crashed"}

InitPcs  == {"init", "load", "desc", "undo_desc", "undo_model", "finalize"}
FramePcs == {"map", "prep_in", "prep_out", "prep_undo", "databuf", "exec",
             "result", "free_databuf", "free_out", "free_in", "unmap", "send",
             "release"}
ThreadPcs == {"none", "loop", "get", "exited"} \cup InitPcs \cup FramePcs

TypeOK ==
    /\ NpuTypeOK
    /\ pcM \in MainPcs /\ pcT \in ThreadPcs
    /\ keys \in 0..Keys
    /\ sig \in BOOLEAN /\ run \in BOOLEAN
    /\ up \subseteq Parts /\ lost \subseteq Parts
    /\ acl \in {"down", "up", "final"}
    /\ frame \in Data /\ mapped \in Data
    /\ held \subseteq Blocks /\ shown \subseteq Blocks

Init ==
    /\ NpuInit
    /\ pcM = "sys_init" /\ pcT = "none"
    /\ keys = 0
    /\ sig = FALSE /\ run = FALSE
    /\ up = {} /\ lost = {} /\ acl = "down"
    /\ frame = NoBlock /\ mapped = NoBlock
    /\ held = {} /\ shown = {}

GotoM(a, b) == pcM = a /\ pcM' = b
GotoT(a, b) == pcT = a /\ pcT' = b

-----------------------------------------------------------------------------
(* The main thread.                                                        *)
OnlyMain == UNCHANGED <<sig, run, shown, threadVars, npuVars>>

\* A failure after the first MPI call leaves vb, or vb and sys, initialised,
\* and the route returns without sample_comm_sys_exit.
SysInit ==
    /\ \/ GotoM("sys_init", "start_vi") /\ up' = {"vb", "sys"} /\ UNCHANGED lost
       \/ /\ GotoM("sys_init", "done") /\ lost' = lost \cup {"vb", "sys"}
          /\ up' \in {{}, {"vb"}, {"vb", "sys"}}
    /\ UNCHANGED keys /\ OnlyMain

(***************************************************************************)
(* A start call takes back what it had started when a later step of it     *)
(* fails, or forgets some of it: the ISP after a failed ss_mpi_isp_init    *)
(* and the clocks of MIPI (vi), a group that destroy_grp refuses (vpss),   *)
(* the first display channels when a later one fails (vo), the channel     *)
(* that ss_mpi_venc_start_chn refuses (venc).  What is left is not taken   *)
(* down again: the label jumped to is that of the parts before.            *)
(***************************************************************************)
Start(here, part, next, onFailure) ==
    /\ \/ GotoM(here, next) /\ up' = up \cup {part} /\ UNCHANGED lost
       \/ /\ GotoM(here, onFailure) /\ lost' = lost \cup {part}
          /\ up' \in {up, up \cup {part}}
    /\ UNCHANGED keys /\ OnlyMain

StartVi   == Start("start_vi", "vi", "bind_vi", "sys_exit")
StartVpss == Start("start_vpss", "vpss", "start_vo", "unbind_vi")
\* Slip: the label of the next rung down.
StartVo_SkipsVpss == Start("start_vo", "vo", "start_venc", "unbind_vi")

StartVo   == Start("start_vo", "vo", "start_venc", "stop_vpss")
StartVenc == Start("start_venc", "venc", "bind_out", "stop_vo")

\* Nobody looks at what the bind functions return.
Bind(here, part, next) ==
    /\ GotoM(here, next)
    /\ up' \in {up, up \cup {part}}
    /\ UNCHANGED <<lost, keys>> /\ OnlyMain

BindVi  == Bind("bind_vi", "vi_bind", "start_vpss")
BindOut == Bind("bind_out", "out_bind", "create")

\* Nor at what pthread_create returns.
CreateThread ==
    /\ GotoM("create", "check_sig")
    /\ run' = TRUE
    /\ pcT' \in {"init", "none"}
    /\ UNCHANGED <<lost, keys, sig, up, acl, frame, held, mapped, shown, npuVars>>

KeyDone == /\ keys' = keys + 1
           /\ pcM' = IF keys + 1 = Keys THEN "clear" ELSE "check_sig"

\* Slip: sample_get_char without the test of the flag.
CheckSig_NoTest ==
    /\ pcM = "check_sig" /\ pcM' = "enter"
    /\ UNCHANGED <<lost, keys, up>> /\ OnlyMain

\* sample_get_char looks at the flag first and only then blocks in getchar.
CheckSig ==
    /\ pcM = "check_sig"
    /\ IF sig THEN KeyDone ELSE pcM' = "enter" /\ UNCHANGED keys
    /\ UNCHANGED <<lost, up>> /\ OnlyMain

EnterGetchar == GotoM("enter", "reading") /\ UNCHANGED <<lost, keys, up>> /\ OnlyMain

KeyPress == pcM = "reading" /\ KeyDone /\ UNCHANGED <<lost, up>> /\ OnlyMain

\* sample_vio_handle_sig; without SA_RESTART a blocked getchar returns.
Signal ==
    /\ ~sig \/ pcM = "reading"
    /\ sig' = TRUE
    /\ IF pcM = "reading" THEN KeyDone ELSE UNCHANGED <<pcM, keys>>
    /\ UNCHANGED <<lost, up, run, shown, threadVars, npuVars>>

ClearRun ==
    /\ GotoM("clear", "join") /\ run' = FALSE
    /\ UNCHANGED <<lost, keys, sig, up, shown, threadVars, npuVars>>

\* Slip: the thread is told to stop and not waited for.
Join_NoWait == GotoM("join", "unbind_out") /\ UNCHANGED <<lost, keys, up>> /\ OnlyMain

\* Joining a thread that was never created is undefined.
Join ==
    /\ \/ GotoM("join", "unbind_out") /\ pcT \in {"exited", "none"}
       \/ GotoM("join", "crashed") /\ pcT = "none"
    /\ UNCHANGED <<lost, keys, up>> /\ OnlyMain

\* Nobody looks at what the stop functions return either.  One that gives up
\* leaves its part, or some of it: sample_comm_venc_stop_get_stream returns
\* before it has stopped its thread when ss_mpi_venc_stop_chn fails.
Stop(here, parts, next) ==
    /\ GotoM(here, next)
    /\ \E kept \in SUBSET (parts \cap up) :
          up' = up \ (parts \ kept) /\ lost' = lost \cup kept
    /\ UNCHANGED keys /\ OnlyMain

\* Slips: an unbind forgotten; the display left on.
UnbindOut_Forgotten == Stop("unbind_out", {}, "stop_venc")
StopVenc_SkipsVo    == Stop("stop_venc", {"venc"}, "stop_vpss")

UnbindOut == Stop("unbind_out", {"out_bind"}, "stop_venc")
StopVenc  == Stop("stop_venc", {"venc"}, "stop_vo")
StopVpss  == Stop("stop_vpss", {"vpss"}, "unbind_vi")
UnbindVi  == Stop("unbind_vi", {"vi_bind"}, "stop_vi")
StopVi    == Stop("stop_vi", {"vi"}, "sys_exit")
SysExit   == Stop("sys_exit", {"vb", "sys"}, "done")

\* sample_comm_vo_stop_vo returns at the first of channels, layer and device
\* that does not stop; with the channels gone the frame shown is gone too.
StopVo ==
    /\ GotoM("stop_vo", "stop_vpss")
    /\ \/ up' = up \ {"vo"} /\ shown' = {} /\ UNCHANGED lost
       \/ UNCHANGED up /\ lost' = lost \cup {"vo"} /\ shown' \in {shown, {}}
    /\ UNCHANGED <<keys, sig, run, threadVars, npuVars>>

MainStep ==
    \/ SysInit \/ StartVi \/ BindVi \/ StartVpss \/ StartVo \/ StartVenc \/ BindOut
    \/ CreateThread \/ CheckSig \/ EnterGetchar \/ ClearRun \/ Join
    \/ UnbindOut \/ StopVenc \/ StopVo \/ StopVpss \/ UnbindVi \/ StopVi \/ SysExit

-----------------------------------------------------------------------------
(* The inference thread: nnn_init.                                         *)
OnlyThread == UNCHANGED <<mainVars, sig, run>>
NoFrame    == UNCHANGED <<frame, held, mapped, shown>>

\* A failed aclInit, aclrtSetDevice or aclrtGetRunMode finalises AscendCL.
InitResource ==
    /\ \/ GotoT("init", "load") /\ acl' = "up" /\ UNCHANGED faults
       \/ GotoT("init", "loop") /\ acl' = "final" /\ Fault
    /\ UNCHANGED <<slot, heap>> /\ OnlyThread /\ NoFrame

\* For a path that realpath refuses the code returns TD_NULL, that is
\* TD_SUCCESS: nnn_init is content and the thread goes on without a model.
LoadModel ==
    /\ \/ \E ok \in BOOLEAN :
            LoadModelWithMem(0, ok) /\ GotoT("load", IF ok THEN "desc" ELSE "undo_desc")
       \/ GotoT("load", "loop") /\ Fault /\ UNCHANGED <<slot, heap>>
    /\ UNCHANGED acl /\ OnlyThread /\ NoFrame

MakeDesc ==
    /\ \E ok \in BOOLEAN :
         CreateDesc(0, ok) /\ GotoT("desc", IF ok THEN "loop" ELSE "undo_desc")
    /\ UNCHANGED acl /\ OnlyThread /\ NoFrame

\* The error ladders of load_model and nnn_init run the same pair of calls
\* twice; the second pair finds nothing left to do.
UndoDesc  == GotoT("undo_desc", "undo_model") /\ DestroyDesc(0)
             /\ UNCHANGED acl /\ OnlyThread /\ NoFrame
UndoModel == GotoT("undo_model", "finalize") /\ UnloadModel(0)
             /\ UNCHANGED acl /\ OnlyThread /\ NoFrame
DestroyResource ==
    GotoT("finalize", "loop") /\ acl' = "final"
    /\ UNCHANGED npuVars /\ OnlyThread /\ NoFrame

(* The frame loop.                                                         *)
\* Slip: while (1).
TestRun_Forever == GotoT("loop", "get") /\ UNCHANGED <<acl, npuVars>> /\ OnlyThread /\ NoFrame

TestRun == GotoT("loop", IF run THEN "get" ELSE "exited")
           /\ UNCHANGED <<acl, npuVars>> /\ OnlyThread /\ NoFrame

GetChnFrame ==
    /\ \/ /\ GotoT("get", "map") /\ "vpss" \in up
          /\ \E b \in Blocks \ (held \cup shown) : frame' = b /\ held' = held \cup {b}
       \/ GotoT("get", "loop") /\ UNCHANGED <<frame, held>>
    /\ UNCHANGED <<acl, mapped, shown, npuVars>> /\ OnlyThread

MapFrame ==
    /\ GotoT("map", "prep_in")
    /\ \/ mapped' = frame /\ UNCHANGED faults
       \/ mapped' = NoBlock /\ Fault
    /\ UNCHANGED <<acl, frame, held, shown, slot, heap>> /\ OnlyThread

Send ==
    /\ GotoT("send", "release")
    /\ \/ "vo" \in up /\ shown' = {frame}
       \/ UNCHANGED shown
    /\ UNCHANGED <<acl, frame, held, mapped, npuVars>> /\ OnlyThread

Unmap ==
    /\ GotoT("unmap", "send") /\ mapped' = NoBlock
    /\ UNCHANGED <<acl, frame, held, shown, npuVars>> /\ OnlyThread

Release ==
    /\ GotoT("release", "loop")
    /\ held' = held \ {frame} /\ frame' = NoBlock
    /\ UNCHANGED <<acl, mapped, shown, npuVars>> /\ OnlyThread

(* nnn_execute.  It does not look at what dataset_prepare_init returned,   *)
(* and on its own two error exits it destroys nothing.                     *)
Keep == UNCHANGED acl /\ OnlyThread /\ NoFrame

PrepareInput ==
    /\ \E ok \in BOOLEAN :
         CreateInputDataset(0, ok) /\ GotoT("prep_in", IF ok THEN "prep_out" ELSE "databuf")
    /\ Keep
PrepareOutput ==
    /\ \E ok \in BOOLEAN :
         CreateOutput(0, ok) /\ GotoT("prep_out", IF ok THEN "databuf" ELSE "prep_undo")
    /\ Keep
\* Slip: the error path keeps the input data set.
PrepareUndo_KeepsInput == GotoT("prep_undo", "databuf") /\ UNCHANGED npuVars /\ Keep

PrepareUndo == GotoT("prep_undo", "databuf") /\ DestroyInputDataset(0) /\ Keep
MakeDatabuf ==
    /\ \E ok \in BOOLEAN :
         CreateInputDatabuf(0, mapped, ok) /\ GotoT("databuf", IF ok THEN "exec" ELSE "unmap")
    /\ Keep
Execute ==
    /\ \E ok \in BOOLEAN : ModelExecute(0, ok) /\ GotoT("exec", IF ok THEN "result" ELSE "unmap")
    /\ Keep
OutputResult == GotoT("result", "free_databuf") /\ UNCHANGED npuVars /\ Keep
FreeDatabuf  == GotoT("free_databuf", "free_out") /\ DestroyInputDatabuf(0) /\ Keep
\* Slip: the destroy call left out.
FreeInput_Skipped == GotoT("free_in", "unmap") /\ UNCHANGED npuVars /\ Keep

FreeOutput   == GotoT("free_out", "free_in") /\ DestroyOutput(0) /\ Keep
FreeInput    == GotoT("free_in", "unmap") /\ DestroyInputDataset(0) /\ Keep

ThreadStep ==
    \/ InitResource \/ LoadModel \/ MakeDesc \/ UndoDesc \/ UndoModel \/ DestroyResource
    \/ TestRun \/ GetChnFrame \/ MapFrame \/ PrepareInput \/ PrepareOutput \/ PrepareUndo
    \/ MakeDatabuf \/ Execute \/ OutputResult \/ FreeDatabuf \/ FreeOutput \/ FreeInput
    \/ Unmap \/ Send \/ Release

-----------------------------------------------------------------------------
\* Both threads have ended, the process is about to exit.
Terminated == /\ pcM \in {"done", "crashed"} /\ pcT \in {"none", "exited"}
              /\ UNCHANGED liveVars

Next == MainStep \/ KeyPress \/ Signal \/ ThreadStep \/ Terminated

Spec == Init /\ [][Next]_liveVars

\* Both threads are scheduled; a user need not press a key nor send a signal.
Fairness == WF_liveVars(MainStep) /\ WF_liveVars(ThreadStep)
FairSpec == Spec /\ Fairness

-----------------------------------------------------------------------------
(* Properties.                                                             *)

\* The thread holds at most one frame, only while VPSS group 0 runs, and
\* what it has mapped is that frame: pthread_join comes before stop_vpss.
FrameInsideRoute ==
    /\ held \subseteq {frame}
    /\ held # {} => "vpss" \in up
    /\ mapped # NoBlock => mapped \in held

\* Every run of the model has a loaded model, a complete output data set and
\* an input of one buffer, although nnn_execute ignores the result of
\* dataset_prepare_init and leaves the data sets of a failed frame behind.
\* That buffer is on the mapping of the frame in hand, never on that of an
\* earlier one; sample_nnnn_proc does not look at what mmap gave it, so it is
\* on NULL, and the model is run on it, for a frame whose mmap has failed.
ReadyWhenExecuted ==
    pcT = "exec" =>
       /\ acl = "up" /\ ReadyToExecute(0, mapped)
       /\ mapped = frame \/ (mapped = NoBlock /\ faults > 0)

\* A pointer in the slot is never left on something already destroyed, so
\* the ladders and the frame loop free nothing twice.
NothingFreedTwice == \A k \in Kinds : Owned(slot[0])[k] <= heap[0][k]

\* A frame on which every call succeeds leaks nothing, and a failed call
\* costs at most one input and one output data set with their buffers, and
\* the memory of one model.
Cost(k) == CASE k \in {"mem", "weight"} -> 1
             [] k = "dataset" -> 2
             [] k = "databuf" -> NumOutputs + 1
             [] k = "outbuf"  -> NumOutputs
             [] k \in {"desc", "inbuf"} -> 0
Resting(k) == IF k \in {"mem", "weight", "desc"} THEN 1 ELSE 0

LeakBound == pcT \in {"loop", "get", "exited"} =>
                \A k \in Kinds : heap[0][k] <= Resting(k) + Cost(k) * faults

\* The video buffers exist as long as the thread uses one, and as long as the
\* display does, unless sample_comm_vo_stop_vo gave up: nobody waits for it.
BuffersOutliveUsers ==
    /\ held # {} => "vb" \in up /\ "vpss" \in up
    /\ shown # {} => ("vb" \in up /\ "vpss" \in up) \/ "vo" \in lost

\* When sample_vio_lowdelay returns, all it started is stopped, but for the
\* parts whose own start or stop call has failed.
RouteDown == pcM = "done" => up \subseteq lost

\* A part of the route is taken down only after all that was started later,
\* but for the parts whose own start or stop call has failed.
Rank(p) == CASE p \in {"vb", "sys"} -> 1 [] p = "vi"   -> 2 [] p = "vi_bind"  -> 3
             [] p = "vpss" -> 4            [] p = "vo"   -> 5 [] p = "venc"     -> 6
             [] p = "out_bind" -> 7
TakenDownInReverse ==
    [][\A p \in up \ up', q \in up' \ lost : Rank(q) <= Rank(p)]_liveVars

\* The users of VPSS frames keep the promise stated in FrameLease.
BeforeVpss == {"sys_init", "start_vi", "bind_vi", "start_vpss"}
Lease == INSTANCE FrameLease WITH
    group <- IF "vpss" \in up THEN "running"
             ELSE IF pcM \in BeforeVpss THEN "idle" ELSE "stopped",
    lease <- IF held = {} THEN "none" ELSE IF mapped = NoBlock THEN "out" ELSE "mapped"
KeepsLease == Lease!LeaseSpec

(***************************************************************************)
(* The inductive invariant behind TypeOK, FrameInsideRoute,                *)
(* ReadyWhenExecuted, NothingFreedTwice, LeakBound, BuffersOutliveUsers    *)
(* and the refinement of FrameLease.                                       *)
(***************************************************************************)
BeforeThread == BeforeVpss \cup {"start_vo", "start_venc", "bind_out", "create"}
WithThread   == {"check_sig", "enter", "reading", "clear", "join"}
VpssRuns     == WithThread \cup {"start_vo", "start_venc", "bind_out", "create",
                 "unbind_out", "stop_venc", "stop_vo", "stop_vpss", "crashed"}

\* The thread lives between pthread_create and pthread_join, VPSS for longer.
RouteInv ==
    /\ pcM \in VpssRuns => "vpss" \in up
    /\ pcM \in BeforeVpss => "vpss" \notin up
    /\ pcM \in BeforeThread => pcT = "none"
    /\ pcT \notin {"none", "exited"} => pcM \in WithThread

\* How far up the ladder the route is at most: the rank of the highest part
\* that may be running.
Level(pc) ==
    CASE pc \in {"sys_init", "done"}         -> 0
      [] pc \in {"start_vi", "sys_exit"}     -> 1
      [] pc \in {"bind_vi", "stop_vi"}       -> 2
      [] pc \in {"start_vpss", "unbind_vi"}  -> 3
      [] pc \in {"start_vo", "stop_vpss"}    -> 4
      [] pc \in {"start_venc", "stop_vo"}    -> 5
      [] pc \in {"bind_out", "stop_venc"}    -> 6
      [] OTHER                               -> 7

\* Nothing runs above the level of the rung the main thread is on, but the
\* parts whose own start or stop call has failed.
LadderInv == \A p \in up : Rank(p) <= Level(pcM) \/ p \in lost

\* The buffers exist between sys_init and sys_exit, and the display lets go
\* of its frame in stop_vo.
ShownInv ==
    /\ "vb" \in up \/ pcM \in {"sys_init", "done"}
    /\ shown # {} => \/ pcM \in WithThread \cup {"unbind_out", "stop_venc", "stop_vo", "crashed"}
                     \/ "vo" \in lost

\* The main thread leaves the key loop with the last key.
KeysInv ==
    /\ pcM \in BeforeThread => keys = 0
    /\ pcM \in {"check_sig", "enter", "reading"} => keys < Keys

\* A frame is out exactly in the body of the loop.
FrameInv ==
    /\ IF pcT \in FramePcs THEN frame \in Blocks /\ held = {frame}
                            ELSE held = {}
    /\ mapped # NoBlock => pcT \in FramePcs \ {"map", "send", "release"} /\ mapped = frame

\* A frame goes without a mapping only after a failed mmap.
BlockInv == pcT \in FramePcs \ {"map", "send", "release"} /\ mapped = NoBlock => faults > 0

OutputFull == OutputOf(NumOutputs)

\* What nnn_init and the frame loop have built in the slot.
SlotInv ==
    LET s == slot[0] IN
    /\ s.desc => s.loaded /\ acl = "up"
    /\ ~s.desc => s.input = NoInput /\ s.output = NoOutput
    /\ pcT \in {"none", "init", "load"} => s = EmptySlot
    /\ pcT = "desc" => s.loaded
    /\ pcT \in {"load", "desc", "undo_desc", "undo_model"} => acl = "up"
    /\ pcT \in {"desc", "undo_model", "finalize"} => ~s.desc
    /\ pcT \in InitPcs => s.input = NoInput /\ s.output = NoOutput
    /\ pcT = "prep_out" => s.desc /\ s.input = EmptyInput
    /\ pcT = "databuf" /\ s.input.ptr =>
          s.desc /\ s.input = EmptyInput /\ s.output = OutputFull
    /\ pcT \in {"exec", "result", "free_databuf"} => ReadyToExecute(0, mapped)
    /\ pcT = "free_out" => s.input = InputOn(mapped, TRUE) /\ s.output = OutputFull
    /\ pcT = "free_in"  => s.input = InputOn(mapped, TRUE) /\ s.output = NoOutput

\* Beyond what failed calls have cost, the heap holds what the frame in
\* progress has allocated so far.
Halfway == {"exec", "result", "free_databuf"}
Building(k) ==
    CASE k = "dataset" -> IF pcT \in {"prep_out", "free_in"} THEN 1
                          ELSE IF pcT \in Halfway \cup {"free_out"} \/ (pcT = "databuf" /\ slot[0].input.ptr)
                          THEN 2 ELSE 0
      [] k = "outbuf"  -> IF pcT \in Halfway \cup {"free_out"} \/ (pcT = "databuf" /\ slot[0].input.ptr)
                          THEN NumOutputs ELSE 0
      [] k = "databuf" -> IF pcT \in Halfway THEN NumOutputs + 1
                          ELSE IF pcT = "free_out" \/ (pcT = "databuf" /\ slot[0].input.ptr)
                          THEN NumOutputs ELSE 0
      [] OTHER -> 0

HeapInv ==
    /\ heap[0]["mem"] <= 1 /\ heap[0]["weight"] <= 1 /\ heap[0]["desc"] <= 1
    /\ heap[0]["inbuf"] = 0
    /\ pcT \in {"none", "init", "load"} => heap[0]["mem"] = 0 /\ heap[0]["weight"] = 0
    /\ pcT \in {"none", "init", "load", "desc"} => heap[0]["desc"] = 0
    /\ \A k \in {"dataset", "databuf", "outbuf"} :
          heap[0][k] <= Building(k) + Cost(k) * faults

IInv == /\ TypeOK /\ KeysInv /\ RouteInv /\ ShownInv /\ FrameInv /\ BlockInv
        /\ SlotInv /\ NothingFreedTwice /\ HeapInv

\* Once nnn_thd_run is cleared the main thread does not wait for ever.
JoinReturns == pcM = "join" ~> pcM # "join"

\* A signal ends the demo without another key, unless it falls between the
\* test of g_sig_flag and the read that sample_get_char blocks in.
SignalEndsDemo ==
    (sig /\ pcM \notin {"enter", "reading"}) ~> pcM \in {"done", "crashed"}

\* acl.h, on aclFinalize: "Need to call aclFinalize before the process exits."
FinalizedAtExit == pcM = "done" => acl # "up"
=============================================================================
