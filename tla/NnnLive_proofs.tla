--------------------------- MODULE NnnLive_proofs ---------------------------
(* Proofs about the live demo, for every number of blocks, outputs, keys   *)
(* and failed calls.                                                       *)
EXTENDS NnnLive, NpuModel_proofs

-----------------------------------------------------------------------------
(* What the two threads leave to each other.                               *)
LEMMA MainEffect ==
  ASSUME MainStep \/ KeyPress \/ Signal
  PROVE  /\ UNCHANGED <<acl, frame, held, mapped, npuVars>>
         /\ \/ UNCHANGED pcT
            \/ pcM = "create" /\ pcM' = "check_sig" /\ pcT' \in {"init", "none"}
<1>1. CASE MainStep
  BY <1>1 DEF MainStep, OnlyMain, threadVars, SysInit, StartVi, StartVpss, StartVo, StartVenc,
     Start, BindVi, BindOut, Bind, CreateThread, GotoM, CheckSig, EnterGetchar, ClearRun, Join,
     UnbindOut, StopVenc, StopVpss, UnbindVi, StopVi, SysExit, Stop, StopVo
<1>2. CASE KeyPress
  BY <1>2 DEF KeyPress, OnlyMain, threadVars
<1>3. CASE Signal
  BY <1>3 DEF Signal, threadVars
<1> QED BY <1>1, <1>2, <1>3

\* A step of the inference thread leaves the route alone.
LEMMA ThreadEffect ==
  ASSUME ThreadStep
  PROVE  UNCHANGED <<pcM, lost, keys, up, sig, run>>
BY DEF ThreadStep, OnlyThread, Keep, mainVars, InitResource, LoadModel, MakeDesc, UndoDesc, UndoModel,
   DestroyResource, TestRun, GetChnFrame, MapFrame, PrepareInput, PrepareOutput, PrepareUndo,
   MakeDatabuf, Execute, OutputResult, FreeDatabuf, FreeOutput, FreeInput, Unmap, Send, Release

\* The type invariant, split by the thread that changes a variable.
MainTypeOK ==
    /\ pcM \in MainPcs /\ keys \in 0..Keys /\ sig \in BOOLEAN /\ run \in BOOLEAN
    /\ up \subseteq Parts /\ lost \subseteq Parts

\* What a stop of some parts does, whether or not its calls succeed.
Lowered(here, parts, next) ==
    /\ GotoM(here, next)
    /\ up' \subseteq up /\ up \ up' \subseteq parts
    /\ up' \cap parts \subseteq lost'
    /\ lost \subseteq lost' /\ lost' \subseteq lost \cup parts
    /\ UNCHANGED <<keys, sig, run, pcT>>

LEMMA StopLowers ==
  ASSUME NEW here, NEW parts, NEW next, Stop(here, parts, next)
  PROVE  Lowered(here, parts, next) /\ UNCHANGED shown
<1>1. PICK kept \in SUBSET (parts \cap up) : up' = up \ (parts \ kept) /\ lost' = lost \cup kept
  BY DEF Stop
<1>2. GotoM(here, next) /\ UNCHANGED <<keys, sig, run, pcT, shown>>
  BY DEF Stop, OnlyMain, threadVars
<1> QED BY <1>1, <1>2 DEF Lowered

\* Each stop is one of a few parts, the ones a rung of the ladder brings up.
LEMMA Stops ==
  /\ UnbindOut => Lowered("unbind_out", {"out_bind"}, "stop_venc") /\ UNCHANGED shown
  /\ StopVenc  => Lowered("stop_venc", {"venc"}, "stop_vo") /\ UNCHANGED shown
  /\ StopVo    => /\ Lowered("stop_vo", {"vo"}, "stop_vpss")
                  /\ shown' = {} \/ (shown' = shown /\ "vo" \in lost')
  /\ StopVpss  => Lowered("stop_vpss", {"vpss"}, "unbind_vi") /\ UNCHANGED shown
  /\ UnbindVi  => Lowered("unbind_vi", {"vi_bind"}, "stop_vi") /\ UNCHANGED shown
  /\ StopVi    => Lowered("stop_vi", {"vi"}, "sys_exit") /\ UNCHANGED shown
  /\ SysExit   => Lowered("sys_exit", {"vb", "sys"}, "done") /\ UNCHANGED shown
<1>1. ASSUME StopVo
      PROVE  /\ Lowered("stop_vo", {"vo"}, "stop_vpss")
             /\ shown' = {} \/ (shown' = shown /\ "vo" \in lost')
  <2>1. GotoM("stop_vo", "stop_vpss") /\ UNCHANGED <<keys, sig, run, pcT>>
    BY <1>1 DEF StopVo, threadVars
  <2>2. CASE up' = up \ {"vo"} /\ shown' = {} /\ UNCHANGED lost
    BY <2>1, <2>2 DEF Lowered
  <2>3. CASE UNCHANGED up /\ lost' = lost \cup {"vo"} /\ shown' \in {shown, {}}
    BY <2>1, <2>3 DEF Lowered
  <2> QED BY <1>1, <2>2, <2>3 DEF StopVo
<1> QED BY <1>1, StopLowers DEF UnbindOut, StopVenc, StopVpss, UnbindVi, StopVi, SysExit

\* A step of the main thread keeps the types of what it writes.
LEMMA MainTypes ==
  ASSUME TypeOK, KeysInv, MainStep \/ KeyPress \/ Signal
  PROVE  MainTypeOK' /\ KeysInv'
<1> USE LiveAssumption DEF TypeOK, MainTypeOK, KeysInv, MainPcs, BeforeThread, BeforeVpss, GotoM
<1>1. CASE SysInit
  BY <1>1 DEF SysInit, OnlyMain, Parts
<1>2. CASE StartVi \/ StartVpss \/ StartVo \/ StartVenc
  <2>1. /\ UNCHANGED <<keys, sig, run>>
        /\ \E p \in {"vi", "vpss", "vo", "venc"} :
              up' \subseteq up \cup {p} /\ lost' \subseteq lost \cup {p}
    BY <1>2 DEF StartVi, StartVpss, StartVo, StartVenc, Start, OnlyMain
  <2>2. /\ pcM \in {"start_vi", "start_vpss", "start_vo", "start_venc"}
        /\ pcM' \in {"bind_vi", "start_vo", "start_venc", "bind_out", "sys_exit", "unbind_vi",
                     "stop_vpss", "stop_vo"}
    BY <1>2 DEF StartVi, StartVpss, StartVo, StartVenc, Start
  <2>3. up' \subseteq Parts /\ lost' \subseteq Parts
    BY <2>1 DEF Parts
  <2> QED BY <2>1, <2>2, <2>3
<1>3. CASE BindVi \/ BindOut
  <2>1. /\ UNCHANGED <<lost, keys, sig, run>>
        /\ up' \in {up, up \cup {"vi_bind"}, up \cup {"out_bind"}}
    BY <1>3 DEF BindVi, BindOut, Bind, OnlyMain
  <2>2. pcM \in {"bind_vi", "bind_out"} /\ pcM' \in {"start_vpss", "create"}
    BY <1>3 DEF BindVi, BindOut, Bind
  <2>3. up' \subseteq Parts
    BY <2>1 DEF Parts
  <2> QED BY <2>1, <2>2, <2>3
<1>4. CASE CreateThread
  BY <1>4 DEF CreateThread
<1>5. CASE EnterGetchar \/ ClearRun \/ Join
  <2>1. /\ UNCHANGED <<lost, keys, sig, up>> /\ run' \in {run, FALSE}
        /\ pcM \in {"enter", "clear", "join"}
        /\ pcM' \in {"reading", "join", "unbind_out", "crashed"}
        /\ pcM' = "reading" => pcM = "enter"
    BY <1>5 DEF EnterGetchar, ClearRun, Join, OnlyMain
  <2> QED BY <2>1
<1>6. CASE CheckSig \/ KeyPress \/ Signal
  <2>1. UNCHANGED <<lost, up, run>> /\ sig' \in {sig, TRUE}
    BY <1>6 DEF CheckSig, KeyPress, Signal, OnlyMain
  <2>2. CASE KeyDone /\ pcM \in {"check_sig", "reading"}
    <3>1. keys < Keys /\ keys \in 0..Keys
      BY <2>2
    <3>2. /\ keys' \in 0..Keys /\ pcM' \in {"check_sig", "clear"}
          /\ pcM' = "check_sig" => keys' < Keys
      BY <2>2, <3>1 DEF KeyDone
    <3> QED BY <2>1, <3>2
  <2>3. CASE keys' = keys /\ pcM' = pcM
    BY <2>1, <2>3
  <2>4. CASE keys' = keys /\ pcM = "check_sig" /\ pcM' = "enter"
    BY <2>1, <2>4
  <2> QED BY <1>6, <2>2, <2>3, <2>4 DEF CheckSig, KeyPress, Signal
<1>7. CASE UnbindOut \/ StopVenc \/ StopVo \/ StopVpss \/ UnbindVi \/ StopVi \/ SysExit
  <2>1. /\ UNCHANGED <<keys, sig, run>> /\ up' \subseteq up
        /\ \E parts \in SUBSET Parts : lost' \subseteq lost \cup parts
    BY <1>7, Stops DEF Lowered, Parts
  <2>2. /\ pcM \notin BeforeThread
        /\ pcM' \in {"stop_venc", "stop_vo", "stop_vpss", "unbind_vi", "stop_vi", "sys_exit", "done"}
    BY <1>7, Stops DEF Lowered
  <2> QED BY <2>1, <2>2
<1> QED BY <1>1, <1>2, <1>3, <1>4, <1>5, <1>6, <1>7 DEF MainStep

-----------------------------------------------------------------------------
(* The conjuncts of IInv, one lemma each.                                  *)
LEMMA RouteStep ==
  ASSUME TypeOK, RouteInv, [Next]_liveVars
  PROVE  RouteInv'
<1> USE DEF RouteInv, BeforeThread, BeforeVpss, WithThread, VpssRuns, GotoM
<1>1. CASE UNCHANGED <<pcM, up, pcT>>
  BY <1>1
<1>2. CASE SysInit
  BY <1>2 DEF SysInit, OnlyMain, threadVars
<1>3. CASE StartVi \/ StartVo \/ StartVenc
  BY <1>3 DEF StartVi, StartVo, StartVenc, Start, OnlyMain, threadVars
<1>4. CASE StartVpss
  BY <1>4 DEF StartVpss, Start, OnlyMain, threadVars
<1>5. CASE BindVi \/ BindOut
  BY <1>5 DEF BindVi, BindOut, Bind, OnlyMain, threadVars
<1>6. CASE CreateThread
  BY <1>6 DEF CreateThread
<1>7. CASE CheckSig \/ KeyPress \/ Signal \/ EnterGetchar \/ ClearRun
  BY <1>7 DEF CheckSig, KeyPress, Signal, EnterGetchar, ClearRun, KeyDone, OnlyMain, threadVars
<1>8. CASE Join
  BY <1>8 DEF Join, OnlyMain, threadVars
<1>9. CASE UnbindOut \/ StopVenc \/ StopVo \/ UnbindVi \/ StopVi \/ SysExit
  BY <1>9, Stops DEF Lowered
<1>10. CASE StopVpss
  BY <1>10, Stops DEF Lowered
<1>11. CASE ThreadStep
  <2>1. UNCHANGED <<pcM, up>>
    BY <1>11, ThreadEffect
  <2>2. pcT \notin {"none", "exited"}
    BY <1>11 DEF ThreadStep, GotoT, InitResource, LoadModel, MakeDesc, UndoDesc, UndoModel,
       DestroyResource, TestRun, GetChnFrame, MapFrame, PrepareInput, PrepareOutput, PrepareUndo,
       MakeDatabuf, Execute, OutputResult, FreeDatabuf, FreeOutput, FreeInput, Unmap, Send, Release
  <2> QED BY <2>1, <2>2
<1> QED
  BY <1>1, <1>2, <1>3, <1>4, <1>5, <1>6, <1>7, <1>8, <1>9, <1>10, <1>11
  DEF Next, MainStep, Terminated, liveVars

\* Where the display can hold a frame, and where the buffers exist.
LEMMA ShownStep ==
  ASSUME TypeOK, RouteInv, ShownInv, [Next]_liveVars
  PROVE  ShownInv'
<1> USE DEF ShownInv, WithThread, GotoM
<1>1. CASE UNCHANGED <<pcM, up, lost, shown>>
  BY <1>1
<1>2. CASE SysInit
  BY <1>2 DEF SysInit, OnlyMain
<1>3. CASE StartVi \/ StartVpss \/ StartVo \/ StartVenc
  BY <1>3 DEF StartVi, StartVpss, StartVo, StartVenc, Start, OnlyMain
<1>4. CASE BindVi \/ BindOut
  BY <1>4 DEF BindVi, BindOut, Bind, OnlyMain
<1>5. CASE CreateThread
  BY <1>5 DEF CreateThread
<1>6. CASE CheckSig \/ KeyPress \/ Signal \/ EnterGetchar \/ ClearRun \/ Join
  BY <1>6 DEF CheckSig, KeyPress, Signal, EnterGetchar, ClearRun, Join, KeyDone, OnlyMain
<1>7. CASE UnbindOut \/ StopVenc \/ StopVpss \/ UnbindVi \/ StopVi
  BY <1>7, Stops DEF Lowered
<1>8. CASE StopVo
  BY <1>8, Stops DEF Lowered
<1>9. CASE SysExit
  BY <1>9, Stops DEF Lowered
<1>10. CASE ThreadStep
  <2>1. UNCHANGED <<pcM, up, lost>>
    BY <1>10, ThreadEffect
  <2>2. pcM \in WithThread
    <3>1. pcT \notin {"none", "exited"}
      BY <1>10 DEF ThreadStep, GotoT, InitResource, LoadModel, MakeDesc, UndoDesc, UndoModel,
         DestroyResource, TestRun, GetChnFrame, MapFrame, PrepareInput, PrepareOutput, PrepareUndo,
         MakeDatabuf, Execute, OutputResult, FreeDatabuf, FreeOutput, FreeInput, Unmap, Send, Release
    <3> QED BY <3>1 DEF RouteInv
  <2> QED BY <2>1, <2>2
<1> QED
  BY <1>1, <1>2, <1>3, <1>4, <1>5, <1>6, <1>7, <1>8, <1>9, <1>10
  DEF Next, MainStep, Terminated, liveVars

\* The frame and its mapping follow from where the thread stands.
LEMMA FrameStep ==
  ASSUME TypeOK, RouteInv, FrameInv, [Next]_liveVars
  PROVE  FrameInv' /\ frame' \in Data /\ mapped' \in Data /\ held' \subseteq Blocks
         /\ shown' \subseteq Blocks
<1> USE LiveAssumption DEF TypeOK, FrameInv, FramePcs, GotoT
<1>1. CASE UNCHANGED <<pcT, frame, held, mapped>> /\ shown' \in {shown, {}}
  BY <1>1
<1>2. CASE MainStep \/ KeyPress \/ Signal
  <2>1. UNCHANGED <<frame, held, mapped>> /\ shown' \in {shown, {}}
    BY <1>2, MainEffect DEF MainStep, OnlyMain, KeyPress, Signal, SysInit, StartVi, StartVpss,
       StartVo, StartVenc, Start, BindVi, BindOut, Bind, CreateThread, CheckSig, EnterGetchar,
       ClearRun, Join, UnbindOut, StopVenc, StopVpss, UnbindVi, StopVi, SysExit, Stop, StopVo
  <2>2. UNCHANGED pcT \/ (pcT' \in {"init", "none"} /\ pcT = "none")
    BY <1>2, MainEffect DEF RouteInv, BeforeThread, BeforeVpss
  <2> QED BY <2>1, <2>2
<1>3. CASE InitResource \/ LoadModel \/ MakeDesc \/ UndoDesc \/ UndoModel \/ DestroyResource \/ TestRun
  <2>1. UNCHANGED <<frame, held, mapped, shown>>
    BY <1>3 DEF InitResource, LoadModel, MakeDesc, UndoDesc, UndoModel, DestroyResource, TestRun, NoFrame
  <2>2. /\ pcT \in InitPcs \cup {"loop"} /\ pcT' \in InitPcs \cup {"loop", "get", "exited"}
    BY <1>3 DEF InitResource, LoadModel, MakeDesc, UndoDesc, UndoModel, DestroyResource, TestRun, InitPcs
  <2> QED BY <2>1, <2>2 DEF InitPcs
<1>4. CASE GetChnFrame
  BY <1>4 DEF GetChnFrame
<1>5. CASE MapFrame
  BY <1>5 DEF MapFrame
<1>6. CASE PrepareInput \/ PrepareOutput \/ PrepareUndo \/ MakeDatabuf \/ Execute \/ OutputResult
           \/ FreeDatabuf \/ FreeOutput \/ FreeInput
  <2>1. UNCHANGED <<frame, held, mapped, shown>>
    BY <1>6 DEF PrepareInput, PrepareOutput, PrepareUndo, MakeDatabuf, Execute, OutputResult,
       FreeDatabuf, FreeOutput, FreeInput, Keep, NoFrame
  <2>2. /\ pcT \in FramePcs \ {"map", "send", "release"}
        /\ pcT' \in FramePcs \ {"map", "send", "release"}
    BY <1>6 DEF PrepareInput, PrepareOutput, PrepareUndo, MakeDatabuf, Execute, OutputResult,
       FreeDatabuf, FreeOutput, FreeInput
  <2> QED BY <2>1, <2>2
<1>7. CASE Unmap
  BY <1>7 DEF Unmap
<1>8. CASE Send
  BY <1>8 DEF Send
<1>9. CASE Release
  BY <1>9 DEF Release
<1> QED
  BY <1>1, <1>2, <1>3, <1>4, <1>5, <1>6, <1>7, <1>8, <1>9
  DEF Next, ThreadStep, Terminated, liveVars

\* No call that has failed is forgotten.
LEMMA FaultsGrow ==
  ASSUME TypeOK, [Next]_liveVars
  PROVE  faults \in Nat /\ faults' \in Nat /\ faults' >= faults
<1> USE MaxFaultsAssumption DEF Fault
<1>1. faults \in 0..MaxFaults
  BY DEF TypeOK, NpuTypeOK
<1>2. UNCHANGED faults \/ Fault
  BY MainEffect DEF Next, Terminated, liveVars, npuVars, ThreadStep, InitResource, LoadModel,
     LoadModelWithMem, MakeDesc, CreateDesc, UndoDesc, DestroyDesc, UndoModel, UnloadModel,
     DestroyResource, TestRun, GetChnFrame, MapFrame, PrepareInput, CreateInputDataset,
     PrepareOutput, CreateOutput, PrepareUndo, DestroyInputDataset, MakeDatabuf,
     CreateInputDatabuf, Execute, ModelExecute, OutputResult, FreeDatabuf, DestroyInputDatabuf,
     FreeOutput, DestroyOutput, FreeInput, Unmap, Send, Release
<1> QED BY <1>1, <1>2

\* A frame goes without a mapping only after a failed mmap.
LEMMA BlockStep ==
  ASSUME TypeOK, RouteInv, FrameInv, BlockInv, [Next]_liveVars
  PROVE  BlockInv'
<1> USE FaultsGrow DEF BlockInv, FramePcs, GotoT
<1>1. CASE UNCHANGED <<pcT, mapped>>
  BY <1>1
<1>2. CASE MainStep \/ KeyPress \/ Signal
  BY <1>2, MainEffect
<1>3. CASE MapFrame
  BY <1>3, LiveAssumption, MaxFaultsAssumption DEF MapFrame, Fault, FrameInv
<1>4. CASE ThreadStep /\ ~MapFrame
  <2>1. \/ pcT' \notin FramePcs \ {"map", "send", "release"}
        \/ pcT \in FramePcs \ {"map", "send", "release"} /\ UNCHANGED mapped
    BY <1>4 DEF ThreadStep, NoFrame, Keep, InitPcs, InitResource, LoadModel, MakeDesc, UndoDesc,
       UndoModel, DestroyResource, TestRun, GetChnFrame, PrepareInput, PrepareOutput, PrepareUndo,
       MakeDatabuf, Execute, OutputResult, FreeDatabuf, FreeOutput, FreeInput, Unmap, Send, Release
  <2> QED BY <2>1
<1> QED BY <1>1, <1>2, <1>3, <1>4 DEF Next, Terminated, liveVars

\* What entry 0 holds follows from where the inference thread stands.
LEMMA SlotStep ==
  ASSUME TypeOK, RouteInv, FrameInv, SlotInv, [Next]_liveVars
  PROVE  SlotInv' /\ NpuTypeOK' /\ pcT' \in ThreadPcs /\ acl' \in {"down", "up", "final"}
<1> USE DEF GotoT
<1> DEFINE Goal == SlotInv' /\ NpuTypeOK' /\ pcT' \in ThreadPcs /\ acl' \in {"down", "up", "final"}
<1>0. NpuTypeOK /\ slot[0] \in SlotType /\ mapped \in Data
  BY SlotZero DEF TypeOK
<1>1. CASE UNCHANGED <<pcT, acl, mapped, npuVars>>
  BY <1>1 DEF SlotInv, TypeOK, NpuTypeOK, npuVars, ReadyToExecute
<1>2. CASE MainStep \/ KeyPress \/ Signal
  <2>1. CASE UNCHANGED pcT
    BY <1>1, <1>2, <2>1, MainEffect
  <2>2. CASE pcT = "none" /\ pcT' \in {"init", "none"}
    <3>1. UNCHANGED <<acl, mapped, slot, heap, faults>>
      BY <1>2, MainEffect DEF npuVars
    <3>2. /\ slot[0] = EmptySlot /\ ~slot[0].desc
          /\ slot[0].input = NoInput /\ slot[0].output = NoOutput
      BY <2>2 DEF SlotInv, EmptySlot
    <3>3. SlotInv'
      BY <2>2, <3>1, <3>2 DEF SlotInv, InitPcs
    <3>4. NpuTypeOK' /\ pcT' \in ThreadPcs /\ acl' \in {"down", "up", "final"}
      BY <2>2, <3>1 DEF TypeOK, NpuTypeOK, ThreadPcs, InitPcs
    <3> QED BY <3>3, <3>4
  <2> QED BY <1>2, <2>1, <2>2, MainEffect DEF RouteInv, BeforeThread
<1>3. CASE InitResource
  <2>1. UNCHANGED <<slot, heap>> /\ faults' \in 0..MaxFaults
    BY <1>3, <1>0, FaultEffect DEF InitResource, NpuTypeOK
  <2>2. pcT = "init" /\ <<pcT', acl'>> \in {<<"load", "up">>, <<"loop", "final">>}
    BY <1>3 DEF InitResource
  <2>3. /\ slot[0] = EmptySlot /\ ~slot[0].desc
        /\ slot[0].input = NoInput /\ slot[0].output = NoOutput
    BY <2>2 DEF SlotInv, EmptySlot
  <2>4. SlotInv'
    BY <2>1, <2>2, <2>3 DEF SlotInv, InitPcs
  <2> QED BY <1>0, <2>1, <2>2, <2>4 DEF ThreadPcs, InitPcs, NpuTypeOK
<1>4. CASE LoadModel
  BY <1>4, <1>0, FaultEffect, LoadEffect DEF LoadModel, SlotInv, ThreadPcs, InitPcs, SlotType, EmptySlot, npuVars, NpuTypeOK
<1>5. CASE MakeDesc
  BY <1>5, <1>0, CreateDescEffect DEF MakeDesc, SlotInv, ThreadPcs, InitPcs, SlotType, EmptySlot
<1>6. CASE UndoDesc
  BY <1>6, <1>0, DestroyDescEffect DEF UndoDesc, SlotInv, ThreadPcs, InitPcs, SlotType
<1>7. CASE UndoModel
  BY <1>7, <1>0, UnloadEffect DEF UndoModel, SlotInv, ThreadPcs, InitPcs, SlotType
<1>8. CASE DestroyResource
  BY <1>8, <1>0 DEF DestroyResource, SlotInv, ThreadPcs, InitPcs, npuVars, NpuTypeOK
<1>9. CASE TestRun \/ GetChnFrame \/ MapFrame \/ Unmap \/ Send \/ Release \/ OutputResult
  BY <1>9, <1>0, FaultEffect DEF TestRun, GetChnFrame, MapFrame, Unmap, Send, Release, OutputResult, Keep, NoFrame, 
    SlotInv, ThreadPcs, InitPcs, FramePcs, npuVars, NpuTypeOK, TypeOK, ReadyToExecute
<1>10. CASE PrepareInput
  <2>1. pcT = "prep_in" /\ UNCHANGED <<acl, mapped>>
    BY <1>10 DEF PrepareInput, Keep, NoFrame
  <2>2. NpuTypeOK' /\ pcT' \in {"prep_out", "databuf"}
    BY <1>10, <1>0, CreateInputDatasetEffect DEF PrepareInput
  <2>3. CASE pcT' = "prep_out"
    <3>1. slot[0].desc /\ slot'[0] = [slot[0] EXCEPT !.input = EmptyInput]
      BY <1>10, <1>0, <2>3, CreateInputDatasetEffect DEF PrepareInput
    <3> QED BY <1>0, <2>1, <2>2, <2>3, <3>1 DEF SlotInv, SlotType, ThreadPcs, InitPcs, FramePcs, TypeOK
  <2>4. CASE pcT' = "databuf"
    <3>1. \/ ~slot[0].desc /\ slot'[0] = slot[0]
          \/ slot[0].desc /\ slot'[0] = [slot[0] EXCEPT !.input = NoInput]
      BY <1>10, <1>0, <2>4, CreateInputDatasetEffect DEF PrepareInput, npuVars
    <3>2. ~slot'[0].input.ptr
      BY <1>0, <3>1 DEF SlotInv, SlotType, NoInput
    <3> QED BY <1>0, <2>1, <2>2, <2>4, <3>1, <3>2 DEF SlotInv, SlotType, ThreadPcs, InitPcs, FramePcs, TypeOK
  <2> QED BY <2>2, <2>3, <2>4
<1>11. CASE PrepareOutput
  <2>1. pcT = "prep_out" /\ UNCHANGED <<acl, mapped>>
    BY <1>11 DEF PrepareOutput, Keep, NoFrame
  <2>2. NpuTypeOK' /\ pcT' \in {"databuf", "prep_undo"}
    BY <1>11, <1>0, CreateOutputEffect DEF PrepareOutput
  <2>3. slot[0].desc /\ slot[0].input = EmptyInput
    BY <2>1 DEF SlotInv
  <2>4. CASE pcT' = "databuf"
    <3>1. slot'[0] = [slot[0] EXCEPT !.output = OutputFull]
      BY <1>11, <1>0, <2>3, <2>4, CreateOutputEffect DEF PrepareOutput, OutputFull
    <3> QED BY <1>0, <2>1, <2>2, <2>3, <2>4, <3>1 DEF SlotInv, SlotType, ThreadPcs, InitPcs, FramePcs, TypeOK
  <2>5. CASE pcT' = "prep_undo"
    <3>1. \E out : slot'[0] = [slot[0] EXCEPT !.output = out]
      BY <1>11, <1>0, <2>3, <2>5, CreateOutputEffect DEF PrepareOutput
    <3> QED BY <1>0, <2>1, <2>2, <2>3, <2>5, <3>1 DEF SlotInv, SlotType, ThreadPcs, InitPcs, FramePcs, TypeOK
  <2> QED BY <2>2, <2>4, <2>5
<1>12. CASE PrepareUndo
  <2>1. /\ pcT = "prep_undo" /\ pcT' = "databuf" /\ UNCHANGED <<acl, mapped>>
        /\ NpuTypeOK' /\ slot'[0] = [slot[0] EXCEPT !.input = NoInput]
    BY <1>12, <1>0, DestroyInputDatasetEffect DEF PrepareUndo, Keep, NoFrame
  <2>2. ~slot'[0].input.ptr
    BY <1>0, <2>1 DEF SlotType, NoInput
  <2> QED BY <1>0, <2>1, <2>2 DEF SlotInv, SlotType, ThreadPcs, InitPcs, FramePcs, TypeOK
<1>13. CASE MakeDatabuf
  <2>1. pcT = "databuf" /\ UNCHANGED <<acl, mapped>>
    BY <1>13 DEF MakeDatabuf, Keep, NoFrame
  <2>2. NpuTypeOK' /\ pcT' \in {"exec", "unmap"}
    BY <1>13, <1>0, CreateDatabufEffect DEF MakeDatabuf
  <2>3. CASE pcT' = "exec"
    <3>1. /\ slot[0].desc /\ slot[0].input.ptr
          /\ slot'[0] = [slot[0] EXCEPT !.input.bufs = Append(@, mapped)]
      BY <1>13, <1>0, <2>3, CreateDatabufEffect DEF MakeDatabuf
    <3>2. slot[0].input = EmptyInput /\ slot[0].output = OutputFull /\ slot[0].loaded
      BY <2>1, <3>1 DEF SlotInv
    <3>3. [EmptyInput EXCEPT !.bufs = Append(@, mapped)] = InputOn(mapped, FALSE)
      <4> DEFINE x == [EmptyInput EXCEPT !.bufs = Append(@, mapped)]
      <4>1. /\ EmptyInput.ptr /\ EmptyInput.bufs = <<>> /\ ~EmptyInput.dangling
            /\ EmptyInput \in InputType
        BY EmptyTypes DEF EmptyInput, NoInput
      <4>2. Append(<<>>, mapped) = <<mapped>> /\ <<mapped>> \in Seq(Data)
        BY <1>0
      <4>3. x \in InputType /\ x.ptr /\ x.bufs = <<mapped>> /\ ~x.dangling
        BY <4>1, <4>2 DEF InputType
      <4>4. x = InputOn(mapped, FALSE)
        <5> HIDE DEF x
        <5> QED BY <1>0, <4>3, SameInput
      <4> QED BY <4>4
    <3>4. slot'[0] = [slot[0] EXCEPT !.input = InputOn(mapped, FALSE)]
      BY <3>1, <3>2, <3>3
    <3>5. ReadyToExecute(0, mapped)'
      BY <1>0, <2>1, <3>1, <3>2, <3>4 DEF ReadyToExecute, InputOn, SlotType, OutputFull
    <3> QED BY <1>0, <2>1, <2>2, <2>3, <3>1, <3>4, <3>5 DEF SlotInv, SlotType, ThreadPcs, InitPcs, FramePcs, TypeOK
  <2>4. CASE pcT' = "unmap"
    <3>1. slot' = slot
      BY <1>13, <1>0, <2>4, CreateDatabufEffect DEF MakeDatabuf, npuVars
    <3> QED BY <1>0, <2>1, <2>2, <2>4, <3>1 DEF SlotInv, ThreadPcs, InitPcs, FramePcs, TypeOK
  <2> QED BY <2>2, <2>3, <2>4
<1>14. CASE Execute
  <2>1. /\ UNCHANGED <<acl, mapped, slot, heap>> /\ faults' \in 0..MaxFaults
        /\ pcT = "exec" /\ pcT' \in {"result", "unmap"}
    BY <1>14, <1>0, FaultEffect DEF Execute, ModelExecute, Keep, NoFrame, NpuTypeOK
  <2> QED BY <1>0, <2>1 DEF SlotInv, ThreadPcs, InitPcs, FramePcs, TypeOK, NpuTypeOK, ReadyToExecute
<1>15. CASE FreeDatabuf
  <2>1. /\ UNCHANGED <<acl, mapped>> /\ pcT = "free_databuf" /\ pcT' = "free_out" /\ NpuTypeOK'
        /\ slot'[0] = IF slot[0].input.bufs = <<>> THEN slot[0]
                      ELSE [slot[0] EXCEPT !.input.dangling = TRUE]
    BY <1>15, <1>0, DestroyDatabufEffect DEF FreeDatabuf, Keep, NoFrame
  <2>2. ReadyToExecute(0, mapped)
    BY <2>1 DEF SlotInv
  <2>3. slot'[0] = [slot[0] EXCEPT !.input = InputOn(mapped, TRUE)]
    <3> DEFINE x == [slot[0].input EXCEPT !.dangling = TRUE]
    <3>1. slot[0].input = InputOn(mapped, FALSE)
      BY <2>2 DEF ReadyToExecute, InputOn
    <3>2. slot'[0] = [slot[0] EXCEPT !.input = x]
      <4>1. slot[0].input.bufs = <<mapped>>
        BY <1>0, <3>1, InputOnType
      <4>2. <<mapped>> # <<>>
        OBVIOUS
      <4> QED BY <2>1, <4>1, <4>2
    <3>3. x \in InputType /\ x.ptr /\ x.bufs = <<mapped>> /\ x.dangling
      BY <1>0, <3>1, InputOnType DEF InputType
    <3>4. x = InputOn(mapped, TRUE)
      <4> HIDE DEF x
      <4> QED BY <1>0, <3>3, SameInput
    <3> QED BY <3>2, <3>4
  <2> QED BY <1>0, <2>1, <2>2, <2>3 DEF SlotInv, SlotType, ThreadPcs, InitPcs, FramePcs, TypeOK,
       ReadyToExecute, OutputFull
<1>16. CASE FreeOutput
  <2>1. /\ UNCHANGED <<acl, mapped>> /\ pcT = "free_out" /\ pcT' = "free_in" /\ NpuTypeOK'
        /\ slot'[0] = [slot[0] EXCEPT !.output = NoOutput]
    BY <1>16, <1>0, DestroyOutputEffect DEF FreeOutput, Keep, NoFrame
  <2> QED BY <1>0, <2>1 DEF SlotInv, SlotType, ThreadPcs, InitPcs, FramePcs, TypeOK
<1>17. CASE FreeInput
  <2>1. /\ UNCHANGED <<acl, mapped>> /\ pcT = "free_in" /\ pcT' = "unmap" /\ NpuTypeOK'
        /\ slot'[0] = [slot[0] EXCEPT !.input = NoInput]
    BY <1>17, <1>0, DestroyInputDatasetEffect DEF FreeInput, Keep, NoFrame
  <2> QED BY <1>0, <2>1 DEF SlotInv, SlotType, ThreadPcs, InitPcs, FramePcs, TypeOK
<1> QED
  BY <1>1, <1>2, <1>3, <1>4, <1>5, <1>6, <1>7, <1>8, <1>9, <1>10, <1>11, <1>12, <1>13, <1>14,
     <1>15, <1>16, <1>17 DEF Next, ThreadStep, Terminated, liveVars, npuVars

\* What failed calls may have cost so far.
Spent(k) == Cost(k) * faults

\* The allowance of leaks grows by its cost with each fault.
LEMMA SpentGrows ==
  ASSUME NpuTypeOK, NEW k \in {"dataset", "databuf", "outbuf"}
  PROVE  /\ Cost(k) \in Nat /\ Spent(k) \in Nat
         /\ UNCHANGED faults => Spent(k)' = Spent(k)
         /\ Fault => Spent(k)' = Spent(k) + Cost(k)
<1>1. Cost(k) \in Nat
  BY NumOutputsAssumption DEF Cost
<1>2. faults \in Nat
  BY MaxFaultsAssumption DEF NpuTypeOK
<1>3. \A c, f \in Nat : c * f \in Nat /\ c * (f + 1) = c * f + c
  OBVIOUS
<1>4. Cost(k)' = Cost(k)
  BY DEF Cost
<1> QED BY <1>1, <1>2, <1>3, <1>4 DEF Spent, Fault

\* What one fault may cost of each kind.
LEMMA CostIs ==
  /\ Cost("dataset") = 2 /\ Cost("databuf") = NumOutputs + 1 /\ Cost("outbuf") = NumOutputs
  /\ NumOutputs \in Nat /\ NumOutputs > 0
BY NumOutputsAssumption DEF Cost

\* The two invariants about the heap, kind by kind.
OwnedFlat(s, h) ==
    /\ Bit(s.mem) <= h["mem"] /\ Bit(s.weight) <= h["weight"] /\ Bit(s.desc) <= h["desc"]
    /\ Bit(s.input.ptr) + Bit(s.output.ptr) <= h["dataset"]
    /\ s.output.n + (IF s.input.dangling THEN 0 ELSE Len(s.input.bufs)) <= h["databuf"]
    /\ s.output.n <= h["outbuf"]
    /\ 0 <= h["inbuf"]

HeapFlat ==
    /\ heap[0]["mem"] <= 1 /\ heap[0]["weight"] <= 1 /\ heap[0]["desc"] <= 1
    /\ heap[0]["inbuf"] = 0
    /\ pcT \in {"none", "init", "load"} => heap[0]["mem"] = 0 /\ heap[0]["weight"] = 0
    /\ pcT \in {"none", "init", "load", "desc"} => heap[0]["desc"] = 0
    /\ heap[0]["dataset"] <= Building("dataset") + Spent("dataset")
    /\ heap[0]["databuf"] <= Building("databuf") + Spent("databuf")
    /\ heap[0]["outbuf"]  <= Building("outbuf")  + Spent("outbuf")

\* The bound on the counters, kind by kind.
LEMMA FlatIs ==
  /\ NothingFreedTwice <=> OwnedFlat(slot[0], heap[0])
  /\ NothingFreedTwice' <=> OwnedFlat(slot'[0], heap'[0])
  /\ HeapInv <=> HeapFlat
  /\ HeapInv' <=> HeapFlat'
<1>1. ASSUME NEW s, NEW h
      PROVE  (\A k \in Kinds : Owned(s)[k] <= h[k]) <=> OwnedFlat(s, h)
  BY DEF Owned, OwnedFlat, Kinds
<1>2. HeapInv <=> HeapFlat
  BY DEF HeapInv, HeapFlat, Spent
<1>3. HeapInv' <=> HeapFlat'
  BY DEF HeapInv, HeapFlat, Spent
<1> QED BY <1>1, <1>2, <1>3 DEF NothingFreedTwice

\* Steps that leave the table and the heap alone.
QuietPcs == ThreadPcs \ (Halfway \cup {"free_out", "prep_out", "free_in", "databuf"})

\* Outside data-set handling nothing is in construction.
LEMMA BuildingQuiet ==
  ASSUME NEW k \in {"dataset", "databuf", "outbuf"}
  PROVE  /\ pcT \in QuietPcs => Building(k) = 0
         /\ pcT' \in QuietPcs => Building(k)' = 0
BY DEF Building, QuietPcs, Halfway

\* Steps outside data-set handling leave the counters in bounds.
LEMMA QuietStep ==
  ASSUME TypeOK, HeapInv, NothingFreedTwice, UNCHANGED <<slot, heap>>, UNCHANGED faults \/ Fault,
         \/ UNCHANGED pcT
         \/ pcT' \in QuietPcs /\ pcT' \notin {"none", "init", "load", "desc"}
            /\ (pcT \in QuietPcs \/ Fault)
         \/ pcT \in {"none", "init", "load"} /\ pcT' \in {"none", "init", "load"}
         \/ pcT \in Halfway /\ pcT' \in Halfway
  PROVE  NothingFreedTwice' /\ HeapInv'
<1> DEFINE K == {"dataset", "databuf", "outbuf"}
<1>1. NpuTypeOK /\ heap[0] \in [Kinds -> Int]
  BY SlotZero DEF TypeOK
<1>2. \A k \in K : /\ Spent(k) \in Nat /\ Cost(k) \in Nat /\ heap[0][k] \in Int
                   /\ Spent(k)' \in {Spent(k), Spent(k) + Cost(k)}
                   /\ Fault => Spent(k)' = Spent(k) + Cost(k)
  BY <1>1, SpentGrows, KindsHas
<1>3. \A k \in K : heap[0][k] <= Building(k) + Spent(k)
  BY DEF HeapInv, Spent
<1>4. \A k \in K : /\ Building(k) \in Nat /\ Building(k) <= Cost(k)
                   /\ Building(k)' \in Nat
                   /\ pcT \in QuietPcs => Building(k) = 0
                   /\ Building(k)' = Building(k) \/ (pcT' \in QuietPcs /\ Fault)
  BY CostIs DEF Building, QuietPcs, Halfway
<1>5. \A k \in K : heap[0][k] <= Building(k)' + Spent(k)'
  BY <1>2, <1>3, <1>4
<1>6. NothingFreedTwice'
  BY DEF NothingFreedTwice
<1> QED BY <1>5, <1>6 DEF HeapInv, Spent, QuietPcs, Halfway

\* Loading and unloading touch no data set.
LEMMA QuietData ==
  ASSUME NpuTypeOK, HeapInv, UNCHANGED faults \/ Fault, pcT \in QuietPcs, pcT' \in QuietPcs,
         \A k \in {"dataset", "databuf", "outbuf"} : heap'[0][k] = heap[0][k]
  PROVE  \A k \in {"dataset", "databuf", "outbuf"} : heap'[0][k] <= Building(k)' + Spent(k)'
<1> SUFFICES ASSUME NEW k \in {"dataset", "databuf", "outbuf"}
             PROVE  heap'[0][k] <= Building(k)' + Spent(k)'
  OBVIOUS
<1>1. /\ Spent(k) \in Nat /\ Cost(k) \in Nat
      /\ Spent(k)' = Spent(k) \/ Spent(k)' = Spent(k) + Cost(k)
  BY SpentGrows
<1>2. heap[0][k] \in Int /\ heap[0][k] <= Building(k) + Spent(k)
  BY SlotZero, KindsHas DEF HeapInv, Spent
<1>3. Building(k) = 0 /\ Building(k)' = 0
  BY BuildingQuiet
<1> QED BY <1>1, <1>2, <1>3

\* nnn_execute touches nothing but data sets and their buffers.
Pending(in) == IF in.dangling THEN 0 ELSE Len(in.bufs)

DataOwned(s, h) ==
    /\ Bit(s.input.ptr) + Bit(s.output.ptr) <= h["dataset"]
    /\ s.output.n + Pending(s.input) <= h["databuf"]
    /\ s.output.n <= h["outbuf"]

\* What the records of the data sets count for.
LEMMA PendingIs ==
  /\ Bit(NoInput.ptr) = 0 /\ Pending(NoInput) = 0
  /\ Bit(EmptyInput.ptr) = 1 /\ Pending(EmptyInput) = 0
  /\ Bit(NoOutput.ptr) = 0 /\ NoOutput.n = 0
  /\ \A data : /\ Bit(InputOn(data, FALSE).ptr) = 1 /\ Pending(InputOn(data, FALSE)) = 1
               /\ Bit(InputOn(data, TRUE).ptr) = 1 /\ Pending(InputOn(data, TRUE)) = 0
  /\ \A n : Bit(OutputOf(n).ptr) = 1 /\ OutputOf(n).n = n
<1>1. Len(<<>>) = 0 /\ \A data : Len(<<data>>) = 1
  OBVIOUS
<1> QED BY <1>1 DEF Bit, Pending, NoInput, EmptyInput, NoOutput, InputOn, OutputOf

\* What entry 0 holds is a natural number.
LEMMA PendingType ==
  ASSUME NpuTypeOK
  PROVE  /\ Pending(slot[0].input) \in Nat /\ slot[0].output.n \in Nat
         /\ Bit(slot[0].input.ptr) \in {0, 1} /\ Bit(slot[0].output.ptr) \in {0, 1}
         /\ ~slot[0].output.ptr => Bit(slot[0].output.ptr) = 0
<1>1. slot[0].input \in InputType /\ slot[0].output \in OutputType
  BY SlotZero DEF SlotType
<1>2. Len(slot[0].input.bufs) \in Nat
  BY <1>1 DEF InputType
<1> QED BY <1>1, <1>2, NumOutputsAssumption DEF Pending, Bit, OutputType

DataBound ==
    /\ heap[0]["dataset"] <= Building("dataset") + Spent("dataset")
    /\ heap[0]["databuf"] <= Building("databuf") + Spent("databuf")
    /\ heap[0]["outbuf"]  <= Building("outbuf")  + Spent("outbuf")

\* A step that touches the data sets keeps the counters in bounds.
LEMMA DataStep ==
  ASSUME NothingFreedTwice, HeapInv, pcT' \in FramePcs,
         NEW in, NEW out, slot[0] \in SlotType,
         slot'[0] = [slot[0] EXCEPT !.input = in, !.output = out],
         \A k \in {"mem", "weight", "desc", "inbuf"} : heap'[0][k] = heap[0][k],
         DataOwned(slot'[0], heap'[0]), DataBound'
  PROVE  NothingFreedTwice' /\ HeapInv'
<1>1. OwnedFlat(slot[0], heap[0]) /\ HeapFlat
  BY FlatIs
<1>2. /\ slot'[0].mem = slot[0].mem /\ slot'[0].weight = slot[0].weight
      /\ slot'[0].desc = slot[0].desc
  BY DEF SlotType
<1>3. OwnedFlat(slot'[0], heap'[0])
  BY <1>1, <1>2 DEF OwnedFlat, DataOwned, Pending
<1>4. HeapFlat'
  BY <1>1 DEF HeapFlat, DataBound, FramePcs
<1> QED BY <1>3, <1>4, FlatIs

\* Every step of either thread keeps the counters in bounds.
LEMMA HeapStep ==
  ASSUME TypeOK, RouteInv, SlotInv, NothingFreedTwice, HeapInv, [Next]_liveVars, SlotInv'
  PROVE  NothingFreedTwice' /\ HeapInv'
<1> USE DEF GotoT
<1> DEFINE K == {"dataset", "databuf", "outbuf"}
<1>0. NpuTypeOK /\ slot[0] \in SlotType /\ heap[0] \in [Kinds -> Int] /\ mapped \in Data
  BY SlotZero DEF TypeOK
<1>1. OwnedFlat(slot[0], heap[0]) /\ HeapFlat
  BY FlatIs
<1>2. \A k \in K :
         /\ Spent(k) \in Nat
         /\ UNCHANGED faults => Spent(k)' = Spent(k)
         /\ Fault => Spent(k)' = Spent(k) + Cost(k)
  BY <1>0, SpentGrows
<1>3. CASE UNCHANGED <<pcT, slot, heap, faults>>
  BY <1>3, QuietStep
<1>4. CASE MainStep \/ KeyPress \/ Signal
  <2>1. UNCHANGED <<slot, heap, faults>>
    BY <1>4, MainEffect DEF npuVars
  <2>2. UNCHANGED pcT \/ (pcT = "none" /\ pcT' \in {"init", "none"})
    BY <1>4, MainEffect DEF RouteInv, BeforeThread
  <2> QED BY <2>1, <2>2, QuietStep
<1>5. CASE InitResource
  BY <1>5, QuietStep DEF InitResource, QuietPcs, ThreadPcs, InitPcs, Halfway
<1>6. CASE LoadModel
  <2>1. pcT = "load" /\ pcT' \in {"desc", "undo_desc", "loop"} /\ slot[0] = EmptySlot
    BY <1>6 DEF LoadModel, SlotInv
  <2>2. CASE UNCHANGED <<slot, heap>> /\ (UNCHANGED faults \/ Fault) /\ pcT' # "desc"
    BY <2>1, <2>2, QuietStep DEF QuietPcs, ThreadPcs, InitPcs, Halfway
  <2>3. CASE /\ UNCHANGED faults \/ Fault
             /\ \/ /\ pcT' = "undo_desc" /\ heap'[0] = [heap[0] EXCEPT !["mem"] = @ + 1]
                   /\ slot'[0] = [slot[0] EXCEPT !.mem = TRUE]
                \/ /\ heap'[0] = [heap[0] EXCEPT !["mem"] = @ + 1, !["weight"] = @ + 1]
                   /\ \E ok \in BOOLEAN :
                        slot'[0] = [slot[0] EXCEPT !.mem = TRUE, !.weight = TRUE, !.loaded = ok]
    <3>1. OwnedFlat(slot'[0], heap'[0])
      <4>1. ~slot[0].mem /\ ~slot[0].weight
        BY <2>1 DEF EmptySlot
      <4>2. CASE /\ heap'[0] = [heap[0] EXCEPT !["mem"] = @ + 1]
                 /\ slot'[0] = [slot[0] EXCEPT !.mem = TRUE]
        BY <1>0, <1>1, <4>1, <4>2 DEF OwnedFlat, Kinds, SlotType, Bit
      <4>3. ASSUME heap'[0] = [heap[0] EXCEPT !["mem"] = @ + 1, !["weight"] = @ + 1],
                   NEW ok \in BOOLEAN,
                   slot'[0] = [slot[0] EXCEPT !.mem = TRUE, !.weight = TRUE, !.loaded = ok]
            PROVE  OwnedFlat(slot'[0], heap'[0])
        BY <1>0, <1>1, <4>1, <4>3 DEF OwnedFlat, Kinds, SlotType, Bit
      <4> QED BY <2>3, <4>2, <4>3
    <3>2. \A k \in K : heap'[0][k] <= Building(k)' + Spent(k)'
      <4>1. \A k \in K : heap'[0][k] = heap[0][k]
        BY <1>0, <2>3 DEF Kinds
      <4> QED BY <1>0, <2>1, <2>3, <4>1, QuietData DEF QuietPcs, ThreadPcs, InitPcs, Halfway
    <3>3. HeapFlat'
      <4>1. heap'[0]["mem"] <= 1 /\ heap'[0]["weight"] <= 1 /\ heap'[0]["desc"] <= 1
        <5>1. heap[0]["mem"] = 0 /\ heap[0]["weight"] = 0 /\ heap[0]["desc"] = 0
          BY <1>1, <2>1 DEF HeapFlat
        <5>2. \/ heap'[0] = [heap[0] EXCEPT !["mem"] = @ + 1]
              \/ heap'[0] = [heap[0] EXCEPT !["mem"] = @ + 1, !["weight"] = @ + 1]
          BY <2>3
        <5> QED BY <1>0, <5>1, <5>2 DEF Kinds
      <4>2. heap'[0]["inbuf"] = 0 /\ heap'[0]["desc"] = 0
        BY <1>0, <1>1, <2>1, <2>3 DEF HeapFlat, Kinds
      <4> QED BY <2>1, <3>2, <4>1, <4>2 DEF HeapFlat
    <3> QED BY <3>1, <3>3, FlatIs
  <2> QED BY <1>0, <1>6, <2>1, <2>2, <2>3, LoadEffect DEF LoadModel, npuVars
<1>7. CASE MakeDesc
  <2>1. pcT = "desc" /\ pcT' \in {"loop", "undo_desc"} /\ ~slot[0].desc
    BY <1>7 DEF MakeDesc, SlotInv
  <2>2. /\ UNCHANGED faults \/ Fault
        /\ \/ slot'[0] = [slot[0] EXCEPT !.desc = FALSE] /\ heap'[0] = heap[0]
           \/ /\ slot'[0] = [slot[0] EXCEPT !.desc = TRUE]
              /\ heap'[0] = [heap[0] EXCEPT !["desc"] = @ + 1]
    BY <1>0, <1>7, CreateDescEffect DEF MakeDesc
  <2>3. OwnedFlat(slot'[0], heap'[0])
    <3>1. CASE slot'[0] = [slot[0] EXCEPT !.desc = FALSE] /\ heap'[0] = heap[0]
      BY <1>0, <1>1, <2>1, <3>1 DEF OwnedFlat, Kinds, SlotType, Bit
    <3>2. CASE slot'[0] = [slot[0] EXCEPT !.desc = TRUE] /\ heap'[0] = [heap[0] EXCEPT !["desc"] = @ + 1]
      BY <1>0, <1>1, <2>1, <3>2 DEF OwnedFlat, Kinds, SlotType, Bit
    <3> QED BY <2>2, <3>1, <3>2
  <2>4. \A k \in K : heap'[0][k] <= Building(k)' + Spent(k)'
    <3>1. \A k \in K : heap'[0][k] = heap[0][k]
      BY <1>0, <2>2 DEF Kinds
    <3> QED BY <1>0, <2>1, <2>2, <3>1, QuietData DEF QuietPcs, ThreadPcs, InitPcs, Halfway
  <2>5. HeapFlat'
    <3>1. heap'[0]["mem"] <= 1 /\ heap'[0]["weight"] <= 1 /\ heap'[0]["desc"] <= 1
      BY <1>0, <1>1, <2>1, <2>2 DEF HeapFlat, Kinds
    <3>2. heap'[0]["inbuf"] = 0
      BY <1>0, <1>1, <2>1, <2>2 DEF HeapFlat, Kinds
    <3> QED BY <2>1, <2>4, <3>1, <3>2 DEF HeapFlat
  <2> QED BY <2>3, <2>5, FlatIs
<1>8. CASE UndoDesc
  <2>1. pcT = "undo_desc" /\ pcT' = "undo_model"
    BY <1>8 DEF UndoDesc
  <2>2. /\ UNCHANGED faults
        /\ slot'[0] = [slot[0] EXCEPT !.desc = FALSE]
        /\ heap'[0] = [heap[0] EXCEPT !["desc"] = @ - Bit(slot[0].desc)]
    BY <1>0, <1>8, DestroyDescEffect DEF UndoDesc
  <2>3. OwnedFlat(slot'[0], heap'[0])
    BY <1>0, <1>1, <2>1, <2>2 DEF OwnedFlat, Kinds, SlotType, Bit
  <2>4. HeapFlat'
    BY <1>0, <1>1, <1>2, <2>1, <2>2, CostIs DEF HeapFlat, Kinds, Building, Halfway, Bit
  <2> QED BY <2>3, <2>4, FlatIs
<1>9. CASE UndoModel
  <2>1. pcT = "undo_model" /\ pcT' = "finalize"
    BY <1>9 DEF UndoModel
  <2>2. CASE UNCHANGED <<slot, heap, faults>>
    BY <2>1, <2>2, QuietStep DEF QuietPcs, ThreadPcs, InitPcs, Halfway
  <2>3. CASE /\ UNCHANGED faults
             /\ slot'[0] = [slot[0] EXCEPT !.mem = FALSE, !.weight = FALSE,
                                           !.desc = FALSE, !.loaded = FALSE]
             /\ heap'[0] = [heap[0] EXCEPT !["mem"] = @ - Bit(slot[0].mem),
                                           !["weight"] = @ - Bit(slot[0].weight),
                                           !["desc"] = @ - Bit(slot[0].desc)]
    <3>1. OwnedFlat(slot'[0], heap'[0])
      <4>1. /\ ~slot'[0].mem /\ ~slot'[0].weight /\ ~slot'[0].desc
            /\ slot'[0].input = slot[0].input /\ slot'[0].output = slot[0].output
        BY <1>0, <2>3 DEF SlotType
      <4>2. /\ heap'[0]["mem"] = heap[0]["mem"] - Bit(slot[0].mem)
            /\ heap'[0]["weight"] = heap[0]["weight"] - Bit(slot[0].weight)
            /\ heap'[0]["desc"] = heap[0]["desc"] - Bit(slot[0].desc)
            /\ \A k \in K \cup {"inbuf"} : heap'[0][k] = heap[0][k]
        BY <1>0, <2>3 DEF Kinds
      <4>3. 0 <= heap'[0]["mem"] /\ 0 <= heap'[0]["weight"] /\ 0 <= heap'[0]["desc"]
        BY <1>0, <1>1, <4>2, KindsHas DEF OwnedFlat, Bit
      <4>4. Bit(slot'[0].mem) = 0 /\ Bit(slot'[0].weight) = 0 /\ Bit(slot'[0].desc) = 0
        BY <4>1 DEF Bit
      <4> QED BY <1>1, <4>1, <4>2, <4>3, <4>4 DEF OwnedFlat
    <3>2. \A k \in K : heap'[0][k] <= Building(k)' + Spent(k)'
      <4>1. \A k \in K : heap'[0][k] = heap[0][k]
        BY <1>0, <2>3 DEF Kinds
      <4> QED BY <1>0, <2>1, <2>3, <4>1, QuietData DEF QuietPcs, ThreadPcs, InitPcs, Halfway
    <3>3. HeapFlat'
      <4>1. heap'[0]["mem"] <= 1 /\ heap'[0]["weight"] <= 1 /\ heap'[0]["desc"] <= 1
        BY <1>0, <1>1, <2>3 DEF HeapFlat, Kinds, Bit
      <4>2. heap'[0]["inbuf"] = 0
        BY <1>0, <1>1, <2>3 DEF HeapFlat, Kinds, Bit
      <4> QED BY <2>1, <3>2, <4>1, <4>2 DEF HeapFlat
    <3> QED BY <3>1, <3>3, FlatIs
  <2> QED BY <1>0, <1>9, <2>2, <2>3, UnloadEffect DEF UndoModel
<1>10. CASE DestroyResource
  BY <1>10, QuietStep DEF DestroyResource, QuietPcs, ThreadPcs, InitPcs, Halfway, npuVars
<1>11. CASE TestRun \/ GetChnFrame \/ MapFrame \/ Unmap \/ Send \/ Release \/ OutputResult
  <2>1. UNCHANGED <<slot, heap>> /\ (UNCHANGED faults \/ Fault)
    BY <1>11 DEF TestRun, GetChnFrame, MapFrame, Unmap, Send, Release, OutputResult, npuVars
  <2>2. \/ pcT \in QuietPcs /\ pcT' \in QuietPcs \ {"none", "init", "load", "desc"}
        \/ pcT \in Halfway /\ pcT' \in Halfway
    BY <1>11 DEF TestRun, GetChnFrame, MapFrame, Unmap, Send, Release, OutputResult, QuietPcs,
       ThreadPcs, InitPcs, FramePcs, Halfway
  <2> QED BY <2>1, <2>2, QuietStep
<1>12. NpuTypeOK /\ OwnedFlat(slot[0], heap[0])
  BY <1>0, <1>1
<1>13. /\ heap[0]["dataset"] \in Int /\ heap[0]["databuf"] \in Int /\ heap[0]["outbuf"] \in Int
       /\ Pending(slot[0].input) \in Nat /\ slot[0].output.n \in Nat
       /\ Bit(slot[0].input.ptr) \in {0, 1} /\ Bit(slot[0].output.ptr) \in {0, 1}
  BY <1>0, PendingType, KindsHas
<1>14. DataOwned(slot[0], heap[0])
  BY <1>1 DEF OwnedFlat, DataOwned, Pending
<1>15. CASE PrepareInput
  <2>1. pcT = "prep_in" /\ pcT' \in {"prep_out", "databuf"}
    BY <1>15 DEF PrepareInput
  <2>2. CASE ~slot[0].desc /\ UNCHANGED <<slot, heap, faults>> /\ pcT' = "databuf"
    <3>0. ~slot'[0].input.ptr
      BY <2>2 DEF SlotInv, NoInput
    <3>1. /\ Building("dataset") = 0 /\ Building("databuf") = 0 /\ Building("outbuf") = 0
          /\ Building("dataset")' = 0 /\ Building("databuf")' = 0 /\ Building("outbuf")' = 0
      BY <2>1, <2>2, <3>0 DEF Building, Halfway
    <3>2. /\ heap'[0]["dataset"] = heap[0]["dataset"]
          /\ heap'[0]["databuf"] = heap[0]["databuf"]
          /\ heap'[0]["outbuf"] = heap[0]["outbuf"]
          /\ \A k \in {"mem", "weight", "desc", "inbuf"} : heap'[0][k] = heap[0][k]
      BY <1>0, <1>13, <2>2 DEF Kinds
    <3>3. DataBound'
      BY <1>0, <1>1, <1>2, <1>13, <2>1, <2>2, <3>1, <3>2, CostIs DEF HeapFlat, DataBound
    <3>4. slot'[0] = [slot[0] EXCEPT !.input = slot[0].input, !.output = slot[0].output]
      BY <1>0, <2>2 DEF SlotType
    <3>5. slot'[0].input = slot[0].input /\ slot'[0].output = slot[0].output
      BY <1>0, <3>4 DEF SlotType
    <3>6. DataOwned(slot'[0], heap'[0])
      BY <1>13, <1>14, <2>1, <2>2, <3>2, <3>5, PendingIs, CostIs DEF DataOwned
    <3> QED BY <1>0, <2>1, <3>2, <3>3, <3>4, <3>6, DataStep DEF FramePcs
  <2>3. CASE /\ slot[0].desc /\ Fault /\ heap' = heap /\ pcT' = "databuf"
             /\ slot'[0] = [slot[0] EXCEPT !.input = NoInput]
    <3>0. ~slot'[0].input.ptr
      BY <1>0, <2>3 DEF SlotType, NoInput
    <3>1. /\ Building("dataset") = 0 /\ Building("databuf") = 0 /\ Building("outbuf") = 0
          /\ Building("dataset")' = 0 /\ Building("databuf")' = 0 /\ Building("outbuf")' = 0
      BY <2>1, <2>3, <3>0 DEF Building, Halfway
    <3>2. /\ heap'[0]["dataset"] = heap[0]["dataset"]
          /\ heap'[0]["databuf"] = heap[0]["databuf"]
          /\ heap'[0]["outbuf"] = heap[0]["outbuf"]
          /\ \A k \in {"mem", "weight", "desc", "inbuf"} : heap'[0][k] = heap[0][k]
      BY <1>0, <1>13, <2>3 DEF Kinds
    <3>3. DataBound'
      BY <1>0, <1>1, <1>2, <1>13, <2>1, <2>3, <3>1, <3>2, CostIs DEF HeapFlat, DataBound
    <3>4. slot'[0] = [slot[0] EXCEPT !.input = NoInput, !.output = slot[0].output]
      BY <1>0, <2>3 DEF SlotType
    <3>5. slot'[0].input = NoInput /\ slot'[0].output = slot[0].output
      BY <1>0, <3>4 DEF SlotType
    <3>6. DataOwned(slot'[0], heap'[0])
      BY <1>13, <1>14, <2>1, <2>3, <3>2, <3>5, PendingIs, CostIs DEF DataOwned
    <3> QED BY <1>0, <2>1, <3>2, <3>3, <3>4, <3>6, DataStep DEF FramePcs
  <2>4. CASE /\ slot[0].desc /\ UNCHANGED faults /\ pcT' = "prep_out"
             /\ slot'[0] = [slot[0] EXCEPT !.input = EmptyInput]
             /\ heap'[0] = [heap[0] EXCEPT !["dataset"] = @ + 1]
    <3>1. /\ Building("dataset") = 0 /\ Building("databuf") = 0 /\ Building("outbuf") = 0
          /\ Building("dataset")' = 1 /\ Building("databuf")' = 0 /\ Building("outbuf")' = 0
      BY <2>1, <2>4 DEF Building, Halfway
    <3>2. /\ heap'[0]["dataset"] = heap[0]["dataset"] + 1
          /\ heap'[0]["databuf"] = heap[0]["databuf"]
          /\ heap'[0]["outbuf"] = heap[0]["outbuf"]
          /\ \A k \in {"mem", "weight", "desc", "inbuf"} : heap'[0][k] = heap[0][k]
      BY <1>0, <1>13, <2>4 DEF Kinds
    <3>3. DataBound'
      BY <1>0, <1>1, <1>2, <1>13, <2>1, <2>4, <3>1, <3>2, CostIs DEF HeapFlat, DataBound
    <3>4. slot'[0] = [slot[0] EXCEPT !.input = EmptyInput, !.output = slot[0].output]
      BY <1>0, <2>4 DEF SlotType
    <3>5. slot'[0].input = EmptyInput /\ slot'[0].output = slot[0].output
      BY <1>0, <3>4 DEF SlotType
    <3>6. DataOwned(slot'[0], heap'[0])
      BY <1>13, <1>14, <2>1, <2>4, <3>2, <3>5, PendingIs, CostIs DEF DataOwned
    <3> QED BY <1>0, <2>1, <3>2, <3>3, <3>4, <3>6, DataStep DEF FramePcs
  <2> QED BY <1>0, <1>15, <2>2, <2>3, <2>4, CreateInputDatasetEffect DEF PrepareInput, npuVars
<1>16. CASE PrepareOutput
  <2>1. /\ pcT = "prep_out" /\ pcT' \in {"databuf", "prep_undo"}
        /\ slot[0].desc /\ slot[0].input = EmptyInput
    BY <1>16 DEF PrepareOutput, SlotInv
  <2>2. CASE /\ Fault /\ heap' = heap /\ pcT' = "prep_undo"
             /\ slot'[0] = [slot[0] EXCEPT !.output = NoOutput]
    <3>1. /\ Building("dataset") = 1 /\ Building("databuf") = 0 /\ Building("outbuf") = 0
          /\ Building("dataset")' = 0 /\ Building("databuf")' = 0 /\ Building("outbuf")' = 0
      BY <2>1, <2>2 DEF Building, Halfway
    <3>2. /\ heap'[0]["dataset"] = heap[0]["dataset"]
          /\ heap'[0]["databuf"] = heap[0]["databuf"]
          /\ heap'[0]["outbuf"] = heap[0]["outbuf"]
          /\ \A k \in {"mem", "weight", "desc", "inbuf"} : heap'[0][k] = heap[0][k]
      BY <1>0, <1>13, <2>2 DEF Kinds
    <3>3. DataBound'
      BY <1>0, <1>1, <1>2, <1>13, <2>1, <2>2, <3>1, <3>2, CostIs DEF HeapFlat, DataBound
    <3>4. slot'[0] = [slot[0] EXCEPT !.input = slot[0].input, !.output = NoOutput]
      BY <1>0, <2>2 DEF SlotType
    <3>5. slot'[0].input = slot[0].input /\ slot'[0].output = NoOutput
      BY <1>0, <3>4 DEF SlotType
    <3>6. DataOwned(slot'[0], heap'[0])
      BY <1>13, <1>14, <2>1, <2>2, <3>2, <3>5, PendingIs, CostIs DEF DataOwned
    <3> QED BY <1>0, <2>1, <3>2, <3>3, <3>4, <3>6, DataStep DEF FramePcs
  <2>3. ASSUME NEW n \in 0..NumOutputs,
               \/ n # NumOutputs /\ Fault /\ pcT' = "prep_undo"
               \/ n = NumOutputs /\ UNCHANGED faults /\ pcT' = "databuf",
               slot'[0] = [slot[0] EXCEPT !.output = OutputOf(n)],
               heap'[0] = [heap[0] EXCEPT !["dataset"] = @ + 1,
                                          !["databuf"] = @ + n,
                                          !["outbuf"]  = @ + n]
        PROVE  NothingFreedTwice' /\ HeapInv'
    <3>0. slot'[0].input.ptr
      BY <1>0, <2>1, <2>3 DEF SlotType, EmptyInput, NoInput
    <3>1. /\ Building("dataset") = 1 /\ Building("databuf") = 0 /\ Building("outbuf") = 0
          /\ Building("dataset")' = (IF n = NumOutputs THEN 2 ELSE 0) /\ Building("databuf")' = (IF n = NumOutputs THEN n ELSE 0) /\ Building("outbuf")' = (IF n = NumOutputs THEN n ELSE 0)
      BY <2>1, <2>3, <3>0 DEF Building, Halfway
    <3>2. /\ heap'[0]["dataset"] = heap[0]["dataset"] + 1
          /\ heap'[0]["databuf"] = heap[0]["databuf"] + n
          /\ heap'[0]["outbuf"] = heap[0]["outbuf"] + n
          /\ \A k \in {"mem", "weight", "desc", "inbuf"} : heap'[0][k] = heap[0][k]
      BY <1>0, <1>13, <2>3 DEF Kinds
    <3>3. DataBound'
      BY <1>0, <1>1, <1>2, <1>13, <2>1, <2>3, <3>1, <3>2, CostIs DEF HeapFlat, DataBound
    <3>4. slot'[0] = [slot[0] EXCEPT !.input = slot[0].input, !.output = OutputOf(n)]
      BY <1>0, <2>3 DEF SlotType
    <3>5. slot'[0].input = slot[0].input /\ slot'[0].output = OutputOf(n)
      BY <1>0, <3>4 DEF SlotType
    <3>6. DataOwned(slot'[0], heap'[0])
      BY <1>13, <1>14, <2>1, <2>3, <3>2, <3>5, PendingIs, CostIs DEF DataOwned
    <3> QED BY <1>0, <2>1, <3>2, <3>3, <3>4, <3>6, DataStep DEF FramePcs
  <2> QED BY <1>0, <1>16, <2>1, <2>2, <2>3, CreateOutputEffect DEF PrepareOutput
<1>17. CASE PrepareUndo
  <2>1. pcT = "prep_undo" /\ pcT' = "databuf"
    BY <1>17 DEF PrepareUndo
  <2>2. /\ UNCHANGED faults
        /\ slot'[0] = [slot[0] EXCEPT !.input = NoInput]
        /\ heap'[0] = [heap[0] EXCEPT !["dataset"] = @ - Bit(slot[0].input.ptr)]
    BY <1>0, <1>17, DestroyInputDatasetEffect DEF PrepareUndo
  <2>3. ~slot'[0].input.ptr
    BY <1>0, <2>2 DEF SlotType, NoInput
  <2>4. NothingFreedTwice' /\ HeapInv'
    <3>1. /\ Building("dataset") = 0 /\ Building("databuf") = 0 /\ Building("outbuf") = 0
          /\ Building("dataset")' = 0 /\ Building("databuf")' = 0 /\ Building("outbuf")' = 0
      BY <2>1, <2>2, <2>3 DEF Building, Halfway
    <3>2. /\ heap'[0]["dataset"] = heap[0]["dataset"] - Bit(slot[0].input.ptr)
          /\ heap'[0]["databuf"] = heap[0]["databuf"]
          /\ heap'[0]["outbuf"] = heap[0]["outbuf"]
          /\ \A k \in {"mem", "weight", "desc", "inbuf"} : heap'[0][k] = heap[0][k]
      BY <1>0, <1>13, <2>2 DEF Kinds
    <3>3. DataBound'
      BY <1>0, <1>1, <1>2, <1>13, <2>1, <2>2, <3>1, <3>2, CostIs DEF HeapFlat, DataBound
    <3>4. slot'[0] = [slot[0] EXCEPT !.input = NoInput, !.output = slot[0].output]
      BY <1>0, <2>2 DEF SlotType
    <3>5. slot'[0].input = NoInput /\ slot'[0].output = slot[0].output
      BY <1>0, <3>4 DEF SlotType
    <3>6. DataOwned(slot'[0], heap'[0])
      BY <1>13, <1>14, <2>1, <2>2, <3>2, <3>5, PendingIs, CostIs DEF DataOwned
    <3> QED BY <1>0, <2>1, <3>2, <3>3, <3>4, <3>6, DataStep DEF FramePcs
  <2> QED BY <2>4
<1>18. CASE MakeDatabuf
  <2>1. pcT = "databuf" /\ pcT' \in {"exec", "unmap"}
    BY <1>18 DEF MakeDatabuf
  <2>2. CASE UNCHANGED <<slot, heap>> /\ Fault /\ pcT' = "unmap"
    BY <2>2, QuietStep DEF QuietPcs, ThreadPcs, FramePcs, Halfway
  <2>3. CASE UNCHANGED <<slot, heap, faults>> /\ ~slot[0].input.ptr /\ pcT' = "unmap"
    <3>1. /\ Building("dataset") = 0 /\ Building("databuf") = 0 /\ Building("outbuf") = 0
          /\ Building("dataset")' = 0 /\ Building("databuf")' = 0 /\ Building("outbuf")' = 0
      BY <2>1, <2>3 DEF Building, Halfway
    <3>2. /\ heap'[0]["dataset"] = heap[0]["dataset"]
          /\ heap'[0]["databuf"] = heap[0]["databuf"]
          /\ heap'[0]["outbuf"] = heap[0]["outbuf"]
          /\ \A k \in {"mem", "weight", "desc", "inbuf"} : heap'[0][k] = heap[0][k]
      BY <1>0, <1>13, <2>3 DEF Kinds
    <3>3. DataBound'
      BY <1>0, <1>1, <1>2, <1>13, <2>1, <2>3, <3>1, <3>2, CostIs DEF HeapFlat, DataBound
    <3>4. slot'[0] = [slot[0] EXCEPT !.input = slot[0].input, !.output = slot[0].output]
      BY <1>0, <2>3 DEF SlotType
    <3>5. slot'[0].input = slot[0].input /\ slot'[0].output = slot[0].output
      BY <1>0, <3>4 DEF SlotType
    <3>6. DataOwned(slot'[0], heap'[0])
      BY <1>13, <1>14, <2>1, <2>3, <3>2, <3>5, PendingIs, CostIs DEF DataOwned
    <3> QED BY <1>0, <2>1, <3>2, <3>3, <3>4, <3>6, DataStep DEF FramePcs
  <2>4. ASSUME slot[0].desc, slot[0].input.ptr, UNCHANGED faults, pcT' = "exec",
               slot'[0] = [slot[0] EXCEPT !.input.bufs = Append(@, mapped)],
               heap'[0] = [heap[0] EXCEPT !["databuf"] = @ + 1]
        PROVE  NothingFreedTwice' /\ HeapInv'
    <3>7. slot[0].input = EmptyInput /\ slot[0].output = OutputFull
      BY <2>1, <2>4 DEF SlotInv
    <3>8. slot'[0].input = InputOn(mapped', FALSE)
      BY <2>4 DEF SlotInv, ReadyToExecute
    <3>9. /\ Bit(slot'[0].input.ptr) = 1 /\ Pending(slot'[0].input) = 1
          /\ Bit(slot[0].input.ptr) = 1 /\ Pending(slot[0].input) = 0
      BY <3>7, <3>8, PendingIs
    <3>1. /\ Building("dataset") = 2 /\ Building("databuf") = NumOutputs /\ Building("outbuf") = NumOutputs
          /\ Building("dataset")' = 2 /\ Building("databuf")' = NumOutputs + 1 /\ Building("outbuf")' = NumOutputs
      BY <2>1, <2>4 DEF Building, Halfway
    <3>2. /\ heap'[0]["dataset"] = heap[0]["dataset"]
          /\ heap'[0]["databuf"] = heap[0]["databuf"] + 1
          /\ heap'[0]["outbuf"] = heap[0]["outbuf"]
          /\ \A k \in {"mem", "weight", "desc", "inbuf"} : heap'[0][k] = heap[0][k]
      BY <1>0, <1>13, <2>4 DEF Kinds
    <3>3. DataBound'
      BY <1>0, <1>1, <1>2, <1>13, <2>1, <2>4, <3>1, <3>2, CostIs DEF HeapFlat, DataBound
    <3>4. slot'[0] = [slot[0] EXCEPT !.input = slot'[0].input, !.output = slot[0].output]
      BY <1>0, <2>4 DEF SlotType
    <3>5. slot'[0].input = slot'[0].input /\ slot'[0].output = slot[0].output
      BY <1>0, <3>4 DEF SlotType
    <3>6. DataOwned(slot'[0], heap'[0])
      BY <1>13, <1>14, <3>2, <3>5, <3>9 DEF DataOwned
    <3> QED BY <1>0, <2>1, <3>2, <3>3, <3>4, <3>6, DataStep DEF FramePcs
  <2>5. slot[0].input.ptr => slot[0].desc
    BY <2>1 DEF SlotInv
  <2> QED BY <1>0, <1>18, <2>2, <2>3, <2>4, <2>5, CreateDatabufEffect DEF MakeDatabuf, npuVars
<1>19. CASE Execute
  <2>1. /\ pcT = "exec" /\ UNCHANGED <<slot, heap>>
        /\ \/ UNCHANGED faults /\ pcT' = "result"
           \/ Fault /\ pcT' = "unmap"
    BY <1>19 DEF Execute, ModelExecute
  <2> QED BY <2>1, QuietStep DEF Halfway, QuietPcs, ThreadPcs, FramePcs
<1>20. CASE FreeDatabuf
  <2>1. pcT = "free_databuf" /\ pcT' = "free_out"
    BY <1>20 DEF FreeDatabuf
  <2>2. /\ UNCHANGED faults
        /\ slot'[0] = IF slot[0].input.bufs = <<>> THEN slot[0]
                      ELSE [slot[0] EXCEPT !.input.dangling = TRUE]
        /\ heap'[0] = [heap[0] EXCEPT !["databuf"] = @ - Len(slot[0].input.bufs)]
    BY <1>0, <1>20, DestroyDatabufEffect DEF FreeDatabuf
  <2>3. slot[0].input = InputOn(mapped, FALSE) /\ slot'[0].input = InputOn(mapped', TRUE)
    BY <2>1 DEF SlotInv, ReadyToExecute
  <2>4. /\ Bit(slot'[0].input.ptr) = 1 /\ Pending(slot'[0].input) = 0
        /\ Bit(slot[0].input.ptr) = 1 /\ Pending(slot[0].input) = 1
    BY <2>3, PendingIs
  <2>5. Len(slot[0].input.bufs) = 1
    BY <2>3 DEF InputOn
  <2>6. NothingFreedTwice' /\ HeapInv'
    <3>1. /\ Building("dataset") = 2 /\ Building("databuf") = NumOutputs + 1 /\ Building("outbuf") = NumOutputs
          /\ Building("dataset")' = 2 /\ Building("databuf")' = NumOutputs /\ Building("outbuf")' = NumOutputs
      BY <2>1, <2>2 DEF Building, Halfway
    <3>2. /\ heap'[0]["dataset"] = heap[0]["dataset"]
          /\ heap'[0]["databuf"] = heap[0]["databuf"] - 1
          /\ heap'[0]["outbuf"] = heap[0]["outbuf"]
          /\ \A k \in {"mem", "weight", "desc", "inbuf"} : heap'[0][k] = heap[0][k]
      BY <1>0, <1>13, <2>2, <2>5 DEF Kinds
    <3>3. DataBound'
      BY <1>0, <1>1, <1>2, <1>13, <2>1, <2>2, <3>1, <3>2, CostIs DEF HeapFlat, DataBound
    <3>4. slot'[0] = [slot[0] EXCEPT !.input = slot'[0].input, !.output = slot[0].output]
      BY <1>0, <2>2 DEF SlotType
    <3>5. slot'[0].input = slot'[0].input /\ slot'[0].output = slot[0].output
      BY <1>0, <3>4 DEF SlotType
    <3>6. DataOwned(slot'[0], heap'[0])
      BY <1>13, <1>14, <2>1, <2>2, <3>2, <3>5, PendingIs, CostIs, <2>4 DEF DataOwned
    <3> QED BY <1>0, <2>1, <3>2, <3>3, <3>4, <3>6, DataStep DEF FramePcs
  <2> QED BY <2>6
<1>21. CASE FreeOutput
  <2>1. pcT = "free_out" /\ pcT' = "free_in" /\ slot[0].output = OutputFull
    BY <1>21 DEF FreeOutput, SlotInv
  <2>2. slot[0].output.ptr /\ slot[0].output.n = NumOutputs /\ Bit(slot[0].output.ptr) = 1
    BY <2>1 DEF OutputFull, OutputOf, Bit
  <2>3. /\ UNCHANGED faults
        /\ slot'[0] = [slot[0] EXCEPT !.output = NoOutput]
        /\ heap'[0] = [heap[0] EXCEPT !["dataset"] = @ - 1,
                                       !["databuf"] = @ - NumOutputs,
                                       !["outbuf"]  = @ - NumOutputs]
    BY <1>0, <1>21, <2>2, DestroyOutputEffect DEF FreeOutput
  <2>4. /\ slot[0].output.n = NumOutputs /\ Bit(slot[0].output.ptr) = 1
        /\ Bit(NoOutput.ptr) = 0 /\ NoOutput.n = 0
    BY <2>2, PendingIs
  <2>5. NothingFreedTwice' /\ HeapInv'
    <3>1. /\ Building("dataset") = 2 /\ Building("databuf") = NumOutputs /\ Building("outbuf") = NumOutputs
          /\ Building("dataset")' = 1 /\ Building("databuf")' = 0 /\ Building("outbuf")' = 0
      BY <2>1, <2>3 DEF Building, Halfway
    <3>2. /\ heap'[0]["dataset"] = heap[0]["dataset"] - 1
          /\ heap'[0]["databuf"] = heap[0]["databuf"] - NumOutputs
          /\ heap'[0]["outbuf"] = heap[0]["outbuf"] - NumOutputs
          /\ \A k \in {"mem", "weight", "desc", "inbuf"} : heap'[0][k] = heap[0][k]
      BY <1>0, <1>13, <2>3, CostIs DEF Kinds
    <3>3. DataBound'
      BY <1>0, <1>1, <1>2, <1>13, <2>1, <2>3, <3>1, <3>2, CostIs DEF HeapFlat, DataBound
    <3>4. slot'[0] = [slot[0] EXCEPT !.input = slot[0].input, !.output = NoOutput]
      BY <1>0, <2>3 DEF SlotType
    <3>5. slot'[0].input = slot[0].input /\ slot'[0].output = NoOutput
      BY <1>0, <3>4 DEF SlotType
    <3>6. DataOwned(slot'[0], heap'[0])
      BY <1>13, <1>14, <3>2, <3>5, <2>4, CostIs DEF DataOwned
    <3> QED BY <1>0, <2>1, <3>2, <3>3, <3>4, <3>6, DataStep DEF FramePcs
  <2> QED BY <2>5
<1>22. CASE FreeInput
  <2>1. pcT = "free_in" /\ pcT' = "unmap" /\ slot[0].input = InputOn(mapped, TRUE)
    BY <1>22 DEF FreeInput, SlotInv
  <2>2. /\ UNCHANGED faults
        /\ slot'[0] = [slot[0] EXCEPT !.input = NoInput]
        /\ heap'[0] = [heap[0] EXCEPT !["dataset"] = @ - Bit(slot[0].input.ptr)]
    BY <1>0, <1>22, DestroyInputDatasetEffect DEF FreeInput
  <2>3. Bit(slot[0].input.ptr) = 1
    BY <2>1, PendingIs
  <2>4. Bit(NoInput.ptr) = 0 /\ Pending(NoInput) = 0
    BY PendingIs
  <2>5. NothingFreedTwice' /\ HeapInv'
    <3>1. /\ Building("dataset") = 1 /\ Building("databuf") = 0 /\ Building("outbuf") = 0
          /\ Building("dataset")' = 0 /\ Building("databuf")' = 0 /\ Building("outbuf")' = 0
      BY <2>1, <2>2 DEF Building, Halfway
    <3>2. /\ heap'[0]["dataset"] = heap[0]["dataset"] - 1
          /\ heap'[0]["databuf"] = heap[0]["databuf"]
          /\ heap'[0]["outbuf"] = heap[0]["outbuf"]
          /\ \A k \in {"mem", "weight", "desc", "inbuf"} : heap'[0][k] = heap[0][k]
      BY <1>0, <1>13, <2>2, <2>3 DEF Kinds
    <3>3. DataBound'
      BY <1>0, <1>1, <1>2, <1>13, <2>1, <2>3, <2>2, <3>1, <3>2, CostIs DEF HeapFlat, DataBound
    <3>4. slot'[0] = [slot[0] EXCEPT !.input = NoInput, !.output = slot[0].output]
      BY <1>0, <2>2 DEF SlotType
    <3>5. slot'[0].input = NoInput /\ slot'[0].output = slot[0].output
      BY <1>0, <3>4 DEF SlotType
    <3>6. DataOwned(slot'[0], heap'[0])
      BY <1>13, <1>14, <3>2, <3>5, <2>3, <2>4 DEF DataOwned
    <3> QED BY <1>0, <2>1, <3>2, <3>3, <3>4, <3>6, DataStep DEF FramePcs
  <2> QED BY <2>5
<1> QED
  BY <1>3, <1>4, <1>5, <1>6, <1>7, <1>8, <1>9, <1>10, <1>11, <1>15, <1>16, <1>17, <1>18, <1>19,
     <1>20, <1>21, <1>22 DEF Next, ThreadStep, Terminated, liveVars

-----------------------------------------------------------------------------
(* The inductive invariant holds: for any number of blocks, outputs, keys  *)
(* and failed calls the two threads and the resource table stay in step.   *)
LEMMA InvInit == Init => IInv
<1> SUFFICES ASSUME Init PROVE IInv
  OBVIOUS
<1> USE LiveAssumption, NumOutputsAssumption, MaxFaultsAssumption
<1>1. slot[0] = EmptySlot /\ heap[0] = [k \in Kinds |-> 0] /\ faults = 0
  BY DEF Init, NpuInit
<1>2. EmptySlot \in SlotType
  BY EmptyTypes DEF EmptySlot, SlotType
<1>3. NpuTypeOK
  <2>1. [k \in Kinds |-> 0] \in [Kinds -> Int]
    OBVIOUS
  <2>2. slot \in [Slots -> SlotType] /\ heap \in [Slots -> [Kinds -> Int]]
    BY <1>2, <2>1 DEF Init, NpuInit
  <2> QED BY <1>1, <2>2 DEF NpuTypeOK
<1>4. TypeOK
  <2>1. pcM \in MainPcs /\ pcT \in ThreadPcs /\ lost = {} /\ acl = "down"
    BY DEF Init, MainPcs, ThreadPcs
  <2>2. sig \in BOOLEAN /\ run \in BOOLEAN
    BY DEF Init
  <2>3. keys = 0 /\ up = {} /\ held = {} /\ shown = {}
    BY DEF Init
  <2>4. frame \in Data /\ mapped \in Data
    BY DEF Init
  <2> QED BY <1>3, <2>1, <2>2, <2>3, <2>4 DEF TypeOK
<1>5. KeysInv /\ RouteInv /\ ShownInv
  BY DEF Init, KeysInv, RouteInv, ShownInv, BeforeThread, BeforeVpss, WithThread, VpssRuns
<1>6. FrameInv /\ BlockInv
  BY DEF Init, FrameInv, BlockInv, FramePcs
<1>7. SlotInv
  <2>1. ~slot[0].desc /\ slot[0].input = NoInput /\ slot[0].output = NoOutput
    BY <1>1 DEF EmptySlot
  <2> QED BY <1>1, <2>1 DEF Init, SlotInv, InitPcs
<1>8. OwnedFlat(slot[0], heap[0])
  <2>1. /\ Bit(EmptySlot.mem) = 0 /\ Bit(EmptySlot.weight) = 0 /\ Bit(EmptySlot.desc) = 0
        /\ EmptySlot.input = NoInput /\ EmptySlot.output = NoOutput
    BY DEF EmptySlot, Bit
  <2> QED BY <1>1, <2>1, PendingIs, KindsHas DEF OwnedFlat, Pending
<1>9. HeapFlat
  <2>1. \A k \in {"dataset", "databuf", "outbuf"} : Building(k) = 0 /\ Spent(k) \in Nat
    BY <1>3, SpentGrows DEF Init, Building, Halfway
  <2> QED BY <1>1, <2>1, KindsHas DEF HeapFlat
<1> QED BY <1>4, <1>5, <1>6, <1>7, <1>8, <1>9, FlatIs DEF IInv

\* Every step keeps the inductive invariant.
LEMMA InvStep == IInv /\ [Next]_liveVars => IInv'
<1> SUFFICES ASSUME IInv, [Next]_liveVars PROVE IInv'
  OBVIOUS
<1>1. TypeOK /\ KeysInv /\ RouteInv /\ ShownInv /\ FrameInv /\ BlockInv /\ SlotInv /\ NothingFreedTwice /\ HeapInv
  BY DEF IInv
<1>2. RouteInv' /\ ShownInv'
  BY <1>1, RouteStep, ShownStep
<1>3. FrameInv' /\ frame' \in Data /\ mapped' \in Data /\ held' \subseteq Blocks /\ shown' \subseteq Blocks
  BY <1>1, FrameStep
<1>4. SlotInv' /\ NpuTypeOK' /\ pcT' \in ThreadPcs /\ acl' \in {"down", "up", "final"}
  BY <1>1, SlotStep
<1>5. NothingFreedTwice' /\ HeapInv'
  BY <1>1, <1>4, HeapStep
<1>6. MainTypeOK' /\ KeysInv'
  <2>1. CASE MainStep \/ KeyPress \/ Signal
    BY <1>1, <2>1, MainTypes
  <2>2. CASE UNCHANGED <<pcM, lost, keys, sig, run, up>>
    BY <1>1, <2>2 DEF TypeOK, MainTypeOK, KeysInv
  <2> QED BY <2>1, <2>2, ThreadEffect DEF Next, Terminated, liveVars
<1>7. TypeOK'
  BY <1>3, <1>4, <1>6 DEF TypeOK, MainTypeOK
<1>8. BlockInv'
  BY <1>1, BlockStep
<1> QED BY <1>2, <1>3, <1>4, <1>5, <1>6, <1>7, <1>8 DEF IInv

\* The inductive invariant holds in every reachable state.
THEOREM Invariance == Spec => []IInv
BY InvInit, InvStep, PTL DEF Spec

\* Every variable keeps its type.
THEOREM TypeCorrect == Spec => []TypeOK
<1>1. IInv => TypeOK
  BY DEF IInv
<1> QED BY <1>1, Invariance, PTL

\* pthread_join before stop_vpss keeps the frame and its mapping inside the
\* life of the VPSS group.
THEOREM FrameSafe == Spec => []FrameInsideRoute
<1>1. IInv => FrameInsideRoute
  BY DEF IInv, RouteInv, FrameInv, FrameInsideRoute, VpssRuns, WithThread, FramePcs
<1> QED BY <1>1, Invariance, PTL

\* The video buffers outlive their users in the thread, and in the display
\* unless sample_comm_vo_stop_vo gave up.
THEOREM BuffersSafe == Spec => []BuffersOutliveUsers
<1>1. IInv => BuffersOutliveUsers
  BY DEF IInv, RouteInv, ShownInv, FrameInv, BuffersOutliveUsers, VpssRuns, WithThread, FramePcs
<1> QED BY <1>1, Invariance, PTL

\* aclmdlExecute is never called on a slot that nnn_init or the frame loop
\* has not completed; its input is on the mapping of the frame in hand, or on
\* NULL when that frame's mmap has failed.
THEOREM ExecuteReady == Spec => []ReadyWhenExecuted
<1>1. IInv => ReadyWhenExecuted
  BY DEF IInv, SlotInv, FrameInv, BlockInv, FramePcs, ReadyToExecute, ReadyWhenExecuted
<1> QED BY <1>1, Invariance, PTL

\* No object of the table is freed twice.
THEOREM NoDoubleFree == Spec => []NothingFreedTwice
<1>1. IInv => NothingFreedTwice
  BY DEF IInv
<1> QED BY <1>1, Invariance, PTL

\* What the loop can leak is bounded by the calls that failed.
THEOREM LeaksBounded == Spec => []LeakBound
<1>1. IInv => LeakBound
  <2> SUFFICES ASSUME IInv, pcT \in {"loop", "get", "exited"}, NEW k \in Kinds
               PROVE  heap[0][k] <= Resting(k) + Cost(k) * faults
    BY DEF LeakBound
  <2>1. NpuTypeOK /\ heap[0] \in [Kinds -> Int] /\ faults \in Nat /\ HeapInv
    BY SlotZero, MaxFaultsAssumption DEF IInv, TypeOK, NpuTypeOK
  <2>2. CASE k \in {"dataset", "databuf", "outbuf"}
    <3>1. Building(k) = 0 /\ Resting(k) = 0
      BY <2>2 DEF Building, Halfway, Resting
    <3> QED BY <2>1, <2>2, <3>1 DEF HeapInv
  <2>3. CASE k \in {"mem", "weight"}
    BY <2>1, <2>3 DEF HeapInv, Resting, Cost
  <2>4. CASE k \in {"desc", "inbuf"}
    BY <2>1, <2>4 DEF HeapInv, Resting, Cost
  <2> QED BY <2>2, <2>3, <2>4 DEF Kinds
<1> QED BY <1>1, Invariance, PTL

-----------------------------------------------------------------------------
(* The route: nothing runs above the rung the main thread is on.           *)
LEMMA Ranks ==
  /\ Rank("vb") = 1 /\ Rank("sys") = 1
  /\ Rank("vi") = 2 /\ Rank("vi_bind") = 3 /\ Rank("vpss") = 4 /\ Rank("vo") = 5
  /\ Rank("venc") = 6 /\ Rank("out_bind") = 7
  /\ \A p \in Parts : Rank(p) \in 1..7
BY DEF Rank, Parts

\* Each start goes one level up, or to the label of the level it stands on;
\* each stop goes one level down.
LEMMA Levels ==
  /\ Level("start_vi") = 1   /\ Level("sys_exit") = 1  /\ Level("done") = 0
  /\ Level("bind_vi") = 2    /\ Level("stop_vi") = 2
  /\ Level("start_vpss") = 3 /\ Level("unbind_vi") = 3
  /\ Level("start_vo") = 4   /\ Level("stop_vpss") = 4
  /\ Level("start_venc") = 5 /\ Level("stop_vo") = 5
  /\ Level("bind_out") = 6   /\ Level("stop_venc") = 6
  /\ Level("create") = 7     /\ Level("unbind_out") = 7
BY DEF Level

\* Going one rung up adds at most the part whose rank is the level reached.
LEMMA RungUp ==
  ASSUME TypeOK, LadderInv, NEW part \in Parts, NEW here, NEW next,
         GotoM(here, next), up' \subseteq up \cup {part}, lost \subseteq lost',
         Level(here) \in Nat, Level(next) = Level(here) + 1, Rank(part) = Level(next)
  PROVE  LadderInv'
<1>1. ASSUME NEW p \in up', p \notin lost' PROVE Rank(p) <= Level(pcM')
  <2>1. CASE p \in up
    <3>1. Rank(p) <= Level(here) /\ Rank(p) \in 1..7
      BY <1>1, <2>1, Ranks DEF LadderInv, TypeOK, GotoM
    <3> QED BY <3>1 DEF GotoM
  <2>2. CASE p = part
    BY <2>2 DEF GotoM
  <2> QED BY <1>1, <2>1, <2>2
<1> QED BY <1>1 DEF LadderInv

\* A start that failed goes to a label of the same level, and what it leaves
\* is lost.
LEMMA SameLevel ==
  ASSUME LadderInv, NEW part, up' \subseteq up \cup {part}, lost' = lost \cup {part},
         Level(pcM') = Level(pcM)
  PROVE  LadderInv'
BY DEF LadderInv

\* A start call as a whole.
LEMMA StartKeeps ==
  ASSUME TypeOK, LadderInv, NEW part \in Parts, NEW here, NEW next, NEW onFailure,
         Start(here, part, next, onFailure), Level(here) \in Nat,
         Level(next) = Level(here) + 1, Rank(part) = Level(next), Level(onFailure) = Level(here)
  PROVE  LadderInv'
<1>1. CASE GotoM(here, next) /\ up' = up \cup {part} /\ UNCHANGED lost
  BY <1>1, RungUp
<1>2. CASE /\ GotoM(here, onFailure) /\ lost' = lost \cup {part}
           /\ up' \in {up, up \cup {part}}
  BY <1>2, SameLevel DEF GotoM
<1> QED BY <1>1, <1>2 DEF Start

\* Going one rung down takes the parts of the level left, but for lost ones.
LEMMA RungDown ==
  ASSUME TypeOK, LadderInv, NEW parts, NEW here, NEW next, Lowered(here, parts, next),
         Level(here) \in 1..7, Level(next) = Level(here) - 1,
         \A p \in Parts : Rank(p) = Level(here) => p \in parts
  PROVE  LadderInv'
<1>1. ASSUME NEW p \in up', p \notin lost' PROVE Rank(p) <= Level(pcM')
  <2>1. p \in up /\ p \notin lost /\ p \notin parts /\ p \in Parts
    BY <1>1 DEF Lowered, TypeOK
  <2>2. Rank(p) <= Level(here) /\ Rank(p) # Level(here) /\ Rank(p) \in 1..7
    BY <2>1, Ranks DEF LadderInv, Lowered, GotoM
  <2> QED BY <2>2 DEF Lowered, GotoM
<1> QED BY <1>1 DEF LadderInv

\* The parts of each level.
LEMMA PartsOf ==
  \A p \in Parts :
     /\ Rank(p) = 7 <=> p = "out_bind"
     /\ Rank(p) = 6 <=> p = "venc"
     /\ Rank(p) = 5 <=> p = "vo"
     /\ Rank(p) = 4 <=> p = "vpss"
     /\ Rank(p) = 3 <=> p = "vi_bind"
     /\ Rank(p) = 2 <=> p = "vi"
     /\ Rank(p) = 1 <=> p \in {"vb", "sys"}
<1>1. ASSUME NEW p \in Parts
      PROVE  p = "vb" \/ p = "sys" \/ p = "vi" \/ p = "vi_bind" \/ p = "vpss" \/ p = "vo"
             \/ p = "venc" \/ p = "out_bind"
  BY DEF Parts
<1> QED BY <1>1, Ranks

\* Each action of the main thread keeps to the ladder.
LEMMA LadderStep ==
  ASSUME TypeOK, LadderInv, [Next]_liveVars
  PROVE  LadderInv'
<1>1. CASE UNCHANGED <<pcM, up, lost>>
  BY <1>1 DEF LadderInv
<1>2. CASE SysInit
  <2>1. CASE GotoM("sys_init", "start_vi") /\ up' = {"vb", "sys"}
    BY <2>1, Levels, PartsOf DEF LadderInv, GotoM, Parts
  <2>2. CASE lost' = lost \cup {"vb", "sys"} /\ up' \in {{}, {"vb"}, {"vb", "sys"}}
    BY <2>2 DEF LadderInv
  <2> QED BY <1>2, <2>1, <2>2 DEF SysInit
<1>3. CASE StartVi
  BY <1>3, StartKeeps, Ranks, Levels DEF StartVi, Parts
<1>4. CASE StartVpss
  BY <1>4, StartKeeps, Ranks, Levels DEF StartVpss, Parts
<1>5. CASE StartVo
  BY <1>5, StartKeeps, Ranks, Levels DEF StartVo, Parts
<1>6. CASE StartVenc
  BY <1>6, StartKeeps, Ranks, Levels DEF StartVenc, Parts
<1>7. CASE BindVi
  BY <1>7, RungUp, Ranks, Levels DEF BindVi, Bind, Parts
<1>8. CASE BindOut
  BY <1>8, RungUp, Ranks, Levels DEF BindOut, Bind, Parts
<1>9. CASE CreateThread \/ CheckSig \/ KeyPress \/ Signal \/ EnterGetchar \/ ClearRun \/ Join
  <2>1. UNCHANGED <<up, lost>> /\ Level(pcM') = Level(pcM)
    BY <1>9 DEF CreateThread, CheckSig, KeyPress, Signal, EnterGetchar, ClearRun, Join, KeyDone,
       Level, GotoM
  <2> QED BY <2>1 DEF LadderInv
<1>10. CASE UnbindOut
  BY <1>10, Stops, RungDown, Levels, PartsOf
<1>11. CASE StopVenc
  BY <1>11, Stops, RungDown, Levels, PartsOf
<1>12. CASE StopVo
  BY <1>12, Stops, RungDown, Levels, PartsOf
<1>13. CASE StopVpss
  BY <1>13, Stops, RungDown, Levels, PartsOf
<1>14. CASE UnbindVi
  BY <1>14, Stops, RungDown, Levels, PartsOf
<1>15. CASE StopVi
  BY <1>15, Stops, RungDown, Levels, PartsOf
<1>16. CASE SysExit
  BY <1>16, Stops, RungDown, Levels, PartsOf
<1> QED
  BY <1>1, <1>2, <1>3, <1>4, <1>5, <1>6, <1>7, <1>8, <1>9, <1>10, <1>11, <1>12, <1>13, <1>14,
     <1>15, <1>16, ThreadEffect DEF Next, MainStep, Terminated, liveVars

\* The level of the ladder bounds what runs in every reachable state.
THEOREM LadderHolds == Spec => []LadderInv
<1>1. Init => LadderInv
  BY DEF Init, LadderInv
<1>2. TypeOK /\ LadderInv /\ [Next]_liveVars => LadderInv'
  BY LadderStep
<1> QED BY <1>1, <1>2, TypeCorrect, PTL DEF Spec

\* When the route returns, whatever is still up is a part whose own start or
\* stop call has failed.
THEOREM RouteComesDown == Spec => []RouteDown
<1>1. TypeOK /\ LadderInv => RouteDown
  <2> SUFFICES ASSUME TypeOK, LadderInv, pcM = "done", NEW p \in up
               PROVE  p \in lost
    BY DEF RouteDown
  <2>1. Rank(p) \in 1..7
    BY Ranks DEF TypeOK
  <2> QED BY <2>1, Levels DEF LadderInv
<1> QED BY <1>1, TypeCorrect, LadderHolds, PTL

\* A part comes down only after all that was started later, but for parts
\* that a failed call has left: each stop takes the parts of its level.
THEOREM ReverseOrder == Spec => TakenDownInReverse
<1>1. TypeOK /\ LadderInv /\ [Next]_liveVars =>
        [\A p \in up \ up', q \in up' \ lost : Rank(q) <= Rank(p)]_liveVars
  <2> SUFFICES ASSUME TypeOK, LadderInv, Next, NEW p \in up \ up', NEW q \in up' \ lost
               PROVE  Rank(q) <= Rank(p)
    OBVIOUS
  <2>1. p \in Parts /\ p \in up /\ p \notin up' /\ q \notin lost
    BY DEF TypeOK
  <2>2. CASE UNCHANGED up
    BY <2>1, <2>2
  <2>3. CASE SysInit
    <3>1. q \in {"vb", "sys"}
      BY <2>3 DEF SysInit
    <3>2. Rank(q) = 1 /\ Rank(p) \in 1..7
      BY <2>1, <3>1, Ranks
    <3> QED BY <3>2
  <2>4. CASE StartVi \/ StartVpss \/ StartVo \/ StartVenc \/ BindVi \/ BindOut
    BY <2>1, <2>4 DEF StartVi, StartVpss, StartVo, StartVenc, Start, BindVi, BindOut, Bind
  <2>5. CASE UnbindOut \/ StopVenc \/ StopVo \/ StopVpss \/ UnbindVi \/ StopVi \/ SysExit
    <3>1. q \in up
      BY <2>5, Stops DEF Lowered
    <3>2. Rank(q) <= Level(pcM)
      BY <2>1, <3>1 DEF LadderInv
    <3>3. Rank(p) = Level(pcM)
      BY <2>1, <2>5, Stops, Levels, PartsOf DEF Lowered, GotoM
    <3> QED BY <3>2, <3>3
  <2>6. CASE CreateThread \/ CheckSig \/ KeyPress \/ Signal \/ EnterGetchar \/ ClearRun \/ Join
    BY <2>2, <2>6 DEF CreateThread, CheckSig, KeyPress, Signal, EnterGetchar, ClearRun, Join, KeyDone
  <2> QED
    BY <2>2, <2>3, <2>4, <2>5, <2>6, ThreadEffect DEF Next, MainStep, Terminated, liveVars
<1> QED BY <1>1, TypeCorrect, LadderHolds, PTL DEF Spec, TakenDownInReverse

-----------------------------------------------------------------------------
(* The live demo implements FrameLease: VPSS group 0 is started once, the  *)
(* thread takes frames only from a running group, and the group is stopped *)
(* only once the frame has come back.                                      *)
Group == IF "vpss" \in up THEN "running" ELSE IF pcM \in BeforeVpss THEN "idle" ELSE "stopped"
Leased == IF held = {} THEN "none" ELSE IF mapped = NoBlock THEN "out" ELSE "mapped"

\* The lease is free, out or mapped as the thread's variables say.
LEMMA LeaseMap ==
  /\ Lease!LeaseInit <=> Group = "idle" /\ Leased = "none"
  /\ [Lease!LeaseNext]_(Lease!leaseVars) <=>
       \/ Group' = Group /\ Leased' = Leased
       \/ /\ Leased' = Leased
          /\ \/ Group = "idle" /\ Group' \in {"running", "stopped"}
             \/ Group = "running" /\ Leased = "none" /\ Group' = "stopped"
       \/ /\ Group' = Group
          /\ \/ Group = "running" /\ Leased = "none" /\ Leased' = "out"
             \/ Leased = "out" /\ Leased' \in {"mapped", "none"}
             \/ Leased = "mapped" /\ Leased' = "out"
BY DEF Group, Leased, BeforeVpss, Lease!LeaseInit, Lease!LeaseNext, Lease!leaseVars, Lease!StartGroup,
   Lease!AbandonGroup, Lease!StopGroup, Lease!TakeFrame, Lease!MapFrame, Lease!UnmapFrame,
   Lease!GiveBack

\* Every step of the demo is a step of FrameLease or a stutter.
LEMMA LeaseStep ==
  ASSUME IInv, [Next]_liveVars
  PROVE  [Lease!LeaseNext]_(Lease!leaseVars)
<1>1. TypeOK /\ RouteInv /\ FrameInv
  BY DEF IInv
<1>2. CASE MainStep \/ KeyPress \/ Signal
  <2>1. Leased' = Leased
    BY <1>2, MainEffect DEF Leased
  <2>2. Group' = Group \/ (Group = "idle" /\ Group' \in {"running", "stopped"})
        \/ (Group = "running" /\ Group' = "stopped" /\ pcM = "stop_vpss")
    <3> USE <1>1 DEF Group, BeforeVpss, RouteInv, VpssRuns, WithThread, GotoM
    <3>1. CASE SysInit
      BY <3>1 DEF SysInit
    <3>2. CASE StartVi \/ StartVpss
      BY <3>2 DEF StartVi, StartVpss, Start
    <3>3. CASE StartVo \/ StartVenc
      BY <3>3 DEF StartVo, StartVenc, Start
    <3>4. CASE BindVi \/ BindOut
      BY <3>4 DEF BindVi, BindOut, Bind
    <3>5. CASE CreateThread \/ CheckSig \/ EnterGetchar \/ ClearRun \/ Join
      BY <3>5 DEF CreateThread, CheckSig, KeyDone, EnterGetchar, ClearRun, Join
    <3>6. CASE KeyPress \/ Signal
      BY <3>6 DEF KeyPress, Signal, KeyDone
    <3>7. CASE UnbindOut \/ StopVenc \/ StopVo \/ StopVpss
      BY <3>7, Stops DEF Lowered
    <3>8. CASE UnbindVi \/ StopVi \/ SysExit
      BY <3>8, Stops DEF Lowered
    <3> QED BY <1>2, <3>1, <3>2, <3>3, <3>4, <3>5, <3>6, <3>7, <3>8 DEF MainStep
  <2>3. pcM = "stop_vpss" => Leased = "none"
    BY <1>1 DEF Leased, RouteInv, FrameInv, WithThread, FramePcs
  <2> QED BY <2>1, <2>2, <2>3, LeaseMap
<1>3. CASE ThreadStep
  <2>1. Group' = Group
    BY <1>3, ThreadEffect DEF Group
  <2>2. \/ Leased' = Leased
        \/ Group = "running" /\ Leased = "none" /\ Leased' = "out"
        \/ Leased = "out" /\ Leased' \in {"mapped", "none"}
        \/ Leased = "mapped" /\ Leased' = "out"
    <3> USE LiveAssumption, <1>1 DEF Leased, FrameInv, FramePcs, GotoT
    <3>1. CASE UNCHANGED <<held, mapped>>
      BY <3>1
    <3>2. CASE GetChnFrame
      BY <3>2 DEF GetChnFrame, Group
    <3>3. CASE MapFrame
      BY <3>3 DEF MapFrame
    <3>4. CASE Unmap
      BY <3>4 DEF Unmap
    <3>5. CASE Release
      BY <3>5 DEF Release
    <3> QED BY <1>3, <3>1, <3>2, <3>3, <3>4, <3>5 DEF ThreadStep, NoFrame, Keep, InitResource,
         LoadModel, MakeDesc, UndoDesc, UndoModel, DestroyResource, TestRun, PrepareInput,
         PrepareOutput, PrepareUndo, MakeDatabuf, Execute, OutputResult, FreeDatabuf, FreeOutput,
         FreeInput, Send
  <2> QED BY <2>1, <2>2, LeaseMap
<1>4. CASE UNCHANGED liveVars
  BY <1>4, LeaseMap DEF liveVars, Group, Leased
<1> QED BY <1>2, <1>3, <1>4 DEF Next, Terminated

\* The two threads implement the abstract lease of a frame.
THEOREM LeaseKept == Spec => KeepsLease
<1>1. Init => Lease!LeaseInit
  BY LeaseMap DEF Init, Group, Leased, BeforeVpss
<1>2. IInv /\ [Next]_liveVars => [Lease!LeaseNext]_(Lease!leaseVars)
  BY LeaseStep
<1> QED BY <1>1, <1>2, Invariance, PTL DEF Spec, KeepsLease, Lease!LeaseSpec
=============================================================================
