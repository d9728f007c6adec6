------------------------------ MODULE NpuStill ------------------------------
(***************************************************************************)
(* The still-picture detector: main of sample_npu_main.c converts the      *)
(* picture it is given to testyuv.sp420 (ncnn_convertimg_yolov5s), runs    *)
(* sample_svp_npu_acl_resnet50 on that file and leaves image.png and       *)
(* detections.txt behind.  The program is run again and again in the same  *)
(* directory, so the three files outlive a run that fails or is killed.    *)
(***************************************************************************)
EXTENDS NpuModel

CONSTANTS
    Pictures,       \* pictures the program is called with
    NoPicture,      \* no picture: an empty cv::Mat, no file
    MaxRuns         \* bound on the times the program is started

ASSUME StillAssumption ==
    /\ Slots = {0} /\ Data = {"dev"}
    /\ NoPicture \notin Pictures
    /\ MaxRuns \in Nat

VARIABLES
    pc,             \* where the program is; "idle" or "crashed" between runs
    runs,           \* times it was started
    pic,            \* argv[1]
    bgr,            \* the decoded picture
    fp,             \* the conversion has opened testyuv.sp420
    acl,            \* AscendCL: "down", "up" or "final"
    err,            \* the call of resnet50 that failed, "none" if none did
    buf,            \* data_buf: what the device buffer was filled with
    stray,          \* aclrtFree was given something else than aclrtMalloc's
    yuv,            \* testyuv.sp420
    image,          \* the picture image.png is drawn on
    report          \* detections.txt: what was detected, over which picture

process   == <<pic, bgr, fp, acl, err, buf, stray>>
files     == <<yuv, image, report>>
stillVars == <<pc, runs, process, files, npuVars>>

\* The contents of a file or a buffer: how much of which picture.
Absent   == [size |-> "absent", of |-> NoPicture]
Empty    == [size |-> "empty",  of |-> NoPicture]
NoReport == [found |-> Absent, over |-> NoPicture]

ProcessInit ==
    /\ bgr = NoPicture /\ fp = FALSE /\ acl = "down" /\ err = "none"
    /\ buf = Absent /\ stray = FALSE

Init ==
    /\ NpuInit /\ ProcessInit
    /\ pc = "idle" /\ runs = 0 /\ pic = NoPicture
    /\ yuv = Absent /\ image = NoPicture /\ report = NoReport

Goto(a, b) == pc = a /\ pc' = b /\ UNCHANGED runs

-----------------------------------------------------------------------------
(* main and the conversion.                                                *)

Exec ==
    /\ pc \in {"idle", "crashed"} /\ pc' = "start"
    /\ runs < MaxRuns /\ runs' = runs + 1
    /\ pic' \in Pictures
    /\ bgr' = NoPicture /\ fp' = FALSE /\ acl' = "down" /\ err' = "none"
    /\ buf' = Absent /\ stray' = FALSE
    /\ slot' = [m \in Slots |-> EmptySlot]
    /\ heap' = [m \in Slots |-> [k \in Kinds |-> 0]]
    /\ faults' = 0
    /\ UNCHANGED files

Start == /\ Goto("start", "decode") /\ image' = NoPicture
         /\ UNCHANGED <<process, yuv, report, npuVars>>

\* main does not look at what ncnn_convertimg_yolov5s returns.
Decode ==
    /\ \/ Goto("decode", "open") /\ bgr' = pic
       \/ Goto("decode", "init") /\ UNCHANGED bgr
    /\ UNCHANGED <<pic, fp, acl, err, buf, stray, files, npuVars>>

\* Slip: "r+b", which does not truncate.
OpenYuv_KeepsOld ==
    /\ Goto("open", "write") /\ fp' = TRUE
    /\ UNCHANGED <<yuv, pic, bgr, acl, err, buf, stray, image, report, npuVars>>

\* fopen "wb" truncates; if it fails, the old file stays and 0 is returned.
OpenYuv ==
    /\ \/ Goto("open", "write") /\ fp' = TRUE /\ yuv' = Empty
       \/ Goto("open", "init") /\ UNCHANGED <<fp, yuv>>
    /\ UNCHANGED <<pic, bgr, acl, err, buf, stray, image, report, npuVars>>

\* Nobody looks at what fwrite wrote.
WriteYuv ==
    /\ Goto("write", "init")
    /\ yuv' \in {yuv} \cup [size : {"part", "whole"}, of : {bgr}]
    /\ UNCHANGED <<process, image, report, npuVars>>

-----------------------------------------------------------------------------
(* sample_svp_npu_acl_resnet50: one ladder up, one down.                   *)
Rung(here, next, onFailure, Call(_)) ==
    /\ \/ Goto(here, next) /\ Call(TRUE) /\ UNCHANGED err
       \/ Goto(here, onFailure) /\ Call(FALSE) /\ err' = here
    /\ UNCHANGED <<pic, bgr, fp, acl, buf, stray, files>>

Down(here, next) ==
    Goto(here, next) /\ UNCHANGED <<pic, bgr, fp, acl, err, buf, stray, files>>

InitResource ==
    /\ \/ Goto("init", "load") /\ acl' = "up" /\ UNCHANGED <<err, faults>>
       \/ Goto("init", "idle") /\ acl' = "final" /\ err' = "init" /\ Fault
    /\ UNCHANGED <<slot, heap, pic, bgr, fp, buf, stray, files>>

\* A path that realpath refuses gives TD_NULL, which reads as success.
LoadModel ==
    \/ Rung("load", "desc", "unload", LAMBDA ok : LoadModelWithMem(0, ok))
    \/ /\ Goto("load", "input") /\ err' = "load" /\ Fault
       /\ UNCHANGED <<slot, heap, pic, bgr, fp, acl, buf, stray, files>>

\* load_model undoes a failure itself and resnet50 once more; the second time
\* finds nothing left, so the ladder is entered once here.
MakeDesc     == Rung("desc", "input", "free_desc", LAMBDA ok : CreateDesc(0, ok))
PrepareInput == Rung("input", "output", "free_desc", LAMBDA ok : CreateInputDataset(0, ok))

\* Slip: the result of dataset_prepare_init ignored, as nnn_execute does.
PrepareOutput_Ignored == Rung("output", "alloc", "alloc", LAMBDA ok : CreateOutput(0, ok))

PrepareOutput == Rung("output", "alloc", "undo_input", LAMBDA ok : CreateOutput(0, ok))
UndoInput     == Down("undo_input", "free_desc") /\ DestroyInputDataset(0)

Malloc(ok) ==
    /\ IF ok THEN UNCHANGED faults /\ Count(0, "inbuf", 1) ELSE Fault /\ UNCHANGED heap
    /\ UNCHANGED slot

AllocInput == Rung("alloc", "fill", "free_output", Malloc)

\* A file shorter than the buffer is read as it is.  On failure aclrtFree is
\* called on the address of the pointer, and the buffer stays allocated.
FillInput ==
    /\ \/ /\ Goto("fill", "databuf") /\ yuv.size \in {"part", "whole"}
          /\ buf' = yuv /\ UNCHANGED <<err, stray, faults>>
       \/ /\ Goto("fill", "free_output") /\ yuv.size \in {"absent", "empty"}
          /\ err' = "fill" /\ stray' = TRUE /\ UNCHANGED <<buf, faults>>
       \/ /\ Goto("fill", "free_output") /\ Fault          \* open, seek, read
          /\ err' = "fill" /\ stray' = TRUE /\ UNCHANGED buf
    /\ UNCHANGED <<slot, heap, pic, bgr, fp, acl, files>>

\* Slip: the label of the rung after the next.
MakeDatabuf_SkipsBuf == Rung("databuf", "exec", "free_output",
                             LAMBDA ok : CreateInputDatabuf(0, "dev", ok))

MakeDatabuf == Rung("databuf", "exec", "free_buf", LAMBDA ok : CreateInputDatabuf(0, "dev", ok))
Execute     == Rung("exec", "result", "free_databuf", LAMBDA ok : ModelExecute(0, ok))

\* ncnn_result draws on bgr, whatever the file was made of; imshow is the
\* simpleocv one, it writes image.png unless the picture is empty.
OutputResult ==
    /\ Goto("result", "free_databuf")
    /\ image' = IF bgr = NoPicture THEN image ELSE bgr
    /\ report' \in {report, [found |-> buf, over |-> bgr]}     \* fopen may fail
    /\ UNCHANGED <<process, yuv, npuVars>>

FreeDatabuf == Down("free_databuf", "free_buf") /\ DestroyInputDatabuf(0)

FreeBuf == /\ Down("free_buf", "free_output") /\ Count(0, "inbuf", -1)
           /\ UNCHANGED <<slot, faults>>
FreeOutput == Down("free_output", "free_input") /\ DestroyOutput(0)
FreeInput  == Down("free_input", "free_desc") /\ DestroyInputDataset(0)

FreeDesc == Down("free_desc", "unload") /\ DestroyDesc(0)
Unload   == Down("unload", "finalize") /\ UnloadModel(0)

Finalize == /\ Goto("finalize", "idle") /\ acl' = "final"
            /\ UNCHANGED <<pic, bgr, fp, err, buf, stray, files, npuVars>>

\* The process ends between two calls, or inside fwrite.
Killed(where) ==
    /\ pc \notin {"idle", "crashed", "start"} /\ pc' = where
    /\ IF pc = "write" THEN yuv' \in {Empty, [size |-> "part", of |-> bgr]} ELSE UNCHANGED yuv
    /\ UNCHANGED <<runs, process, image, report, npuVars>>

\* SIGTERM: the handler reads g_npu_cmd_argv[1], and nothing ever sets
\* g_npu_cmd_argv.
HandleSig == Killed("crashed")

\* SIGINT has its default action.
Interrupt == Killed("idle")

Ladder ==
    \/ InitResource \/ LoadModel \/ MakeDesc \/ PrepareInput \/ PrepareOutput \/ UndoInput
    \/ AllocInput \/ FillInput \/ MakeDatabuf \/ Execute \/ OutputResult \/ FreeDatabuf
    \/ FreeBuf \/ FreeOutput \/ FreeInput \/ FreeDesc \/ Unload \/ Finalize

Next == Exec \/ Start \/ Decode \/ OpenYuv \/ WriteYuv \/ Ladder \/ HandleSig \/ Interrupt

Spec == Init /\ [][Next]_stillVars

-----------------------------------------------------------------------------
(* Properties.                                                             *)

\* The model runs only on a complete slot, with the device buffer filled
\* from the file: every rung below it has succeeded.
ExecuteReady ==
    pc = "exec" => /\ acl = "up" /\ ReadyToExecute(0, "dev")
                   /\ buf # Absent /\ heap[0]["inbuf"] = 1

\* A run that comes to its end has given back all it allocated, but for what
\* the failed function itself leaves behind: the memory of a model that did
\* not load, a half-built output, the input buffer that was not filled.
LeftBy(k) == CASE k \in {"mem", "weight"} -> err = "load"
               [] k \in {"dataset", "databuf", "outbuf"} -> err = "output"
               [] k = "inbuf" -> err = "fill"
               [] k = "desc"  -> FALSE
LeaksOnlyWhereItFailed ==
    acl = "final" => \A k \in Kinds : heap[0][k] # 0 => LeftBy(k)

\* No pointer in the slot outlives its object, and no buffer is freed twice.
NothingFreedTwice == \A k \in Kinds : Owned(slot[0])[k] <= heap[0][k]

\* The ladder gives back what was taken, once and no more.
HeapBalanced == LeaksOnlyWhereItFailed /\ NothingFreedTwice

\* When the conversion could write its file, what is reported was found in
\* the picture of this run and is drawn on it, whatever earlier runs left.
ReportsThisPicture ==
    [][report' # report /\ fp => report'.found.of = pic /\ report'.over = pic]_stillVars

\* acl_rt.h, on aclrtFree: "can only free memory allocated through the
\* aclrtMalloc interface".
OnlyMallocedFreed == ~stray

\* sample_npu_main.c, on the signal handler: "to process abnormal case".
HandlerReturns == pc # "crashed"
=============================================================================
