------------------------------ MODULE NpuTasks ------------------------------
(***************************************************************************)
(* The two NPU samples beside resnet50: the one that loads a model per     *)
(* thread and runs them together (sample_svp_npu_acl_resnet50_multithread) *)
(* and the one with dynamic batches in cached memory.  A rung of the       *)
(* ladder of one slot that fails lands at a label that undoes the rungs    *)
(* below for every slot.  Models have one input and one output here.       *)
(***************************************************************************)
EXTENDS Tasks

CONSTANT MaxThreadNum       \* MAX_THREAD_NUM: threads, and slots of g_npu_acl_model

ModelSlots == 1..MaxThreadNum
Acl        == <<"acl", 0>>
Device(t)  == <<"device", t>>              \* what aclrtSetDevice gives a thread
Mem(k)     == <<"mem", k>>
Weight(k)  == <<"weight", k>>
Loaded(k)  == <<"loaded", k>>
Desc(k)    == <<"desc", k>>
InData(k)  == <<"input_dataset", k>>
InBuf(k)   == <<"data_buf", k>>
InEntry(k) == <<"input_databuf", k>>
OutData(k) == <<"output_dataset", k>>
OutBuf(k)  == <<"output_buf", k>>
OutEntry(k) == <<"output_databuf", k>>
ProcessEnd(n) == <<"acl_process_end", n>>

InitResource(failed) == <<Take(Acl, failed), Take(Device(0), failed), Try("aclrt_get_run_mode", failed)>>

\* Both results are only printed.
DestroyResource == <<Drop(Device(0)), Drop(Acl)>>

PrepareInit ==
    LET Failed == <<"no_resource", 0>> IN
    InitResource(Failed) \o <<Jump(<<"prepared", 0>>), Mark(Failed)>> \o DestroyResource
    \o <<Jump(Ret), Mark(<<"prepared", 0>>)>>

DestroyDesc(k) == <<Drop(Desc(k))>>

UnloadModel(k, done) ==
    <<IfSet(Loaded(k), done), Drop(Desc(k)), Drop(Mem(k)), Drop(Weight(k)), Drop(Loaded(k)), Mark(done)>>

LoadModelWithMem(k, failed) ==
    <<Of(k, Try("aclmdl_query_size", failed)), Take(Mem(k), failed), Take(Weight(k), failed),
      Take(Loaded(k), failed)>>

\* A path that cannot be resolved reads as success.
LoadModel(k, load, failed) ==
    LET Success == <<"load_model_ok", k>> End1 == <<"load_end1", k>> End2 == <<"load_end2", k>>
    IN <<Of(k, Try("realpath", Success))>> \o load
       \o <<Take(Desc(k), End2), Of(k, Try("aclmdl_get_desc", End2)), Jump(Success), Mark(End2)>>
       \o DestroyDesc(k) \o <<Mark(End1)>> \o UnloadModel(k, <<"load_unloaded", k>>)
       \o <<Jump(failed), Mark(Success)>>

\* Of the two calls after the allocation either may fail; both free the buffer.
CreateOutput(k, failed) ==
    LET Undo == <<"output_undo", k>> Done == <<"output_done", k>>
    IN <<IfSet(Desc(k), failed), Take(OutData(k), failed), Take(OutBuf(k), failed),
         Take(OutEntry(k), Undo), Jump(Done), Mark(Undo), Drop(OutBuf(k)), Jump(failed), Mark(Done)>>

DestroyOutput(k) ==
    <<IfSet(OutData(k), <<"no_output", k>>), Drop(OutBuf(k)), Drop(OutEntry(k)), Drop(OutData(k)),
      Mark(<<"no_output", k>>)>>

DatasetPrepareInit(k, failed) ==
    LET NoOutput == <<"create_output_failed", k>> Done == <<"dataset_done", k>>
    IN <<IfSet(Desc(k), failed), Take(InData(k), failed)>> \o CreateOutput(k, NoOutput)
       \o <<Jump(Done), Mark(NoOutput), Drop(InData(k)), Jump(failed), Mark(Done)>>

\* A buffer that cannot be filled is left to the label.
GetInputData(k, failed) ==
    <<IfSet(Desc(k), failed), Take(InBuf(k), failed), Of(k, Use({InBuf(k)}, "fill_input_data", failed))>>

CreateInputDatabuf(k, failed) == <<IfSet(Desc(k), failed), IfSet(InData(k), failed), Take(InEntry(k), failed)>>

ExecuteFuncContious(k) ==
    <<Take(Device(k), Ret), Use({Device(k), Loaded(k), InEntry(k), OutEntry(k)}, "aclmdl_execute", On),
      Give(Device(k), On)>>

ModelExecuteMultithread ==
    [k \in ModelSlots |-> Create(k, On)] \o [k \in ModelSlots |-> Join(k)]
    \o [k \in ModelSlots |-> Use({OutData(k)}, "output_model_result", On)]

Resnet50Multithread ==
    LET Rung(k) == LoadModel(k, LoadModelWithMem(k, <<"load_end1", k>>), ProcessEnd(0))
                   \o DatasetPrepareInit(k, ProcessEnd(1)) \o GetInputData(k, ProcessEnd(2))
                   \o CreateInputDatabuf(k, ProcessEnd(3))
    IN PrepareInit \o For([k \in ModelSlots |-> Rung(k)]) \o ModelExecuteMultithread
       \o <<Mark(ProcessEnd(3))>>
       \o For([k \in ModelSlots |-> <<IfSet(InData(k), <<"no_input", k>>), Drop(InEntry(k)),
                                      Mark(<<"no_input", k>>)>>])
       \o <<Mark(ProcessEnd(2))>> \o [k \in ModelSlots |-> Drop(InBuf(k))]
       \o <<Mark(ProcessEnd(1))>>
       \o For([k \in ModelSlots |-> DestroyOutput(k) \o <<Drop(InData(k))>>])
       \o <<Mark(ProcessEnd(0))>>
       \o For([k \in ModelSlots |-> DestroyDesc(k) \o UnloadModel(k, <<"unloaded", k>>)])
       \o DestroyResource

------------------------------------------------------------------------------
(* Dynamic batch: memory of the MMZ in place of aclrtMalloc.               *)
LoadModelWithMemCached(k, failed) ==
    <<Of(k, Try("aclmdl_query_size", failed)), Take(Mem(k), failed), Take(Weight(k), failed),
      Take(Loaded(k), failed)>>

UnloadModelCached(k, done) == UnloadModel(k, done)

\* A buffer without an entry is handed to aclrtFree, which did not allocate it.
CreateCachedInput(k, failed) ==
    <<IfSet(Desc(k), failed), Take(InData(k), failed), Take(InBuf(k), failed), Take(InEntry(k), failed)>>
CreateCachedOutput(k, failed) ==
    <<IfSet(Desc(k), failed), Take(OutData(k), failed), Take(OutBuf(k), failed), Take(OutEntry(k), failed)>>

DestroyCachedInput(k, done) ==
    <<IfSet(InData(k), done), Drop(InBuf(k)), Drop(InEntry(k)), Drop(InData(k)), Mark(done)>>
DestroyCachedOutput(k, done) ==
    <<IfSet(OutData(k), done), Drop(OutBuf(k)), Drop(OutEntry(k)), Drop(OutData(k)), Mark(done)>>

CreateCachedInputOutput(k, failed) ==
    CreateCachedInput(k, failed) \o CreateCachedOutput(k, <<"no_cached_output", k>>)
    \o <<Jump(<<"cached_done", k>>), Mark(<<"no_cached_output", k>>)>>
    \o DestroyCachedInput(k, <<"cached_undone", k>>)
    \o <<Jump(failed), Mark(<<"cached_done", k>>)>>

LoopExecuteDynamicbatch(k) ==
    LET Done == <<"batches_done", k>> Next == <<"next_batch", k>>
    IN <<IfSet(Desc(k), Done), Try("aclmdl_get_dynamic_batch", Done), Use({InBuf(k)}, "set_input_data", On),
         Mark(Next), Fork(Done), Try("get_input_index", Done), Use({InData(k)}, "set_batch_size", Done),
         Use({Loaded(k), InEntry(k), OutEntry(k)}, "aclmdl_execute", Done), Jump(Next), Mark(Done)>>

\* The resources of prepare_init are not given back.
MobilenetV3Dynamicbatch ==
    PrepareInit \o LoadModel(1, LoadModelWithMemCached(1, <<"load_end1", 1>>), ProcessEnd(0))
    \o CreateCachedInputOutput(1, ProcessEnd(0)) \o LoopExecuteDynamicbatch(1)
    \o DestroyCachedInput(1, <<"no_input", 1>>) \o DestroyCachedOutput(1, <<"no_output", 1>>)
    \o <<Mark(ProcessEnd(0))>> \o DestroyDesc(1) \o UnloadModelCached(1, <<"unloaded", 1>>)
=============================================================================
