---------------------------- MODULE SvpNpuTasks ----------------------------
(***************************************************************************)
(* svp/common/sample_common_svp_npu.c and .._npu_model.c: one model and    *)
(* one task of it, with two pictures as inputs and the two inputs every    *)
(* model has besides, the task buffer and the work buffer.  svp_acl is the *)
(* second interface to the NPU; it shares no state with that of NpuTasks.  *)
(***************************************************************************)
EXTENDS NpuTasks

SvpAcl      == <<"svp_acl", 0>>
SvpDevice   == <<"svp_device", 0>>
ModelFile   == <<"model_file", 0>>
ModelMem    == <<"model_mem_ptr", 0>>
ModelId     == <<"model_id", 0>>
ModelDesc   == <<"model_desc", 0>>
IsLoad      == <<"is_load_flag", 0>>
InDataset   == <<"svp_input_dataset", 0>>
OutDataset  == <<"svp_output_dataset", 0>>
Pictures    == 1..2                         \* input_num - SAMPLE_SVP_NPU_EXTRA_INPUT_NUM
TaskBuf     == 3
WorkBuf     == 4
InMem(b)    == <<"input_buffer", b>>        \* task_buf_ptr is InMem(TaskBuf)
InEnt(b)    == <<"input_data", b>>
SharedBuf   == <<"shared_work_buf", 0>>
Outputs     == 1..2
OutMem(b)   == <<"output_buffer", b>>
OutEnt(b)   == <<"output_data", b>>
DataFile(b) == <<"data_file", b>>
DumpFile(b) == <<"dump_file", b>>

AclInit(failed) ==
    LET NoDevice == <<"acl_end", 0>> NoMode == <<"acl_end", 1>> Done == <<"acl_ready", 0>>
    IN <<Take(SvpAcl, failed), Take(SvpDevice, NoDevice), Try("get_run_mode", NoMode), Jump(Done),
         Mark(NoMode), Give(SvpDevice, On), Mark(NoDevice), Give(SvpAcl, On), Jump(failed), Mark(Done)>>
AclDeinit == <<Give(SvpDevice, On), Give(SvpAcl, On)>>

ReadModel(failed) ==
    LET NoMem == <<"read_end", 0>> NotRead == <<"read_end", 1>> Done == <<"model_read", 0>>
    IN <<Take(ModelFile, failed), Use({ModelFile}, "fseek", NoMem), Take(ModelMem, NoMem),
         Use({ModelFile, ModelMem}, "fread_model", NotRead), Free(ModelFile), Jump(Done),
         Mark(NotRead), Free(ModelMem), Mark(NoMem), Free(ModelFile), Jump(failed), Mark(Done)>>

CreateDesc(failed) == <<Take(ModelDesc, failed), Use({ModelId}, "svp_get_desc", failed)>>

\* No label unloads the model, and none but end_1 knows of the description.
SvpLoadModel(failed) ==
    LET Empty == <<"slot_empty", 0>> End0 == <<"svp_load_end", 0>> End1 == <<"svp_load_end", 1>>
        Done  == <<"svp_loaded", 0>>
    IN <<While(IsLoad, Empty), Jump(failed), Mark(Empty)>>
       \o ReadModel(failed) \o <<Use({ModelMem}, "load_from_mem", End0), Local(ModelId)>> \o CreateDesc(End0)
       \o <<Use({ModelDesc}, "get_model_base_info", End1), Raise(IsLoad), Jump(Done),
            Mark(End1), Free(ModelDesc), Null(ModelDesc),
            Mark(End0), Free(ModelMem), Null(ModelMem), Jump(failed), Mark(Done)>>

SvpUnloadModel ==
    LET Empty == <<"svp_unloaded", 0>>
    IN <<While(IsLoad, Empty), Give(ModelId, On), Drop(ModelDesc), Drop(ModelMem), Lower(IsLoad), Mark(Empty)>>

------------------------------------------------------------------------------
(* A buffer is its memory and its entry, which a data set then takes.      *)
CreateDataBuffer(mem, ent, failed) ==
    LET NoEntry == <<"no_entry", mem>> Done == <<"buffer_done", mem>>
    IN <<Take(mem, failed), Take(ent, NoEntry), Jump(Done),
         Mark(NoEntry), Free(mem), Null(mem), Jump(failed), Mark(Done)>>

\* What a data set refuses is destroyed.
AddDatasetBuffer(dataset, mem, ent, refused) ==
    LET No == <<"refused", mem>> Done == <<"added", mem>>
    IN <<Of(mem, Use({dataset, ent}, "add_dataset_buffer", No)), Jump(Done),
         Mark(No), Free(mem), Free(ent), Null(ent), Jump(refused), Mark(Done)>>

\* The memory of the task and the work buffer is not the data set's.
DestroyInput(done) ==
    <<IfSet(InDataset, done)>> \o [b \in Pictures |-> Drop(InMem(b))]
    \o [b \in 1..WorkBuf |-> Drop(InEnt(b))] \o <<Drop(InDataset), Mark(done)>>

SvpDestroyOutput(done) ==
    <<IfSet(OutDataset, done)>> \o [b \in Outputs |-> Drop(OutMem(b))]
    \o [b \in Outputs |-> Drop(OutEnt(b))] \o <<Drop(OutDataset), Mark(done)>>

CreateInput(failed) ==
    LET Undo == <<"undo_input", 0>> Done == <<"input_created", 0>>
        Refused(b) == <<"input_refused", b>>
    IN <<Take(InDataset, failed)>>
       \o For([b \in Pictures |->
              CreateDataBuffer(InMem(b), InEnt(b), Undo) \o AddDatasetBuffer(InDataset, InMem(b), InEnt(b), Refused(b))])
       \o <<Jump(Done)>> \o For([b \in Pictures |-> <<Mark(Refused(b)), Null(InMem(b)), Jump(Undo)>>])
       \o <<Mark(Undo)>> \o DestroyInput(<<"input_undone", 0>>) \o <<Jump(failed), Mark(Done)>>

\* A buffer that is refused is freed, and task_buf_ptr keeps pointing to it.
CreateExtraBuf(b, failed) ==
    <<IfSet(InDataset, failed)>> \o CreateDataBuffer(InMem(b), InEnt(b), failed)
    \o AddDatasetBuffer(InDataset, InMem(b), InEnt(b), failed)
CreateTaskBuf(failed) == CreateExtraBuf(TaskBuf, failed)
CreateWorkBuf(failed) == CreateExtraBuf(WorkBuf, failed)
DestroyTaskBuf == <<Drop(InMem(TaskBuf))>>
DestroyWorkBuf == <<Drop(InMem(WorkBuf))>>

\* An entry for memory that belongs to the caller.
ShareWorkBuf(failed) ==
    LET Refused == <<"share_refused", 0>> Done == <<"shared", 0>>
    IN <<IfSet(SharedBuf, failed), Take(InEnt(WorkBuf), failed),
         Use({InDataset, InEnt(WorkBuf)}, "add_shared_buf", Refused), Jump(Done),
         Mark(Refused), Free(InEnt(WorkBuf)), Null(InEnt(WorkBuf)), Jump(failed), Mark(Done)>>

\* The data set just created is not looked at (a buffer cannot be added to one
\* that is NULL); a buffer that cannot be created takes the input with it.
SvpCreateOutput(failed) ==
    LET NoBuffer == <<"undo_output", 0>> Done == <<"output_created", 0>> Undo == <<"undo_output", 1>>
        Refused(b) == <<"output_refused", b>>
    IN <<Take(OutDataset, On), IfSet(InDataset, failed)>>
       \o For([b \in Outputs |->
              CreateDataBuffer(OutMem(b), OutEnt(b), NoBuffer)
              \o <<IfSet(OutDataset, <<"refused", OutMem(b)>>)>>
              \o AddDatasetBuffer(OutDataset, OutMem(b), OutEnt(b), Refused(b))])
       \o <<Jump(Done), Mark(NoBuffer)>> \o DestroyInput(<<"input_lost", 0>>) \o <<Jump(failed)>>
       \o For([b \in Outputs |-> <<Mark(Refused(b)), Null(OutMem(b)), Jump(Undo)>>])
       \o <<Mark(Undo)>> \o SvpDestroyOutput(<<"output_undone", 0>>) \o <<Jump(failed), Mark(Done)>>

SvpGetInputData(failed) ==
    LET End(b) == <<"data_end", b>> Next(b) == <<"data_read", b>>
    IN For([b \in Pictures |->
           <<Take(DataFile(b), failed), Of(b, Use({InDataset, InMem(b), DataFile(b)}, "fread_data", End(b))),
             Free(DataFile(b)), Jump(Next(b)), Mark(End(b)), Free(DataFile(b)), Jump(failed), Mark(Next(b))>>])

SetDynamicBatch(failed) ==
    <<Use({ModelId, InDataset}, "set_dynamic_batch_size", failed), Fork(<<"no_total_t", 0>>),
      Use({ModelId, InDataset}, "set_total_t", failed), Mark(<<"no_total_t", 0>>)>>

\* Everything the model reads and writes.
ModelExecute(failed) ==
    <<Use({ModelId, ModelMem, InDataset, OutDataset, InMem(TaskBuf)}
          \cup {InEnt(b) : b \in 1..WorkBuf} \cup {InMem(b) : b \in Pictures}
          \cup {OutMem(b) : b \in Outputs} \cup {OutEnt(b) : b \in Outputs}, "svp_mdl_execute", failed)>>

OutputClassificationResult ==
    <<IfSet(OutDataset, <<"classified", 0>>)>>
    \o [b \in Outputs |-> Of(b, Use({ModelDesc, OutMem(b)}, "sort_output_result", On))] \o <<Mark(<<"classified", 0>>)>>

\* File by file; a line that cannot be written ends it.
DumpDataset(mem, bufs, first, done) ==
    LET File(b) == DumpFile(first + b) NotWritten(b) == <<"not_written", first + b>> Next(b) == <<"dumped", first + b>>
    IN For([b \in bufs |->
           <<Take(File(b), done), Of(first + b, Use({<<mem, b>>, File(b)}, "fwrite", NotWritten(b))), Free(File(b)),
             Jump(Next(b)), Mark(NotWritten(b)), Free(File(b)), Jump(done), Mark(Next(b))>>])

DumpTaskData ==
    LET Input == <<"input_dumped", 0>> Output == <<"output_dumped", 0>>
    IN <<IfSet(InDataset, Output), IfSet(OutDataset, Output)>>
       \o DumpDataset("input_buffer", Pictures, 0, Input) \o <<Mark(Input)>>
       \o DumpDataset("output_buffer", Outputs, 2, Output) \o <<Mark(Output)>>

\* Of the two ways to a work buffer one is taken; whatever fails, all of the
\* destroy functions follow.
SvpNpuCaller ==
    LET Down == <<"svp_npu_down", 0>> NoModel == <<"svp_no_model", 0>>
    IN AclInit(Ret) \o <<Local(SharedBuf)>> \o SvpLoadModel(NoModel)
       \o CreateInput(Down) \o CreateTaskBuf(Down)
       \o <<Fork(<<"share", 0>>)>> \o CreateWorkBuf(Down) \o <<Jump(<<"has_work_buf", 0>>), Mark(<<"share", 0>>)>>
       \o ShareWorkBuf(Down) \o <<Mark(<<"has_work_buf", 0>>)>>
       \o SvpCreateOutput(Down) \o SvpGetInputData(Down) \o SetDynamicBatch(Down) \o ModelExecute(Down)
       \o OutputClassificationResult \o DumpTaskData
       \o <<Mark(Down)>> \o DestroyInput(<<"input_destroyed", 0>>) \o SvpDestroyOutput(<<"output_destroyed", 0>>)
       \o DestroyTaskBuf \o DestroyWorkBuf \o SvpUnloadModel \o <<Mark(NoModel), Free(SharedBuf)>> \o AclDeinit
=============================================================================
