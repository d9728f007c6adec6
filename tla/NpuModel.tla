------------------------------ MODULE NpuModel ------------------------------
(***************************************************************************)
(* The table g_npu_acl_model[] of sample_npu_model.c: what each entry      *)
(* points to, what the program has allocated on its behalf, and the        *)
(* functions that create and destroy those objects.  Every function is one *)
(* action of the thread that calls it; its parameter "ok" is the value it  *)
(* returns (TRUE for TD_SUCCESS).  A call into AscendCL that goes wrong is *)
(* a Fault, and a behaviour has at most MaxFaults of them.                 *)
(***************************************************************************)
EXTENDS Integers, Sequences

CONSTANTS
    Slots,          \* model indexes in use, at most MAX_THREAD_NUM of them
    NumOutputs,     \* aclmdlGetNumOutputs of the model file
    Data,           \* addresses an input buffer may be built on
    MaxFaults       \* bound on the calls into AscendCL that fail

ASSUME SlotsAssumption      == 0 \in Slots     \* whoever uses one entry uses the first
ASSUME NumOutputsAssumption == NumOutputs \in Nat \ {0}
ASSUME MaxFaultsAssumption  == MaxFaults \in Nat

VARIABLES
    slot,           \* g_npu_acl_model
    heap,           \* objects allocated for a slot and not freed yet
    faults          \* calls that have failed so far

npuVars == <<slot, heap, faults>>

-----------------------------------------------------------------------------
NoInput    == [ptr |-> FALSE, bufs |-> <<>>, dangling |-> FALSE]
EmptyInput == [NoInput EXCEPT !.ptr = TRUE]
InputOn(data, freed) == [ptr |-> TRUE, bufs |-> <<data>>, dangling |-> freed]
NoOutput    == [ptr |-> FALSE, n |-> 0]
OutputOf(n) == [ptr |-> TRUE, n |-> n]

EmptySlot == [mem    |-> FALSE, weight |-> FALSE, loaded |-> FALSE,
              desc   |-> FALSE, input  |-> NoInput, output |-> NoOutput]

Kinds == {"mem", "weight", "desc", "dataset", "databuf", "outbuf", "inbuf"}

InputType  == [ptr : BOOLEAN, bufs : Seq(Data), dangling : BOOLEAN]
OutputType == [ptr : BOOLEAN, n : 0..NumOutputs]
SlotType   == [mem  : BOOLEAN, weight : BOOLEAN, loaded : BOOLEAN,
               desc : BOOLEAN, input  : InputType, output : OutputType]

NpuTypeOK ==
    /\ slot   \in [Slots -> SlotType]
    /\ heap   \in [Slots -> [Kinds -> Int]]
    /\ faults \in 0..MaxFaults

NpuInit ==
    /\ slot   = [m \in Slots |-> EmptySlot]
    /\ heap   = [m \in Slots |-> [k \in Kinds |-> 0]]
    /\ faults = 0

Bit(b) == IF b THEN 1 ELSE 0

Fault == faults < MaxFaults /\ faults' = faults + 1

Set(m, s)      == slot' = [slot EXCEPT ![m] = s]
Count(m, k, d) == heap' = [heap EXCEPT ![m][k] = @ + d]

-----------------------------------------------------------------------------
(* Loading: sample_npu_load_model_with_mem frees nothing when it fails.    *)
LoadModelWithMem(m, ok) ==
    \/ /\ slot[m].loaded /\ ~ok
       /\ UNCHANGED npuVars
    \/ /\ ~slot[m].loaded /\ ~ok            \* aclmdlQuerySize, first malloc
       /\ Fault
       /\ UNCHANGED <<slot, heap>>
    \/ /\ ~slot[m].loaded /\ ~ok            \* second malloc
       /\ Fault
       /\ Set(m, [slot[m] EXCEPT !.mem = TRUE])
       /\ Count(m, "mem", 1)
    \/ /\ ~slot[m].loaded                   \* aclmdlLoadFromFileWithMem
       /\ IF ok THEN UNCHANGED faults ELSE Fault
       /\ Set(m, [slot[m] EXCEPT !.mem = TRUE, !.weight = TRUE, !.loaded = ok])
       /\ heap' = [heap EXCEPT ![m]["mem"] = @ + 1, ![m]["weight"] = @ + 1]

CreateDesc(m, ok) ==
    \/ /\ ~ok                               \* aclmdlCreateDesc gives NULL
       /\ Fault
       /\ Set(m, [slot[m] EXCEPT !.desc = FALSE])
       /\ UNCHANGED heap
    \/ /\ IF ok THEN UNCHANGED faults ELSE Fault   \* aclmdlGetDesc
       /\ Set(m, [slot[m] EXCEPT !.desc = TRUE])
       /\ Count(m, "desc", 1)

DestroyDesc(m) ==
    /\ Set(m, [slot[m] EXCEPT !.desc = FALSE])
    /\ Count(m, "desc", IF slot[m].desc THEN -1 ELSE 0)
    /\ UNCHANGED faults

\* The result of aclmdlUnload is only printed; the memory goes either way.
UnloadModel(m) ==
    LET s == slot[m] IN
    /\ IF ~s.loaded
       THEN UNCHANGED <<slot, heap>>
       ELSE /\ Set(m, [s EXCEPT !.mem = FALSE, !.weight = FALSE,
                                !.desc = FALSE, !.loaded = FALSE])
            /\ heap' = [heap EXCEPT ![m]["mem"] = IF s.mem THEN @ - 1 ELSE @,
                                    ![m]["weight"] = IF s.weight THEN @ - 1 ELSE @,
                                    ![m]["desc"] = IF s.desc THEN @ - 1 ELSE @]
    /\ UNCHANGED faults

-----------------------------------------------------------------------------
(* Data sets.  The create functions overwrite the slot's pointer without   *)
(* looking at it, and leave behind what they had built when they fail.     *)
CreateInputDataset(m, ok) ==
    \/ /\ ~slot[m].desc /\ ~ok
       /\ UNCHANGED npuVars
    \/ /\ slot[m].desc /\ ~ok               \* aclmdlCreateDataset gives NULL
       /\ Fault
       /\ Set(m, [slot[m] EXCEPT !.input = NoInput])
       /\ UNCHANGED heap
    \/ /\ slot[m].desc /\ ok
       /\ Set(m, [slot[m] EXCEPT !.input = EmptyInput])
       /\ Count(m, "dataset", 1)
       /\ UNCHANGED faults

DestroyInputDataset(m) ==
    /\ Set(m, [slot[m] EXCEPT !.input = NoInput])
    /\ Count(m, "dataset", IF slot[m].input.ptr THEN -1 ELSE 0)
    /\ UNCHANGED faults

CreateOutput(m, ok) ==
    \/ /\ ~slot[m].desc /\ ~ok
       /\ UNCHANGED npuVars
    \/ /\ slot[m].desc /\ ~ok               \* aclmdlCreateDataset gives NULL
       /\ Fault
       /\ Set(m, [slot[m] EXCEPT !.output = NoOutput])
       /\ UNCHANGED heap
    \/ /\ slot[m].desc                      \* the loop over the outputs
       /\ \E n \in 0..NumOutputs :
            /\ ok <=> n = NumOutputs
            /\ IF ok THEN UNCHANGED faults ELSE Fault
            /\ Set(m, [slot[m] EXCEPT !.output = OutputOf(n)])
            /\ heap' = [heap EXCEPT ![m]["dataset"] = @ + 1,
                                    ![m]["databuf"] = @ + n,
                                    ![m]["outbuf"]  = @ + n]

\* Slip: the data set goes, the slot's pointer to it stays.
DestroyOutput_KeepsPointer(m) ==
    LET out == slot[m].output IN
    /\ heap' = [heap EXCEPT ![m]["dataset"] = @ - Bit(out.ptr),
                            ![m]["databuf"] = @ - out.n,
                            ![m]["outbuf"]  = @ - out.n]
    /\ UNCHANGED <<slot, faults>>

DestroyOutput(m) ==
    LET out == slot[m].output IN
    /\ Set(m, [slot[m] EXCEPT !.output = NoOutput])
    /\ IF out.ptr
       THEN heap' = [heap EXCEPT ![m]["dataset"] = @ - 1,
                                 ![m]["databuf"] = @ - out.n,
                                 ![m]["outbuf"]  = @ - out.n]
       ELSE UNCHANGED heap
    /\ UNCHANGED faults

\* aclmdlAddDatasetBuffer refuses a NULL data set.  Neither this function nor
\* aclCreateDataBuffer (acl_base.h: nullptr only when out of memory) looks at
\* the address it is given: with a NULL one it may succeed like with any other.
CreateInputDatabuf(m, data, ok) ==
    \/ /\ ~ok /\ (~slot[m].desc \/ ~slot[m].input.ptr)
       /\ UNCHANGED npuVars
    \/ /\ ~ok /\ slot[m].desc               \* size mismatch, create, add
       /\ Fault
       /\ UNCHANGED <<slot, heap>>
    \/ /\ ok /\ slot[m].desc /\ slot[m].input.ptr
       /\ Set(m, [slot[m] EXCEPT !.input.bufs = Append(@, data)])
       /\ Count(m, "databuf", 1)
       /\ UNCHANGED faults

\* The buffers are destroyed but stay listed in the data set.
DestroyInputDatabuf(m) ==
    LET in == slot[m].input IN
    /\ Set(m, IF in.bufs = <<>> THEN slot[m] ELSE [slot[m] EXCEPT !.input.dangling = TRUE])
    /\ Count(m, "databuf", - Len(in.bufs))
    /\ UNCHANGED faults

-----------------------------------------------------------------------------
(* aclmdlExecute: what the slot needs to hold, one input buffer on "data"  *)
(* among it, and the two outcomes.  Whether there is anything at the       *)
(* address "data" is for the caller to say.                                *)
ReadyToExecute(m, data) ==
    /\ slot[m].loaded /\ slot[m].desc
    /\ slot[m].input = InputOn(data, FALSE)
    /\ slot[m].output = OutputOf(NumOutputs)

ModelExecute(m, ok) ==
    /\ IF ok THEN UNCHANGED faults ELSE Fault
    /\ UNCHANGED <<slot, heap>>

(* What a slot still points to, kind by kind.                              *)
Owned(s) ==
    [k \in Kinds |->
       CASE k = "mem"     -> Bit(s.mem)
         [] k = "weight"  -> Bit(s.weight)
         [] k = "desc"    -> Bit(s.desc)
         [] k = "dataset" -> Bit(s.input.ptr) + Bit(s.output.ptr)
         [] k = "databuf" -> s.output.n + (IF s.input.dangling THEN 0
                                           ELSE Len(s.input.bufs))
         [] k = "outbuf"  -> s.output.n
         [] k = "inbuf"   -> 0]
=============================================================================
