-------------------------- MODULE NpuModel_proofs --------------------------
(* What the functions of NpuModel do to entry 0 of the table, for whoever  *)
(* calls them.                                                             *)
EXTENDS NpuModel, TLAPS

\* The kinds, one by one.
LEMMA KindsHas ==
  /\ "mem" \in Kinds /\ "weight" \in Kinds /\ "desc" \in Kinds /\ "dataset" \in Kinds
  /\ "databuf" \in Kinds /\ "outbuf" \in Kinds /\ "inbuf" \in Kinds
BY DEF Kinds

\* The entry and the counters of model 0 have their types.
LEMMA SlotZero == ASSUME NpuTypeOK PROVE slot[0] \in SlotType /\ heap[0] \in [Kinds -> Int]
BY SlotsAssumption DEF NpuTypeOK

\* Writing entry 0 keeps the table typed and changes that entry only.
LEMMA SetEffect ==
  ASSUME NpuTypeOK, NEW s \in SlotType, Set(0, s)
  PROVE  slot' \in [Slots -> SlotType] /\ slot'[0] = s
BY SlotsAssumption DEF NpuTypeOK, Set

\* Allocating or freeing changes one counter of entry 0.
LEMMA CountEffect ==
  ASSUME NpuTypeOK, NEW k \in Kinds, NEW d \in Int, Count(0, k, d)
  PROVE  /\ heap' \in [Slots -> [Kinds -> Int]]
         /\ heap'[0] = [heap[0] EXCEPT ![k] = @ + d]
BY SlotsAssumption DEF NpuTypeOK, Count

\* A failing call spends one unit of the fault budget.
LEMMA FaultEffect ==
  ASSUME NpuTypeOK, Fault
  PROVE  faults' \in 0..MaxFaults /\ faults' = faults + 1
BY MaxFaultsAssumption DEF NpuTypeOK, Fault

\* load_model_with_mem records what it takes, also where it fails halfway.
LEMMA LoadEffect ==
  ASSUME NpuTypeOK, NEW ok \in BOOLEAN, LoadModelWithMem(0, ok)
  PROVE  /\ NpuTypeOK'
         /\ \/ UNCHANGED npuVars /\ ~ok
            \/ Fault /\ UNCHANGED <<slot, heap>> /\ ~ok
            \/ /\ Fault /\ ~ok /\ ~slot[0].loaded
               /\ slot'[0] = [slot[0] EXCEPT !.mem = TRUE]
               /\ heap'[0] = [heap[0] EXCEPT !["mem"] = @ + 1]
            \/ /\ IF ok THEN UNCHANGED faults ELSE Fault
               /\ ~slot[0].loaded
               /\ slot'[0] = [slot[0] EXCEPT !.mem = TRUE, !.weight = TRUE, !.loaded = ok]
               /\ heap'[0] = [heap[0] EXCEPT !["mem"] = @ + 1, !["weight"] = @ + 1]
<1>1. CASE UNCHANGED npuVars /\ ~ok
  BY <1>1 DEF npuVars, NpuTypeOK
<1>2. CASE Fault /\ UNCHANGED <<slot, heap>> /\ ~ok
  BY <1>2, FaultEffect DEF NpuTypeOK
<1>3. /\ [slot[0] EXCEPT !.mem = TRUE] \in SlotType
      /\ [slot[0] EXCEPT !.mem = TRUE, !.weight = TRUE, !.loaded = ok] \in SlotType
  BY SlotZero DEF SlotType
<1>4. CASE /\ ~slot[0].loaded /\ ~ok /\ Fault
           /\ Set(0, [slot[0] EXCEPT !.mem = TRUE]) /\ Count(0, "mem", 1)
  <2>1. slot' \in [Slots -> SlotType] /\ slot'[0] = [slot[0] EXCEPT !.mem = TRUE]
    BY <1>3, <1>4, SetEffect
  <2>2. /\ heap' \in [Slots -> [Kinds -> Int]]
        /\ heap'[0] = [heap[0] EXCEPT !["mem"] = @ + 1]
    BY <1>4, CountEffect, KindsHas
  <2> QED BY <1>4, <2>1, <2>2, FaultEffect DEF NpuTypeOK
<1>5. CASE /\ ~slot[0].loaded /\ IF ok THEN UNCHANGED faults ELSE Fault
           /\ Set(0, [slot[0] EXCEPT !.mem = TRUE, !.weight = TRUE, !.loaded = ok])
           /\ heap' = [heap EXCEPT ![0]["mem"] = @ + 1, ![0]["weight"] = @ + 1]
  <2>1. /\ heap' \in [Slots -> [Kinds -> Int]]
        /\ heap'[0] = [heap[0] EXCEPT !["mem"] = @ + 1, !["weight"] = @ + 1]
    BY <1>5, KindsHas, SlotsAssumption DEF NpuTypeOK
  <2>2. faults' \in 0..MaxFaults
    BY <1>5, FaultEffect DEF NpuTypeOK
  <2> QED BY <1>3, <1>5, <2>1, <2>2, SetEffect DEF NpuTypeOK
<1> QED BY <1>1, <1>2, <1>4, <1>5 DEF LoadModelWithMem

\* create_desc leaves a description or none; a failure may leave either.
LEMMA CreateDescEffect ==
  ASSUME NpuTypeOK, NEW ok \in BOOLEAN, CreateDesc(0, ok)
  PROVE  /\ NpuTypeOK'
         /\ IF ok THEN UNCHANGED faults ELSE Fault
         /\ \/ ~ok /\ slot'[0] = [slot[0] EXCEPT !.desc = FALSE] /\ UNCHANGED heap
            \/ /\ slot'[0] = [slot[0] EXCEPT !.desc = TRUE]
               /\ heap'[0] = [heap[0] EXCEPT !["desc"] = @ + 1]
<1>1. \A b \in BOOLEAN : [slot[0] EXCEPT !.desc = b] \in SlotType
  BY SlotZero DEF SlotType
<1>2. CASE ~ok /\ Fault /\ Set(0, [slot[0] EXCEPT !.desc = FALSE]) /\ UNCHANGED heap
  BY <1>1, <1>2, FaultEffect, SetEffect DEF NpuTypeOK
<1>3. CASE /\ IF ok THEN UNCHANGED faults ELSE Fault
           /\ Set(0, [slot[0] EXCEPT !.desc = TRUE]) /\ Count(0, "desc", 1)
  <2>1. slot' \in [Slots -> SlotType] /\ slot'[0] = [slot[0] EXCEPT !.desc = TRUE]
    BY <1>1, <1>3, SetEffect
  <2>2. /\ heap' \in [Slots -> [Kinds -> Int]]
        /\ heap'[0] = [heap[0] EXCEPT !["desc"] = @ + 1]
    BY <1>3, CountEffect, KindsHas
  <2>3. faults' \in 0..MaxFaults
    BY <1>3, FaultEffect DEF NpuTypeOK
  <2> QED BY <1>3, <2>1, <2>2, <2>3 DEF NpuTypeOK
<1> QED BY <1>2, <1>3 DEF CreateDesc

\* destroy_desc gives back the description the entry names.
LEMMA DestroyDescEffect ==
  ASSUME NpuTypeOK, DestroyDesc(0)
  PROVE  /\ NpuTypeOK' /\ UNCHANGED faults
         /\ slot'[0] = [slot[0] EXCEPT !.desc = FALSE]
         /\ heap'[0] = [heap[0] EXCEPT !["desc"] = @ - Bit(slot[0].desc)]
<1>1. [slot[0] EXCEPT !.desc = FALSE] \in SlotType
  BY SlotZero DEF SlotType
<1> DEFINE d == IF slot[0].desc THEN -1 ELSE 0
<1>2. d \in Int /\ d = - Bit(slot[0].desc)
  BY DEF Bit
<1>3. Count(0, "desc", d) /\ Set(0, [slot[0] EXCEPT !.desc = FALSE]) /\ UNCHANGED faults
  BY DEF DestroyDesc
<1> HIDE DEF d
<1>4. /\ heap' \in [Slots -> [Kinds -> Int]]
      /\ heap'[0] = [heap[0] EXCEPT !["desc"] = @ + d]
  BY <1>2, <1>3, CountEffect, KindsHas
<1>5. heap'[0] = [heap[0] EXCEPT !["desc"] = @ - Bit(slot[0].desc)]
  BY <1>2, <1>4, SlotZero, KindsHas DEF Bit
<1> QED BY <1>1, <1>3, <1>4, <1>5, SetEffect DEF NpuTypeOK

\* unload gives back the model and its two memories.
LEMMA UnloadEffect ==
  ASSUME NpuTypeOK, UnloadModel(0)
  PROVE  /\ NpuTypeOK' /\ UNCHANGED faults
         /\ \/ ~slot[0].loaded /\ UNCHANGED <<slot, heap>>
            \/ /\ slot[0].loaded
               /\ slot'[0] = [slot[0] EXCEPT !.mem = FALSE, !.weight = FALSE,
                                             !.desc = FALSE, !.loaded = FALSE]
               /\ heap'[0] = [heap[0] EXCEPT !["mem"] = @ - Bit(slot[0].mem),
                                             !["weight"] = @ - Bit(slot[0].weight),
                                             !["desc"] = @ - Bit(slot[0].desc)]
<1>1. CASE ~slot[0].loaded
  BY <1>1 DEF NpuTypeOK, UnloadModel
<1>2. CASE slot[0].loaded
  <2>1. [slot[0] EXCEPT !.mem = FALSE, !.weight = FALSE, !.desc = FALSE, !.loaded = FALSE]
          \in SlotType
    BY SlotZero DEF SlotType
  <2>2. /\ heap' \in [Slots -> [Kinds -> Int]]
        /\ heap'[0] = [heap[0] EXCEPT !["mem"] = @ - Bit(slot[0].mem),
                                      !["weight"] = @ - Bit(slot[0].weight),
                                      !["desc"] = @ - Bit(slot[0].desc)]
    <3> DEFINE h0 == heap[0]
               h1 == [h0 EXCEPT !["mem"] = IF slot[0].mem THEN @ - 1 ELSE @,
                                !["weight"] = IF slot[0].weight THEN @ - 1 ELSE @,
                                !["desc"] = IF slot[0].desc THEN @ - 1 ELSE @]
    <3>1. heap' = [heap EXCEPT ![0] = h1]
      BY <1>2, SlotZero, KindsHas, SlotsAssumption DEF UnloadModel, NpuTypeOK
    <3>2. h1 = [h0 EXCEPT !["mem"] = @ - Bit(slot[0].mem),
                          !["weight"] = @ - Bit(slot[0].weight),
                          !["desc"] = @ - Bit(slot[0].desc)]
      BY SlotZero, KindsHas DEF Bit, SlotType
    <3>3. h1 \in [Kinds -> Int]
      BY SlotZero, KindsHas
    <3> QED BY <3>1, <3>2, <3>3, SlotsAssumption DEF NpuTypeOK
  <2> QED BY <1>2, <2>1, <2>2, SetEffect DEF NpuTypeOK, UnloadModel
<1> QED BY <1>1, <1>2

\* The records of a missing or an empty data set have their types.
LEMMA EmptyTypes == NoInput \in InputType /\ EmptyInput \in InputType /\ NoOutput \in OutputType
<1>1. <<>> \in Seq(Data)
  OBVIOUS
<1>2. NoInput \in InputType /\ EmptyInput \in InputType
  BY <1>1 DEF NoInput, EmptyInput, InputType
<1>3. NoOutput \in OutputType
  BY NumOutputsAssumption DEF NoOutput, OutputType
<1> QED BY <1>2, <1>3

\* An input data set is given by its one buffer and whether that was freed.
LEMMA SameInput ==
  ASSUME NEW x \in InputType, NEW data \in Data, NEW freed \in BOOLEAN,
         x.ptr, x.bufs = <<data>>, x.dangling <=> freed
  PROVE  x = InputOn(data, freed)
<1>1. ASSUME NEW y \in InputType, y.ptr, y.bufs = <<data>>, y.dangling <=> freed
      PROVE  x = y
  BY <1>1 DEF InputType
<1>2. /\ InputOn(data, freed) \in InputType /\ InputOn(data, freed).ptr
      /\ InputOn(data, freed).bufs = <<data>> /\ (InputOn(data, freed).dangling <=> freed)
  BY DEF InputOn, InputType
<1> QED BY <1>1, <1>2

\* An input data set with a buffer has its type.
LEMMA InputOnType ==
  ASSUME NEW data \in Data, NEW freed \in BOOLEAN
  PROVE  /\ InputOn(data, freed) \in InputType /\ InputOn(data, freed).ptr
         /\ InputOn(data, freed).bufs = <<data>> /\ (InputOn(data, freed).dangling <=> freed)
BY DEF InputOn, InputType

\* Replacing the input of entry 0 keeps the entry typed.
LEMMA WithInput ==
  ASSUME NpuTypeOK, NEW in \in InputType
  PROVE  [slot[0] EXCEPT !.input = in] \in SlotType
BY SlotZero DEF SlotType

\* Replacing the output of entry 0 keeps the entry typed.
LEMMA WithOutput ==
  ASSUME NpuTypeOK, NEW out \in OutputType
  PROVE  [slot[0] EXCEPT !.output = out] \in SlotType
BY SlotZero DEF SlotType

\* create_input_dataset adds one data set, or fails and adds none.
LEMMA CreateInputDatasetEffect ==
  ASSUME NpuTypeOK, NEW ok \in BOOLEAN, CreateInputDataset(0, ok)
  PROVE  /\ NpuTypeOK'
         /\ \/ ~slot[0].desc /\ ~ok /\ UNCHANGED npuVars
            \/ /\ slot[0].desc /\ ~ok /\ Fault /\ UNCHANGED heap
               /\ slot'[0] = [slot[0] EXCEPT !.input = NoInput]
            \/ /\ slot[0].desc /\ ok /\ UNCHANGED faults
               /\ slot'[0] = [slot[0] EXCEPT !.input = EmptyInput]
               /\ heap'[0] = [heap[0] EXCEPT !["dataset"] = @ + 1]
<1>1. /\ [slot[0] EXCEPT !.input = NoInput] \in SlotType
      /\ [slot[0] EXCEPT !.input = EmptyInput] \in SlotType
  BY WithInput, EmptyTypes
<1>2. CASE ~slot[0].desc /\ ~ok /\ UNCHANGED npuVars
  BY <1>2 DEF NpuTypeOK, npuVars
<1>3. CASE /\ slot[0].desc /\ ~ok /\ Fault /\ UNCHANGED heap
           /\ Set(0, [slot[0] EXCEPT !.input = NoInput])
  BY <1>1, <1>3, FaultEffect, SetEffect DEF NpuTypeOK
<1>4. CASE /\ slot[0].desc /\ ok /\ UNCHANGED faults
           /\ Set(0, [slot[0] EXCEPT !.input = EmptyInput]) /\ Count(0, "dataset", 1)
  <2>1. slot' \in [Slots -> SlotType] /\ slot'[0] = [slot[0] EXCEPT !.input = EmptyInput]
    BY <1>1, <1>4, SetEffect
  <2>2. /\ heap' \in [Slots -> [Kinds -> Int]]
        /\ heap'[0] = [heap[0] EXCEPT !["dataset"] = @ + 1]
    BY <1>4, CountEffect, KindsHas
  <2> QED BY <1>4, <2>1, <2>2 DEF NpuTypeOK
<1> QED BY <1>2, <1>3, <1>4 DEF CreateInputDataset

\* destroy_input_dataset gives back what the pointer names.
LEMMA DestroyInputDatasetEffect ==
  ASSUME NpuTypeOK, DestroyInputDataset(0)
  PROVE  /\ NpuTypeOK' /\ UNCHANGED faults
         /\ slot'[0] = [slot[0] EXCEPT !.input = NoInput]
         /\ heap'[0] = [heap[0] EXCEPT !["dataset"] = @ - Bit(slot[0].input.ptr)]
<1> DEFINE d == IF slot[0].input.ptr THEN -1 ELSE 0
<1>1. [slot[0] EXCEPT !.input = NoInput] \in SlotType
  BY WithInput, EmptyTypes
<1>2. d \in Int /\ d = - Bit(slot[0].input.ptr)
  BY DEF Bit
<1>3. /\ Count(0, "dataset", d) /\ Set(0, [slot[0] EXCEPT !.input = NoInput])
      /\ UNCHANGED faults
  BY DEF DestroyInputDataset
<1> HIDE DEF d
<1>4. /\ heap' \in [Slots -> [Kinds -> Int]]
      /\ heap'[0] = [heap[0] EXCEPT !["dataset"] = @ + d]
  BY <1>2, <1>3, CountEffect, KindsHas
<1>5. heap'[0] = [heap[0] EXCEPT !["dataset"] = @ - Bit(slot[0].input.ptr)]
  BY <1>2, <1>4, SlotZero, KindsHas DEF Bit
<1> QED BY <1>1, <1>3, <1>4, <1>5, SetEffect DEF NpuTypeOK

\* create_output: whole, half-filled after a fault, or absent.
LEMMA CreateOutputEffect ==
  ASSUME NpuTypeOK, NEW ok \in BOOLEAN, CreateOutput(0, ok)
  PROVE  /\ NpuTypeOK'
         /\ \/ ~slot[0].desc /\ ~ok /\ UNCHANGED npuVars
            \/ /\ slot[0].desc /\ ~ok /\ Fault /\ UNCHANGED heap
               /\ slot'[0] = [slot[0] EXCEPT !.output = NoOutput]
            \/ /\ slot[0].desc
               /\ \E n \in 0..NumOutputs :
                    /\ ok <=> n = NumOutputs
                    /\ IF ok THEN UNCHANGED faults ELSE Fault
                    /\ slot'[0] = [slot[0] EXCEPT !.output = OutputOf(n)]
                    /\ heap'[0] = [heap[0] EXCEPT !["dataset"] = @ + 1,
                                                  !["databuf"] = @ + n,
                                                  !["outbuf"]  = @ + n]
<1>1. CASE ~slot[0].desc /\ ~ok /\ UNCHANGED npuVars
  BY <1>1 DEF NpuTypeOK, npuVars
<1>2. CASE /\ slot[0].desc /\ ~ok /\ Fault /\ UNCHANGED heap
           /\ Set(0, [slot[0] EXCEPT !.output = NoOutput])
  <2>1. [slot[0] EXCEPT !.output = NoOutput] \in SlotType
    BY WithOutput, EmptyTypes
  <2> QED BY <1>2, <2>1, FaultEffect, SetEffect DEF NpuTypeOK
<1>3. ASSUME slot[0].desc, NEW n \in 0..NumOutputs, ok <=> n = NumOutputs,
             IF ok THEN UNCHANGED faults ELSE Fault,
             Set(0, [slot[0] EXCEPT !.output = OutputOf(n)]),
             heap' = [heap EXCEPT ![0]["dataset"] = @ + 1,
                                  ![0]["databuf"] = @ + n,
                                  ![0]["outbuf"]  = @ + n]
      PROVE  /\ NpuTypeOK'
             /\ slot'[0] = [slot[0] EXCEPT !.output = OutputOf(n)]
             /\ heap'[0] = [heap[0] EXCEPT !["dataset"] = @ + 1,
                                           !["databuf"] = @ + n,
                                           !["outbuf"]  = @ + n]
  <2>1. [slot[0] EXCEPT !.output = OutputOf(n)] \in SlotType
    BY SlotZero DEF SlotType, OutputType, OutputOf
  <2>2. slot' \in [Slots -> SlotType]
        /\ slot'[0] = [slot[0] EXCEPT !.output = OutputOf(n)]
    BY <1>3, <2>1, SetEffect
  <2>3. /\ heap' \in [Slots -> [Kinds -> Int]]
        /\ heap'[0] = [heap[0] EXCEPT !["dataset"] = @ + 1,
                                      !["databuf"] = @ + n,
                                      !["outbuf"]  = @ + n]
    <3> DEFINE h0 == heap[0]
               h1 == [h0 EXCEPT !["dataset"] = @ + 1, !["databuf"] = @ + n, !["outbuf"] = @ + n]
    <3>1. heap' = [heap EXCEPT ![0] = h1]
      BY <1>3, SlotZero, KindsHas, SlotsAssumption DEF NpuTypeOK
    <3>2. h1 \in [Kinds -> Int]
      BY SlotZero, KindsHas, NumOutputsAssumption
    <3> QED BY <3>1, <3>2, SlotsAssumption DEF NpuTypeOK
  <2>4. faults' \in 0..MaxFaults
    BY <1>3, FaultEffect DEF NpuTypeOK
  <2> QED BY <2>2, <2>3, <2>4 DEF NpuTypeOK
<1> QED BY <1>1, <1>2, <1>3 DEF CreateOutput

\* destroy_output gives back the data set and its buffers.
LEMMA DestroyOutputEffect ==
  ASSUME NpuTypeOK, DestroyOutput(0)
  PROVE  /\ NpuTypeOK' /\ UNCHANGED faults
         /\ slot'[0] = [slot[0] EXCEPT !.output = NoOutput]
         /\ IF slot[0].output.ptr
            THEN heap'[0] = [heap[0] EXCEPT !["dataset"] = @ - 1,
                                            !["databuf"] = @ - slot[0].output.n,
                                            !["outbuf"]  = @ - slot[0].output.n]
            ELSE heap'[0] = heap[0]
<1>1. [slot[0] EXCEPT !.output = NoOutput] \in SlotType /\ slot[0].output.n \in Int
  <2>1. slot[0].output.n \in Int
    BY SlotZero, NumOutputsAssumption DEF SlotType, OutputType
  <2> QED BY <2>1, WithOutput, EmptyTypes
<1>2. slot' \in [Slots -> SlotType] /\ slot'[0] = [slot[0] EXCEPT !.output = NoOutput]
  BY <1>1, SetEffect DEF DestroyOutput
<1>3. CASE slot[0].output.ptr
  <2>1. /\ heap' \in [Slots -> [Kinds -> Int]]
        /\ heap'[0] = [heap[0] EXCEPT !["dataset"] = @ - 1,
                                      !["databuf"] = @ - slot[0].output.n,
                                      !["outbuf"]  = @ - slot[0].output.n]
    <3> DEFINE h0 == heap[0]
               h1 == [h0 EXCEPT !["dataset"] = @ - 1, !["databuf"] = @ - slot[0].output.n,
                                !["outbuf"] = @ - slot[0].output.n]
    <3>1. heap' = [heap EXCEPT ![0] = h1]
      BY <1>3, SlotZero, KindsHas, SlotsAssumption DEF NpuTypeOK, DestroyOutput
    <3>2. h1 \in [Kinds -> Int]
      BY <1>1, SlotZero, KindsHas
    <3> QED BY <3>1, <3>2, SlotsAssumption DEF NpuTypeOK
  <2> QED BY <1>2, <1>3, <2>1 DEF NpuTypeOK, DestroyOutput
<1>4. CASE ~slot[0].output.ptr
  BY <1>2, <1>4 DEF NpuTypeOK, DestroyOutput
<1> QED BY <1>3, <1>4

\* create_databuf adds the block as a buffer of the data set.
LEMMA CreateDatabufEffect ==
  ASSUME NpuTypeOK, NEW data \in Data, NEW ok \in BOOLEAN, CreateInputDatabuf(0, data, ok)
  PROVE  /\ NpuTypeOK'
         /\ \/ ~ok /\ UNCHANGED npuVars /\ (~slot[0].desc \/ ~slot[0].input.ptr)
            \/ ~ok /\ Fault /\ UNCHANGED <<slot, heap>>
            \/ /\ ok /\ slot[0].desc /\ slot[0].input.ptr /\ UNCHANGED faults
               /\ slot'[0] = [slot[0] EXCEPT !.input.bufs = Append(@, data)]
               /\ heap'[0] = [heap[0] EXCEPT !["databuf"] = @ + 1]
<1>1. CASE ~ok /\ UNCHANGED npuVars /\ (~slot[0].desc \/ ~slot[0].input.ptr)
  BY <1>1 DEF NpuTypeOK, npuVars
<1>2. CASE ~ok /\ Fault /\ UNCHANGED <<slot, heap>>
  BY <1>2, FaultEffect DEF NpuTypeOK
<1>3. CASE /\ ok /\ slot[0].desc /\ slot[0].input.ptr /\ UNCHANGED faults
           /\ Set(0, [slot[0] EXCEPT !.input.bufs = Append(@, data)])
           /\ Count(0, "databuf", 1)
  <2>1. [slot[0] EXCEPT !.input.bufs = Append(@, data)] \in SlotType
    <3>1. slot[0].input \in InputType
      BY SlotZero DEF SlotType
    <3>2. Append(slot[0].input.bufs, data) \in Seq(Data)
      BY <3>1 DEF InputType
    <3>3. [slot[0].input EXCEPT !.bufs = Append(@, data)] \in InputType
      BY <3>1, <3>2 DEF InputType
    <3> QED BY <3>3, WithInput
  <2>2. slot' \in [Slots -> SlotType]
        /\ slot'[0] = [slot[0] EXCEPT !.input.bufs = Append(@, data)]
    BY <1>3, <2>1, SetEffect
  <2>3. /\ heap' \in [Slots -> [Kinds -> Int]]
        /\ heap'[0] = [heap[0] EXCEPT !["databuf"] = @ + 1]
    <3>1. Count(0, "databuf", 1)
      BY <1>3
    <3> QED BY <3>1, CountEffect, KindsHas
  <2> QED BY <1>3, <2>2, <2>3 DEF NpuTypeOK
<1> QED BY <1>1, <1>2, <1>3 DEF CreateInputDatabuf

\* destroy_databuf gives back the buffer and keeps the set.
LEMMA DestroyDatabufEffect ==
  ASSUME NpuTypeOK, DestroyInputDatabuf(0)
  PROVE  /\ NpuTypeOK' /\ UNCHANGED faults
         /\ slot'[0] = IF slot[0].input.bufs = <<>> THEN slot[0]
                       ELSE [slot[0] EXCEPT !.input.dangling = TRUE]
         /\ heap'[0] = [heap[0] EXCEPT !["databuf"] = @ - Len(slot[0].input.bufs)]
<1> DEFINE d == - Len(slot[0].input.bufs)
           s == IF slot[0].input.bufs = <<>> THEN slot[0]
                ELSE [slot[0] EXCEPT !.input.dangling = TRUE]
<1>1. s \in SlotType
  <2>1. slot[0].input \in InputType
    BY SlotZero DEF SlotType
  <2>2. [slot[0].input EXCEPT !.dangling = TRUE] \in InputType
    BY <2>1 DEF InputType
  <2> QED BY <2>2, SlotZero, WithInput
<1>2. d \in Int
  BY SlotZero DEF SlotType, InputType
<1>3. Count(0, "databuf", d) /\ Set(0, s) /\ UNCHANGED faults
  BY DEF DestroyInputDatabuf
<1>4. heap'[0] = [heap[0] EXCEPT !["databuf"] = @ - Len(slot[0].input.bufs)]
  BY <1>3, SlotZero, KindsHas, SlotsAssumption DEF Count, NpuTypeOK, SlotType, InputType
<1> HIDE DEF d, s
<1>5. heap' \in [Slots -> [Kinds -> Int]]
  BY <1>2, <1>3, CountEffect, KindsHas
<1>6. slot' \in [Slots -> SlotType] /\ slot'[0] = s
  BY <1>1, <1>3, SetEffect
<1> QED BY <1>3, <1>4, <1>5, <1>6 DEF NpuTypeOK, s
=============================================================================
