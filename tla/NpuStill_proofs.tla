-------------------------- MODULE NpuStill_proofs --------------------------
(* Proofs about the still-picture detector, for every number of pictures,  *)
(* outputs, runs and failed calls.                                         *)
EXTENDS NpuStill, NpuModel_proofs

-----------------------------------------------------------------------------
(* The inductive invariant: what the variables hold at each place of the   *)
(* ladder.                                                                 *)
Between   == {"idle", "crashed"}
Before    == {"start", "decode", "open", "write", "init"}
Loaded    == {"output", "alloc", "fill", "databuf", "exec", "result", "undo_input",
              "free_databuf", "free_buf", "free_output", "free_input"}
Filled    == {"databuf", "exec", "result", "free_databuf", "free_buf"}
WithOut   == {"alloc", "fill", "databuf", "exec", "result", "free_databuf", "free_buf", "free_output"}
NoInputAt == {"load", "desc", "input", "free_desc", "unload", "finalize"}
Places    == Between \cup Before \cup Loaded \cup NoInputAt

Errors   == {"none", "init", "load", "desc", "input", "output", "alloc", "fill", "databuf", "exec"}
Contents == [size : {"absent", "empty", "part", "whole"}, of : Pictures \cup {NoPicture}]

StillTypeOK ==
    /\ NpuTypeOK
    /\ pc \in Places /\ fp \in BOOLEAN /\ stray \in BOOLEAN
    /\ err \in Errors
    /\ pic \in Pictures \cup {NoPicture} /\ bgr \in Pictures \cup {NoPicture}
    /\ acl \in {"down", "up", "final"}
    /\ buf \in Contents /\ yuv \in Contents

\* Where the ladder is, AscendCL is up; the flag says how it was left.
AclInv ==
    /\ pc \in Before => acl = "down"
    /\ pc \notin Between \cup Before => acl = "up"

\* All that the entry points to is there once, and nothing else but the
\* input buffer: it lives as long as it is filled, and outlives the run only
\* where it could not be.
OwnInv == \A k \in Kinds \ {"inbuf"} : heap[0][k] = Owned(slot[0])[k]
BufferInv ==
    /\ heap[0]["inbuf"] = IF pc \in {"fill"} \cup Filled \/ err = "fill" THEN 1
                          ELSE IF pc \in Between THEN heap[0]["inbuf"] ELSE 0
    /\ heap[0]["inbuf"] \in {0, 1}
    /\ pc \in Filled => buf.size \in {"part", "whole"} /\ err # "fill"
    /\ pc \in Before => err = "none"
    /\ err = "fill" => pc \in Between \cup {"free_output", "free_input", "free_desc", "unload", "finalize"}

\* What the entry holds at each place.
SlotInv ==
    LET s == slot[0] IN
    /\ pc \in Before \cup {"load"} => s = EmptySlot
    /\ pc \in Loaded \cup {"desc"} => s.mem /\ s.weight /\ s.loaded
    /\ pc \in Loaded => s.desc
    /\ pc = "desc" => ~s.desc
    /\ pc \in {"input", "free_desc"} => (s.mem <=> s.loaded) /\ (s.weight <=> s.loaded)
    /\ pc = "input" => (s.desc <=> s.loaded)
    /\ pc \in {"unload", "finalize"} => ~s.desc
    /\ pc = "unload" => s.loaded \/ err = "load" \/ (~s.mem /\ ~s.weight)
    /\ pc = "finalize" => err = "load" \/ (~s.mem /\ ~s.weight)
    /\ pc \in NoInputAt => s.input = NoInput
    /\ pc \in {"output", "alloc", "fill", "databuf", "undo_input"} => s.input = EmptyInput
    /\ pc \in {"exec", "result", "free_databuf"} => s.input = InputOn("dev", FALSE)
    /\ pc = "free_buf" => s.input \in {EmptyInput, InputOn("dev", TRUE)}
    /\ pc \in {"free_output", "free_input"} => s.input \in {EmptyInput, InputOn("dev", TRUE)}
    /\ pc \in WithOut => s.output = OutputOf(NumOutputs)
    /\ pc \in {"desc", "input", "output", "free_input"} => s.output = NoOutput
    /\ pc \in NoInputAt \cup {"undo_input"} => s.output = NoOutput \/ err = "output"

\* When the picture file was opened, it holds nothing but this picture, and
\* so does the buffer.
PictureInv ==
    /\ pc \in {"start", "decode"} => ~fp
    /\ pc \in {"open", "write"} => bgr = pic
    /\ fp => bgr = pic
    /\ fp /\ yuv.size \in {"part", "whole"} => yuv.of = pic
    /\ pc = "write" => fp
    /\ pc \in Filled => (fp => buf.of = pic)

\* What the end of a run leaves.
EndInv == acl = "final" => pc \in Between /\ \A k \in Kinds : heap[0][k] # 0 => LeftBy(k)

StillInv == StillTypeOK /\ AclInv /\ OwnInv /\ BufferInv /\ SlotInv /\ PictureInv /\ EndInv

-----------------------------------------------------------------------------
(* The entry and what is allocated, kind by kind.                          *)
Pend(in) == IF in.dangling THEN 0 ELSE Len(in.bufs)
Owns(s, h) ==
    /\ h["mem"] = Bit(s.mem) /\ h["weight"] = Bit(s.weight) /\ h["desc"] = Bit(s.desc)
    /\ h["dataset"] = Bit(s.input.ptr) + Bit(s.output.ptr)
    /\ h["databuf"] = s.output.n + Pend(s.input)
    /\ h["outbuf"] = s.output.n

\* What a slot owns of each kind.
LEMMA OwnedIs ==
  ASSUME NEW s
  PROVE  /\ Owned(s)["mem"] = Bit(s.mem) /\ Owned(s)["weight"] = Bit(s.weight)
         /\ Owned(s)["desc"] = Bit(s.desc)
         /\ Owned(s)["dataset"] = Bit(s.input.ptr) + Bit(s.output.ptr)
         /\ Owned(s)["databuf"] = s.output.n + Pend(s.input)
         /\ Owned(s)["outbuf"] = s.output.n /\ Owned(s)["inbuf"] = 0
BY KindsHas DEF Owned, Pend

\* The balance, without a quantifier.
LEMMA OwnsIs == OwnInv <=> Owns(slot[0], heap[0])
<1>1. Kinds \ {"inbuf"} = {"mem", "weight", "desc", "dataset", "databuf", "outbuf"}
  BY DEF Kinds
<1> QED BY <1>1, OwnedIs DEF OwnInv, Owns

\* The same in the next state.
LEMMA OwnsNext == OwnInv' <=> Owns(slot'[0], heap'[0])
<1>1. Kinds \ {"inbuf"} = {"mem", "weight", "desc", "dataset", "databuf", "outbuf"}
  BY DEF Kinds
<1> QED BY <1>1, OwnedIs DEF OwnInv, Owns

\* An empty entry owns nothing.
LEMMA EmptyOwns ==
  ASSUME NEW h, Owns(EmptySlot, h)
  PROVE  \A k \in Kinds \ {"inbuf"} : h[k] = 0
BY DEF Owns, Pend, EmptySlot, NoInput, NoOutput, Bit, Kinds

-----------------------------------------------------------------------------
(* Steps inside the ladder that only touch the table.                      *)
Ladders == Loaded \cup NoInputAt

\* What has to do with the files and the pictures stays.
LEMMA KeptStep ==
  ASSUME StillInv, NpuTypeOK', pc \in Ladders, pc' \in Ladders, err' \in Errors,
         UNCHANGED <<pic, bgr, fp, acl, buf, stray, yuv>>, pc' \in Filled => pc \in Filled
  PROVE  StillTypeOK' /\ AclInv' /\ PictureInv' /\ EndInv'
<1> USE DEF StillInv, Ladders, Loaded, NoInputAt, Between, Before, Filled
<1>1. StillTypeOK'
  BY DEF StillTypeOK, Places
<1>2. AclInv' /\ EndInv'
  BY DEF AclInv, EndInv
<1>3. PictureInv'
  BY DEF PictureInv
<1> QED BY <1>1, <1>2, <1>3

\* load_model: the model, its half, or (with TD_NULL) nothing at all.
LEMMA LoadStep == ASSUME StillInv, LoadModel PROVE StillInv'
<1> USE DEF Ladders, Loaded, NoInputAt, Between, Before, Filled, WithOut
<1>1. /\ pc = "load" /\ pc' \in {"desc", "unload", "input"}
      /\ UNCHANGED <<pic, bgr, fp, acl, buf, stray, yuv>>
      /\ IF pc' = "desc" THEN err' = err ELSE err' = "load"
  BY DEF LoadModel, Rung, Goto, files
<1>2. /\ slot[0] = EmptySlot /\ err # "fill" /\ heap[0]["inbuf"] = 0 /\ NpuTypeOK /\ err \in Errors
      /\ slot[0] \in SlotType /\ heap[0] \in [Kinds -> Int] /\ Owns(slot[0], heap[0])
      /\ ~slot[0].mem /\ ~slot[0].weight /\ ~slot[0].loaded /\ ~slot[0].desc
      /\ slot[0].input = NoInput /\ slot[0].output = NoOutput
  BY <1>1, SlotZero, OwnsIs DEF StillInv, SlotInv, BufferInv, StillTypeOK, EmptySlot
<1>3. CASE pc' = "input"
  <2>1. NpuTypeOK' /\ UNCHANGED <<slot, heap>>
    BY <1>1, <1>2, <1>3, FaultEffect DEF LoadModel, Rung, Goto, NpuTypeOK
  <2>2. OwnInv' /\ BufferInv'
    BY <1>1, <1>2, <1>3, <2>1, OwnsNext DEF BufferInv
  <2>3. SlotInv'
    BY <1>1, <1>2, <1>3, <2>1 DEF SlotInv, EmptySlot
  <2> QED BY <1>1, <1>3, <2>1, <2>2, <2>3, KeptStep DEF StillInv, Errors
<1>4. ASSUME NEW ok \in BOOLEAN, LoadModelWithMem(0, ok), ok <=> pc' = "desc", pc' # "input"
      PROVE  StillInv'
  <2>1. NpuTypeOK'
    BY <1>2, <1>4, LoadEffect
  <2>2. \/ slot'[0] = slot[0] /\ heap'[0] = heap[0] /\ ~ok
        \/ /\ slot'[0] = [slot[0] EXCEPT !.mem = TRUE] /\ ~ok
           /\ heap'[0] = [heap[0] EXCEPT !["mem"] = @ + 1]
        \/ /\ slot'[0] = [slot[0] EXCEPT !.mem = TRUE, !.weight = TRUE, !.loaded = ok]
           /\ heap'[0] = [heap[0] EXCEPT !["mem"] = @ + 1, !["weight"] = @ + 1]
    BY <1>2, <1>4, LoadEffect DEF npuVars
  <2>3. OwnInv'
    <3>1. /\ slot'[0].input = slot[0].input /\ slot'[0].output = slot[0].output
          /\ slot'[0].desc = slot[0].desc
          /\ \A k \in Kinds \ {"mem", "weight"} : heap'[0][k] = heap[0][k]
      BY <1>2, <2>2, KindsHas DEF SlotType
    <3>2. heap'[0]["mem"] = Bit(slot'[0].mem) /\ heap'[0]["weight"] = Bit(slot'[0].weight)
      <4>1. heap[0]["mem"] = 0 /\ heap[0]["weight"] = 0
        BY <1>2 DEF Owns, Bit
      <4>2. \/ ~slot'[0].mem /\ ~slot'[0].weight /\ heap'[0]["mem"] = 0 /\ heap'[0]["weight"] = 0
            \/ slot'[0].mem /\ ~slot'[0].weight /\ heap'[0]["mem"] = 1 /\ heap'[0]["weight"] = 0
            \/ slot'[0].mem /\ slot'[0].weight /\ heap'[0]["mem"] = 1 /\ heap'[0]["weight"] = 1
        <5>1. CASE slot'[0] = slot[0] /\ heap'[0] = heap[0]
          BY <1>2, <4>1, <5>1
        <5>2. CASE /\ slot'[0] = [slot[0] EXCEPT !.mem = TRUE]
                   /\ heap'[0] = [heap[0] EXCEPT !["mem"] = @ + 1]
          BY <1>2, <4>1, <5>2, KindsHas DEF SlotType
        <5>3. CASE /\ slot'[0] = [slot[0] EXCEPT !.mem = TRUE, !.weight = TRUE, !.loaded = ok]
                   /\ heap'[0] = [heap[0] EXCEPT !["mem"] = @ + 1, !["weight"] = @ + 1]
          BY <1>2, <4>1, <5>3, KindsHas DEF SlotType
        <5> QED BY <2>2, <5>1, <5>2, <5>3
      <4> QED BY <4>2 DEF Bit
    <3>3. Owns(slot'[0], heap'[0])
      BY <1>2, <3>1, <3>2, KindsHas DEF Owns
    <3> QED BY <3>3, OwnsNext
  <2>4. BufferInv'
    BY <1>1, <1>2, <1>4, <2>2, KindsHas DEF BufferInv
  <2>5. SlotInv'
    <3>1. /\ slot'[0].input = NoInput /\ slot'[0].output = NoOutput /\ ~slot'[0].desc
          /\ ok => slot'[0].mem /\ slot'[0].weight /\ slot'[0].loaded
      BY <1>2, <2>2 DEF SlotType
    <3>2. pc' \in {"desc", "unload"} /\ (pc' = "unload" => err' = "load") /\ (pc' = "desc" => ok)
      BY <1>1, <1>4
    <3> QED BY <3>1, <3>2 DEF SlotInv
  <2> QED BY <1>1, <1>2, <1>4, <2>1, <2>3, <2>4, <2>5, KeptStep DEF StillInv, Errors
<1> QED BY <1>1, <1>3, <1>4 DEF LoadModel, Rung, Goto

\* What a step that changes only the description leaves of the balance.
LEMMA DescOwns ==
  ASSUME NEW s, NEW h, Owns(s, h), NEW t, NEW g,
         t.mem = s.mem, t.weight = s.weight, t.input = s.input, t.output = s.output,
         \A k \in Kinds \ {"desc"} : g[k] = h[k], g["desc"] = Bit(t.desc)
  PROVE  Owns(t, g)
BY KindsHas DEF Owns

\* create_desc: a description, or a way down that may still have one to free.
LEMMA DescStep == ASSUME StillInv, MakeDesc PROVE StillInv'
<1> USE DEF Ladders, Loaded, NoInputAt, Between, Before, Filled, WithOut
<1>1. PICK ok \in BOOLEAN :
         /\ pc = "desc" /\ pc' = (IF ok THEN "input" ELSE "free_desc")
         /\ err' = (IF ok THEN err ELSE "desc")
         /\ CreateDesc(0, ok) /\ UNCHANGED <<pic, bgr, fp, acl, buf, stray, yuv>>
  BY DEF MakeDesc, Rung, Goto, files
<1>2. /\ NpuTypeOK /\ err \in Errors /\ err # "fill" /\ heap[0]["inbuf"] = 0
      /\ slot[0] \in SlotType /\ heap[0] \in [Kinds -> Int] /\ Owns(slot[0], heap[0])
      /\ slot[0].mem /\ slot[0].weight /\ slot[0].loaded /\ ~slot[0].desc
      /\ slot[0].input = NoInput /\ slot[0].output = NoOutput
  BY <1>1, SlotZero, OwnsIs DEF StillInv, SlotInv, BufferInv, StillTypeOK
<1>3. /\ NpuTypeOK'
      /\ \/ ~ok /\ slot'[0] = [slot[0] EXCEPT !.desc = FALSE] /\ heap'[0] = heap[0]
         \/ /\ slot'[0] = [slot[0] EXCEPT !.desc = TRUE]
            /\ heap'[0] = [heap[0] EXCEPT !["desc"] = @ + 1]
  BY <1>1, <1>2, CreateDescEffect
<1>4. OwnInv' /\ heap'[0]["inbuf"] = 0
  <2>1. CASE ~ok /\ slot'[0] = [slot[0] EXCEPT !.desc = FALSE] /\ heap'[0] = heap[0]
    <3>1. slot'[0] = slot[0]
      BY <1>2, <2>1 DEF SlotType
    <3> QED BY <1>2, <2>1, <3>1, OwnsNext
  <2>2. CASE /\ slot'[0] = [slot[0] EXCEPT !.desc = TRUE]
             /\ heap'[0] = [heap[0] EXCEPT !["desc"] = @ + 1]
    <3>0. slot'[0].desc /\ heap'[0]["desc"] = heap[0]["desc"] + 1
      BY <1>2, <2>2, KindsHas DEF SlotType
    <3>1. /\ \A k \in Kinds \ {"desc"} : heap'[0][k] = heap[0][k]
          /\ slot'[0].mem = slot[0].mem /\ slot'[0].weight = slot[0].weight
          /\ slot'[0].input = slot[0].input /\ slot'[0].output = slot[0].output
      BY <1>2, <2>2, KindsHas DEF SlotType
    <3>2. heap'[0]["desc"] = Bit(slot'[0].desc)
      BY <1>2, <3>0 DEF Owns, Bit
    <3>3. Owns(slot[0], heap[0])
      BY <1>2
    <3>4. Owns(slot'[0], heap'[0])
      BY <3>1, <3>2, <3>3, DescOwns
    <3> QED BY <1>2, <3>1, <3>4, OwnsNext, KindsHas
  <2> QED BY <1>3, <2>1, <2>2
<1>5. BufferInv'
  BY <1>1, <1>2, <1>4 DEF BufferInv
<1>6. SlotInv'
  <2>1. /\ slot'[0].mem /\ slot'[0].weight /\ slot'[0].loaded /\ (ok => slot'[0].desc)
        /\ slot'[0].input = NoInput /\ slot'[0].output = NoOutput
    BY <1>2, <1>3 DEF SlotType
  <2> QED BY <1>1, <2>1 DEF SlotInv
<1> QED BY <1>1, <1>2, <1>3, <1>4, <1>5, <1>6, KeptStep DEF StillInv, Errors

\* destroy_desc: no description is left.
LEMMA FreeDescStep == ASSUME StillInv, FreeDesc PROVE StillInv'
<1> USE DEF Ladders, Loaded, NoInputAt, Between, Before, Filled, WithOut
<1>1. /\ pc = "free_desc" /\ pc' = "unload" /\ DestroyDesc(0)
      /\ UNCHANGED <<pic, bgr, fp, acl, err, buf, stray, yuv>>
  BY DEF FreeDesc, Down, Goto, files
<1>2. /\ NpuTypeOK /\ err \in Errors
      /\ slot[0] \in SlotType /\ heap[0] \in [Kinds -> Int] /\ Owns(slot[0], heap[0])
      /\ (slot[0].mem <=> slot[0].loaded) /\ (slot[0].weight <=> slot[0].loaded)
      /\ slot[0].input = NoInput /\ (slot[0].output = NoOutput \/ err = "output")
  BY <1>1, SlotZero, OwnsIs DEF StillInv, SlotInv, StillTypeOK
<1>3. /\ NpuTypeOK' /\ slot'[0] = [slot[0] EXCEPT !.desc = FALSE]
      /\ heap'[0] = [heap[0] EXCEPT !["desc"] = @ - Bit(slot[0].desc)]
  BY <1>1, <1>2, DestroyDescEffect
<1>4. OwnInv' /\ heap'[0]["inbuf"] = heap[0]["inbuf"]
  <2>1. /\ ~slot'[0].desc /\ heap'[0]["desc"] = heap[0]["desc"] - Bit(slot[0].desc)
        /\ \A k \in Kinds \ {"desc"} : heap'[0][k] = heap[0][k]
        /\ slot'[0].mem = slot[0].mem /\ slot'[0].weight = slot[0].weight
        /\ slot'[0].input = slot[0].input /\ slot'[0].output = slot[0].output
    BY <1>2, <1>3, KindsHas DEF SlotType
  <2>2. heap'[0]["desc"] = Bit(slot'[0].desc)
    BY <1>2, <2>1 DEF Owns, Bit
  <2>3. Owns(slot'[0], heap'[0])
    BY <1>2, <2>1, <2>2, DescOwns
  <2> QED BY <2>1, <2>3, OwnsNext, KindsHas
<1>5. BufferInv'
  BY <1>1, <1>4 DEF StillInv, BufferInv
<1>6. SlotInv'
  <2>1. /\ ~slot'[0].desc /\ slot'[0].input = NoInput /\ slot'[0].output = slot[0].output
        /\ slot'[0].mem = slot[0].mem /\ slot'[0].weight = slot[0].weight
        /\ slot'[0].loaded = slot[0].loaded
    BY <1>2, <1>3 DEF SlotType
  <2> QED BY <1>1, <1>2, <2>1 DEF SlotInv
<1> QED BY <1>1, <1>2, <1>3, <1>4, <1>5, <1>6, KeptStep DEF StillInv

\* unload: the model and its two memories, unless it was never whole.
LEMMA UnloadStep == ASSUME StillInv, Unload PROVE StillInv'
<1> USE DEF Ladders, Loaded, NoInputAt, Between, Before, Filled, WithOut
<1>1. /\ pc = "unload" /\ pc' = "finalize" /\ UnloadModel(0)
      /\ UNCHANGED <<pic, bgr, fp, acl, err, buf, stray, yuv>>
  BY DEF Unload, Down, Goto, files
<1>2. /\ NpuTypeOK /\ err \in Errors
      /\ slot[0] \in SlotType /\ heap[0] \in [Kinds -> Int] /\ Owns(slot[0], heap[0])
      /\ ~slot[0].desc /\ (slot[0].loaded \/ err = "load" \/ (~slot[0].mem /\ ~slot[0].weight))
      /\ slot[0].input = NoInput /\ (slot[0].output = NoOutput \/ err = "output")
  BY <1>1, SlotZero, OwnsIs DEF StillInv, SlotInv, StillTypeOK
<1>3. /\ NpuTypeOK'
      /\ \/ ~slot[0].loaded /\ slot'[0] = slot[0] /\ heap'[0] = heap[0]
         \/ /\ slot'[0] = [slot[0] EXCEPT !.mem = FALSE, !.weight = FALSE,
                                          !.desc = FALSE, !.loaded = FALSE]
            /\ heap'[0] = [heap[0] EXCEPT !["mem"] = @ - Bit(slot[0].mem),
                                          !["weight"] = @ - Bit(slot[0].weight),
                                          !["desc"] = @ - Bit(slot[0].desc)]
  BY <1>1, <1>2, UnloadEffect
<1>4. CASE ~slot[0].loaded /\ slot'[0] = slot[0] /\ heap'[0] = heap[0]
  <2>1. OwnInv' /\ BufferInv'
    BY <1>1, <1>2, <1>4, OwnsNext DEF StillInv, BufferInv
  <2>2. SlotInv'
    BY <1>1, <1>2, <1>4 DEF SlotInv
  <2> QED BY <1>1, <1>2, <1>3, <2>1, <2>2, KeptStep DEF StillInv
<1>5. CASE /\ slot'[0] = [slot[0] EXCEPT !.mem = FALSE, !.weight = FALSE,
                                         !.desc = FALSE, !.loaded = FALSE]
           /\ heap'[0] = [heap[0] EXCEPT !["mem"] = @ - Bit(slot[0].mem),
                                         !["weight"] = @ - Bit(slot[0].weight),
                                         !["desc"] = @ - Bit(slot[0].desc)]
  <2>1. /\ ~slot'[0].mem /\ ~slot'[0].weight /\ ~slot'[0].desc
        /\ slot'[0].input = slot[0].input /\ slot'[0].output = slot[0].output
    BY <1>2, <1>5 DEF SlotType
  <2>2. /\ \A k \in Kinds \ {"mem", "weight", "desc"} : heap'[0][k] = heap[0][k]
        /\ heap'[0]["mem"] = heap[0]["mem"] - Bit(slot[0].mem)
        /\ heap'[0]["weight"] = heap[0]["weight"] - Bit(slot[0].weight)
        /\ heap'[0]["desc"] = heap[0]["desc"] - Bit(slot[0].desc)
    BY <1>2, <1>5, KindsHas
  <2>3. /\ heap'[0]["mem"] = Bit(slot'[0].mem) /\ heap'[0]["weight"] = Bit(slot'[0].weight)
        /\ heap'[0]["desc"] = Bit(slot'[0].desc)
    BY <1>2, <2>1, <2>2 DEF Owns, Bit
  <2>4. Owns(slot'[0], heap'[0])
    BY <1>2, <2>1, <2>2, <2>3, KindsHas DEF Owns
  <2>5. OwnInv' /\ BufferInv'
    BY <1>1, <2>2, <2>4, OwnsNext, KindsHas DEF StillInv, BufferInv
  <2>6. SlotInv'
    BY <1>1, <1>2, <2>1 DEF SlotInv
  <2> QED BY <1>1, <1>2, <1>3, <2>5, <2>6, KeptStep DEF StillInv
<1> QED BY <1>3, <1>4, <1>5

-----------------------------------------------------------------------------
(* The data sets.                                                          *)
\* What the values of an input own.
LEMMA InputShares ==
  /\ Bit(NoInput.ptr) = 0 /\ Pend(NoInput) = 0
  /\ Bit(EmptyInput.ptr) = 1 /\ Pend(EmptyInput) = 0
  /\ \A b \in BOOLEAN : Bit(InputOn("dev", b).ptr) = 1
  /\ Pend(InputOn("dev", FALSE)) = 1 /\ Pend(InputOn("dev", TRUE)) = 0
<1>1. Len(<<>>) = 0 /\ Len(<<"dev">>) = 1
  OBVIOUS
<1> QED BY <1>1 DEF Bit, Pend, NoInput, EmptyInput, InputOn

\* What the values of an output own.
LEMMA OutputShares ==
  /\ Bit(NoOutput.ptr) = 0 /\ NoOutput.n = 0
  /\ \A n : Bit(OutputOf(n).ptr) = 1 /\ OutputOf(n).n = n
BY DEF Bit, NoOutput, OutputOf

\* What a step that changes the data sets leaves of the balance.
LEMMA DataOwns ==
  ASSUME NEW s, NEW h, Owns(s, h), NEW t, NEW g,
         t.mem = s.mem, t.weight = s.weight, t.desc = s.desc,
         \A k \in {"mem", "weight", "desc"} : g[k] = h[k],
         g["dataset"] = Bit(t.input.ptr) + Bit(t.output.ptr),
         g["databuf"] = t.output.n + Pend(t.input), g["outbuf"] = t.output.n
  PROVE  Owns(t, g)
BY DEF Owns

\* A ladder place with a whole model: what it says of the entry.
LEMMA WholeIs ==
  ASSUME StillInv, pc \in Loaded
  PROVE  /\ NpuTypeOK /\ err \in Errors
         /\ slot[0] \in SlotType /\ heap[0] \in [Kinds -> Int] /\ Owns(slot[0], heap[0])
         /\ slot[0].mem /\ slot[0].weight /\ slot[0].loaded /\ slot[0].desc
BY SlotZero, OwnsIs DEF StillInv, SlotInv, StillTypeOK

\* create_input_dataset: an empty input, or the way down.
LEMMA InputStep == ASSUME StillInv, PrepareInput PROVE StillInv'
<1> USE DEF Ladders, Loaded, NoInputAt, Between, Before, Filled, WithOut
<1>1. PICK ok \in BOOLEAN :
         /\ pc = "input" /\ pc' = (IF ok THEN "output" ELSE "free_desc")
         /\ err' = (IF ok THEN err ELSE "input")
         /\ CreateInputDataset(0, ok) /\ UNCHANGED <<pic, bgr, fp, acl, buf, stray, yuv>>
  BY DEF PrepareInput, Rung, Goto, files
<1>2. /\ NpuTypeOK /\ err \in Errors /\ err # "fill" /\ heap[0]["inbuf"] = 0
      /\ slot[0] \in SlotType /\ heap[0] \in [Kinds -> Int]
      /\ (slot[0].mem <=> slot[0].loaded) /\ (slot[0].weight <=> slot[0].loaded)
      /\ (slot[0].desc <=> slot[0].loaded)
      /\ slot[0].input = NoInput /\ slot[0].output = NoOutput
  BY <1>1, SlotZero DEF StillInv, SlotInv, BufferInv, StillTypeOK
<1>3. Owns(slot[0], heap[0])
  BY OwnsIs DEF StillInv
<1>4. /\ NpuTypeOK'
      /\ \/ ~ok /\ slot'[0] = slot[0] /\ heap'[0] = heap[0]
         \/ ~ok /\ slot'[0] = [slot[0] EXCEPT !.input = NoInput] /\ heap'[0] = heap[0]
         \/ /\ ok /\ slot[0].desc /\ slot'[0] = [slot[0] EXCEPT !.input = EmptyInput]
            /\ heap'[0] = [heap[0] EXCEPT !["dataset"] = @ + 1]
  BY <1>1, <1>2, CreateInputDatasetEffect DEF npuVars
<1>5. CASE ~ok /\ slot'[0] \in {slot[0], [slot[0] EXCEPT !.input = NoInput]} /\ heap'[0] = heap[0]
  <2>1. slot'[0] = slot[0]
    BY <1>2, <1>5 DEF SlotType
  <2>2. OwnInv' /\ BufferInv'
    BY <1>1, <1>2, <1>3, <1>5, <2>1, OwnsNext DEF BufferInv
  <2>3. SlotInv'
    BY <1>1, <1>2, <1>5, <2>1 DEF SlotInv
  <2> QED BY <1>1, <1>2, <1>4, <1>5, <2>2, <2>3, KeptStep DEF StillInv, Errors
<1>6. CASE /\ ok /\ slot[0].desc /\ slot'[0] = [slot[0] EXCEPT !.input = EmptyInput]
           /\ heap'[0] = [heap[0] EXCEPT !["dataset"] = @ + 1]
  <2>1. /\ slot'[0].mem = slot[0].mem /\ slot'[0].weight = slot[0].weight
        /\ slot'[0].desc = slot[0].desc /\ slot'[0].loaded = slot[0].loaded
        /\ slot'[0].output = slot[0].output /\ slot'[0].input = EmptyInput
    BY <1>2, <1>6, EmptyTypes DEF SlotType
  <2>2. /\ heap'[0]["dataset"] = heap[0]["dataset"] + 1
        /\ \A k \in Kinds \ {"dataset"} : heap'[0][k] = heap[0][k]
    BY <1>2, <1>6, KindsHas
  <2>3. heap[0]["dataset"] = 0 /\ heap[0]["databuf"] = 0 /\ heap[0]["outbuf"] = 0
    BY <1>2, <1>3, InputShares, OutputShares DEF Owns
  <2>4. Owns(slot'[0], heap'[0])
    BY <1>2, <1>3, <2>1, <2>2, <2>3, DataOwns, InputShares, OutputShares, KindsHas
  <2>5. OwnInv' /\ BufferInv'
    BY <1>1, <1>2, <1>6, <2>2, <2>4, OwnsNext, KindsHas DEF BufferInv
  <2>6. SlotInv'
    BY <1>1, <1>2, <1>6, <2>1 DEF SlotInv
  <2> QED BY <1>1, <1>2, <1>4, <1>6, <2>5, <2>6, KeptStep DEF StillInv
<1> QED BY <1>4, <1>5, <1>6

\* destroy_input_dataset: no input, whatever was on it.
LEMMA DropInputStep ==
  ASSUME StillInv, UndoInput \/ FreeInput
  PROVE  StillInv'
<1> USE DEF Ladders, Loaded, NoInputAt, Between, Before, Filled, WithOut
<1>1. /\ pc \in {"undo_input", "free_input"} /\ pc' = "free_desc" /\ DestroyInputDataset(0)
      /\ UNCHANGED <<pic, bgr, fp, acl, err, buf, stray, yuv>>
  BY DEF UndoInput, FreeInput, Down, Goto, files
<1>2. /\ NpuTypeOK /\ err \in Errors /\ slot[0] \in SlotType /\ heap[0] \in [Kinds -> Int]
      /\ slot[0].mem /\ slot[0].weight /\ slot[0].loaded /\ slot[0].desc
  BY <1>1, WholeIs
<1>3. /\ slot[0].input \in {EmptyInput, InputOn("dev", TRUE)}
      /\ slot[0].output = NoOutput \/ err = "output"
  BY <1>1 DEF StillInv, SlotInv
<1>4. Owns(slot[0], heap[0])
  BY OwnsIs DEF StillInv
<1>5. /\ NpuTypeOK' /\ slot'[0] = [slot[0] EXCEPT !.input = NoInput]
      /\ heap'[0] = [heap[0] EXCEPT !["dataset"] = @ - Bit(slot[0].input.ptr)]
  BY <1>1, <1>2, DestroyInputDatasetEffect
<1>6. /\ slot'[0].mem = slot[0].mem /\ slot'[0].weight = slot[0].weight
      /\ slot'[0].desc = slot[0].desc /\ slot'[0].loaded = slot[0].loaded
      /\ slot'[0].output = slot[0].output /\ slot'[0].input = NoInput
  BY <1>2, <1>5, EmptyTypes DEF SlotType
<1>7. /\ heap'[0]["dataset"] = heap[0]["dataset"] - Bit(slot[0].input.ptr)
      /\ \A k \in Kinds \ {"dataset"} : heap'[0][k] = heap[0][k]
  BY <1>2, <1>5, KindsHas
<1>8. Bit(slot[0].input.ptr) = 1 /\ Pend(slot[0].input) = 0
  BY <1>3, InputShares
<1>9. Owns(slot'[0], heap'[0])
  <2>1. heap[0]["dataset"] = 1 + Bit(slot[0].output.ptr) /\ heap[0]["databuf"] = slot[0].output.n + 0
        /\ heap[0]["outbuf"] = slot[0].output.n
    BY <1>4, <1>8 DEF Owns
  <2>2. heap'[0]["dataset"] = Bit(slot'[0].input.ptr) + Bit(slot'[0].output.ptr)
    BY <1>6, <1>7, <1>8, <2>1, InputShares DEF Bit
  <2>3. heap'[0]["databuf"] = slot'[0].output.n + Pend(slot'[0].input) /\ heap'[0]["outbuf"] = slot'[0].output.n
    BY <1>6, <1>7, <2>1, InputShares, KindsHas
  <2> QED BY <1>4, <1>6, <1>7, <2>2, <2>3, DataOwns, KindsHas
<1>10. OwnInv' /\ BufferInv'
  BY <1>1, <1>7, <1>9, OwnsNext, KindsHas DEF StillInv, BufferInv
<1>11. SlotInv'
  BY <1>1, <1>2, <1>3, <1>6 DEF SlotInv
<1> QED BY <1>1, <1>2, <1>5, <1>10, <1>11, KeptStep DEF StillInv

\* create_output: all the outputs, some of them, or none.
LEMMA OutputStep == ASSUME StillInv, PrepareOutput PROVE StillInv'
<1> USE DEF Ladders, Loaded, NoInputAt, Between, Before, Filled, WithOut
<1>1. PICK ok \in BOOLEAN :
         /\ pc = "output" /\ pc' = (IF ok THEN "alloc" ELSE "undo_input")
         /\ err' = (IF ok THEN err ELSE "output")
         /\ CreateOutput(0, ok) /\ UNCHANGED <<pic, bgr, fp, acl, buf, stray, yuv>>
  BY DEF PrepareOutput, Rung, Goto, files
<1>2. /\ NpuTypeOK /\ err \in Errors /\ slot[0] \in SlotType /\ heap[0] \in [Kinds -> Int]
      /\ slot[0].mem /\ slot[0].weight /\ slot[0].loaded /\ slot[0].desc
  BY <1>1, WholeIs
<1>3. /\ slot[0].input = EmptyInput /\ slot[0].output = NoOutput /\ err # "fill"
      /\ heap[0]["inbuf"] = 0
  BY <1>1 DEF StillInv, SlotInv, BufferInv
<1>4. Owns(slot[0], heap[0])
  BY OwnsIs DEF StillInv
<1>5. /\ NpuTypeOK'
      /\ \/ ~ok /\ slot'[0] = [slot[0] EXCEPT !.output = NoOutput] /\ heap'[0] = heap[0]
         \/ \E n \in 0..NumOutputs :
              /\ ok <=> n = NumOutputs
              /\ slot'[0] = [slot[0] EXCEPT !.output = OutputOf(n)]
              /\ heap'[0] = [heap[0] EXCEPT !["dataset"] = @ + 1, !["databuf"] = @ + n,
                                            !["outbuf"] = @ + n]
  BY <1>1, <1>2, CreateOutputEffect
<1>6. CASE ~ok /\ slot'[0] = [slot[0] EXCEPT !.output = NoOutput] /\ heap'[0] = heap[0]
  <2>1. slot'[0] = slot[0]
    BY <1>2, <1>3, <1>6 DEF SlotType
  <2>2. OwnInv' /\ BufferInv'
    BY <1>1, <1>3, <1>4, <1>6, <2>1, OwnsNext DEF BufferInv
  <2>3. SlotInv'
    BY <1>1, <1>2, <1>3, <1>6, <2>1 DEF SlotInv
  <2> QED BY <1>1, <1>2, <1>5, <1>6, <2>2, <2>3, KeptStep DEF StillInv, Errors
<1>7. ASSUME NEW n \in 0..NumOutputs, ok <=> n = NumOutputs,
             slot'[0] = [slot[0] EXCEPT !.output = OutputOf(n)],
             heap'[0] = [heap[0] EXCEPT !["dataset"] = @ + 1, !["databuf"] = @ + n,
                                        !["outbuf"] = @ + n]
      PROVE  StillInv'
  <2>1. /\ slot'[0].mem = slot[0].mem /\ slot'[0].weight = slot[0].weight
        /\ slot'[0].desc = slot[0].desc /\ slot'[0].loaded = slot[0].loaded
        /\ slot'[0].input = slot[0].input /\ slot'[0].output = OutputOf(n)
    BY <1>2, <1>7 DEF SlotType
  <2>2. n \in Int
    BY NumOutputsAssumption
  <2>3. /\ heap'[0]["dataset"] = heap[0]["dataset"] + 1
        /\ heap'[0]["databuf"] = heap[0]["databuf"] + n
        /\ heap'[0]["outbuf"] = heap[0]["outbuf"] + n
        /\ \A k \in {"mem", "weight", "desc", "inbuf"} : heap'[0][k] = heap[0][k]
    BY <1>2, <1>7, <2>2, KindsHas
  <2>4. heap[0]["dataset"] = 1 /\ heap[0]["databuf"] = 0 /\ heap[0]["outbuf"] = 0
    BY <1>3, <1>4, InputShares, OutputShares DEF Owns
  <2>5. /\ heap'[0]["dataset"] = Bit(slot'[0].input.ptr) + Bit(slot'[0].output.ptr)
        /\ heap'[0]["databuf"] = slot'[0].output.n + Pend(slot'[0].input)
        /\ heap'[0]["outbuf"] = slot'[0].output.n
    BY <1>3, <2>1, <2>2, <2>3, <2>4, InputShares, OutputShares
  <2>6. Owns(slot'[0], heap'[0])
    BY <1>4, <2>1, <2>3, <2>5, DataOwns
  <2>7. OwnInv' /\ BufferInv'
    BY <1>1, <1>3, <2>3, <2>6, OwnsNext DEF BufferInv
  <2>8. SlotInv'
    BY <1>1, <1>2, <1>3, <1>7, <2>1 DEF SlotInv
  <2> QED BY <1>1, <1>2, <1>5, <2>7, <2>8, KeptStep DEF StillInv, Errors
<1> QED BY <1>5, <1>6, <1>7

\* destroy_output: what create_output built, all of it.
LEMMA FreeOutputStep == ASSUME StillInv, FreeOutput PROVE StillInv'
<1> USE DEF Ladders, Loaded, NoInputAt, Between, Before, Filled, WithOut
<1>1. /\ pc = "free_output" /\ pc' = "free_input" /\ DestroyOutput(0)
      /\ UNCHANGED <<pic, bgr, fp, acl, err, buf, stray, yuv>>
  BY DEF FreeOutput, Down, Goto, files
<1>2. /\ NpuTypeOK /\ err \in Errors /\ slot[0] \in SlotType /\ heap[0] \in [Kinds -> Int]
      /\ slot[0].mem /\ slot[0].weight /\ slot[0].loaded /\ slot[0].desc
  BY <1>1, WholeIs
<1>3. /\ slot[0].input \in {EmptyInput, InputOn("dev", TRUE)}
      /\ slot[0].output = OutputOf(NumOutputs)
  BY <1>1 DEF StillInv, SlotInv
<1>4. Owns(slot[0], heap[0])
  BY OwnsIs DEF StillInv
<1>5. slot[0].output.ptr /\ slot[0].output.n = NumOutputs /\ NumOutputs \in Int
  BY <1>3, NumOutputsAssumption DEF OutputOf
<1>6. /\ NpuTypeOK' /\ slot'[0] = [slot[0] EXCEPT !.output = NoOutput]
      /\ heap'[0] = [heap[0] EXCEPT !["dataset"] = @ - 1, !["databuf"] = @ - slot[0].output.n,
                                    !["outbuf"] = @ - slot[0].output.n]
  BY <1>1, <1>2, <1>5, DestroyOutputEffect
<1>7. /\ slot'[0].mem = slot[0].mem /\ slot'[0].weight = slot[0].weight
      /\ slot'[0].desc = slot[0].desc /\ slot'[0].loaded = slot[0].loaded
      /\ slot'[0].input = slot[0].input /\ slot'[0].output = NoOutput
  BY <1>2, <1>6 DEF SlotType
<1>8. /\ heap'[0]["dataset"] = heap[0]["dataset"] - 1
      /\ heap'[0]["databuf"] = heap[0]["databuf"] - NumOutputs
      /\ heap'[0]["outbuf"] = heap[0]["outbuf"] - NumOutputs
      /\ \A k \in {"mem", "weight", "desc", "inbuf"} : heap'[0][k] = heap[0][k]
  BY <1>2, <1>5, <1>6, KindsHas
<1>9. Bit(slot[0].input.ptr) = 1 /\ Pend(slot[0].input) = 0 /\ Bit(slot[0].output.ptr) = 1
  BY <1>3, InputShares, OutputShares
<1>10. heap[0]["dataset"] = 2 /\ heap[0]["databuf"] = NumOutputs /\ heap[0]["outbuf"] = NumOutputs
  <2>1. slot[0].output.n = NumOutputs /\ NumOutputs \in Int
    BY <1>5
  <2>2. /\ heap[0]["dataset"] = Bit(slot[0].input.ptr) + Bit(slot[0].output.ptr)
        /\ heap[0]["databuf"] = slot[0].output.n + Pend(slot[0].input)
        /\ heap[0]["outbuf"] = slot[0].output.n
    BY <1>4 DEF Owns
  <2> QED BY <1>9, <2>1, <2>2
<1>11. /\ heap'[0]["dataset"] = Bit(slot'[0].input.ptr) + Bit(slot'[0].output.ptr)
       /\ heap'[0]["databuf"] = slot'[0].output.n + Pend(slot'[0].input)
       /\ heap'[0]["outbuf"] = slot'[0].output.n
  BY <1>5, <1>7, <1>8, <1>9, <1>10, OutputShares
<1>12. Owns(slot'[0], heap'[0])
  BY <1>4, <1>7, <1>8, <1>11, DataOwns
<1>13. OwnInv' /\ BufferInv'
  BY <1>1, <1>8, <1>12, OwnsNext DEF StillInv, BufferInv
<1>14. SlotInv'
  BY <1>1, <1>2, <1>3, <1>7 DEF SlotInv
<1> QED BY <1>1, <1>2, <1>6, <1>13, <1>14, KeptStep DEF StillInv

-----------------------------------------------------------------------------
(* The input buffer.                                                       *)
\* A step that leaves the slot alone, and all counters but that of the buffer.
LEMMA BufferOwns ==
  ASSUME StillInv, slot'[0] = slot[0], \A k \in Kinds \ {"inbuf"} : heap'[0][k] = heap[0][k]
  PROVE  OwnInv'
BY DEF StillInv, OwnInv

\* aclrtMalloc for the picture.
LEMMA AllocStep == ASSUME StillInv, AllocInput PROVE StillInv'
<1> USE DEF Ladders, Loaded, NoInputAt, Between, Before, Filled, WithOut
<1>1. PICK ok \in BOOLEAN :
         /\ pc = "alloc" /\ pc' = (IF ok THEN "fill" ELSE "free_output")
         /\ err' = (IF ok THEN err ELSE "alloc")
         /\ Malloc(ok) /\ UNCHANGED <<pic, bgr, fp, acl, buf, stray, yuv>>
  BY DEF AllocInput, Rung, Goto, files
<1>2. /\ NpuTypeOK /\ err \in Errors /\ slot[0] \in SlotType /\ heap[0] \in [Kinds -> Int]
      /\ slot[0].mem /\ slot[0].weight /\ slot[0].loaded /\ slot[0].desc
  BY <1>1, WholeIs
<1>3. /\ slot[0].input = EmptyInput /\ slot[0].output = OutputOf(NumOutputs) /\ err # "fill"
      /\ heap[0]["inbuf"] = 0
  BY <1>1 DEF StillInv, SlotInv, BufferInv
<1>4. /\ NpuTypeOK' /\ UNCHANGED slot
      /\ \A k \in Kinds \ {"inbuf"} : heap'[0][k] = heap[0][k]
      /\ heap'[0]["inbuf"] = IF ok THEN 1 ELSE 0
  <2>1. CASE ok
    <3>1. /\ heap' \in [Slots -> [Kinds -> Int]]
          /\ heap'[0] = [heap[0] EXCEPT !["inbuf"] = @ + 1]
      BY <1>1, <1>2, <2>1, CountEffect, KindsHas DEF Malloc
    <3> QED BY <1>1, <1>2, <1>3, <2>1, <3>1, KindsHas DEF Malloc, NpuTypeOK
  <2>2. CASE ~ok
    BY <1>1, <1>2, <1>3, <2>2, FaultEffect DEF Malloc, NpuTypeOK
  <2> QED BY <2>1, <2>2
<1>5. OwnInv' /\ BufferInv'
  BY <1>1, <1>3, <1>4, BufferOwns DEF BufferInv
<1>6. SlotInv'
  BY <1>1, <1>2, <1>3, <1>4 DEF SlotInv
<1> QED BY <1>1, <1>2, <1>4, <1>5, <1>6, KeptStep DEF StillInv, Errors

\* fread: the picture of the file, or a buffer that outlives the run.
LEMMA FillStep == ASSUME StillInv, FillInput PROVE StillInv'
<1> USE DEF Loaded, NoInputAt, Between, Before, Filled, WithOut
<1>1. /\ pc = "fill" /\ UNCHANGED <<slot, heap, pic, bgr, fp, acl, yuv>>
      /\ \/ pc' = "databuf" /\ buf' = yuv /\ yuv.size \in {"part", "whole"} /\ UNCHANGED <<err, stray>>
         \/ pc' = "free_output" /\ err' = "fill" /\ stray' = TRUE /\ UNCHANGED buf
      /\ UNCHANGED faults \/ Fault
  BY DEF FillInput, Goto, files
<1>2. StillTypeOK'
  BY <1>1, FaultEffect DEF StillInv, StillTypeOK, NpuTypeOK, Places, Errors
<1>3. AclInv' /\ EndInv' /\ OwnInv'
  BY <1>1, BufferOwns DEF StillInv, AclInv, EndInv
<1>4. BufferInv'
  BY <1>1 DEF StillInv, BufferInv
<1>5. SlotInv'
  BY <1>1 DEF StillInv, SlotInv
<1>6. PictureInv'
  BY <1>1 DEF StillInv, PictureInv
<1> QED BY <1>2, <1>3, <1>4, <1>5, <1>6 DEF StillInv

\* create_input_databuf: the buffer joins the data set, or goes.
LEMMA DatabufStep == ASSUME StillInv, MakeDatabuf PROVE StillInv'
<1> USE DEF Ladders, Loaded, NoInputAt, Between, Before, Filled, WithOut
<1>1. PICK ok \in BOOLEAN :
         /\ pc = "databuf" /\ pc' = (IF ok THEN "exec" ELSE "free_buf")
         /\ err' = (IF ok THEN err ELSE "databuf")
         /\ CreateInputDatabuf(0, "dev", ok) /\ UNCHANGED <<pic, bgr, fp, acl, buf, stray, yuv>>
  BY DEF MakeDatabuf, Rung, Goto, files
<1>2. /\ NpuTypeOK /\ err \in Errors /\ slot[0] \in SlotType /\ heap[0] \in [Kinds -> Int]
      /\ slot[0].mem /\ slot[0].weight /\ slot[0].loaded /\ slot[0].desc
  BY <1>1, WholeIs
<1>3. /\ slot[0].input = EmptyInput /\ slot[0].output = OutputOf(NumOutputs) /\ err # "fill"
      /\ heap[0]["inbuf"] = 1 /\ buf.size \in {"part", "whole"}
  BY <1>1 DEF StillInv, SlotInv, BufferInv
<1>4. Owns(slot[0], heap[0])
  BY OwnsIs DEF StillInv
<1>5. /\ NpuTypeOK'
      /\ \/ ~ok /\ slot'[0] = slot[0] /\ heap'[0] = heap[0]
         \/ /\ ok /\ slot'[0] = [slot[0] EXCEPT !.input.bufs = Append(@, "dev")]
            /\ heap'[0] = [heap[0] EXCEPT !["databuf"] = @ + 1]
  BY <1>1, <1>2, CreateDatabufEffect, StillAssumption DEF npuVars
<1>6. CASE ~ok /\ slot'[0] = slot[0] /\ heap'[0] = heap[0]
  <2>1. OwnInv' /\ BufferInv'
    BY <1>1, <1>3, <1>6, BufferOwns DEF BufferInv
  <2>2. SlotInv'
    BY <1>1, <1>2, <1>3, <1>6 DEF SlotInv
  <2> QED BY <1>1, <1>2, <1>5, <1>6, <2>1, <2>2, KeptStep DEF StillInv, Errors
<1>7. CASE /\ ok /\ slot'[0] = [slot[0] EXCEPT !.input.bufs = Append(@, "dev")]
           /\ heap'[0] = [heap[0] EXCEPT !["databuf"] = @ + 1]
  <2>1. [slot[0].input EXCEPT !.bufs = Append(@, "dev")] = InputOn("dev", FALSE)
    <3> DEFINE x == [slot[0].input EXCEPT !.bufs = Append(@, "dev")]
    <3>1. slot[0].input \in InputType /\ "dev" \in Data
      BY <1>2, StillAssumption DEF SlotType
    <3>2. slot[0].input.ptr /\ slot[0].input.bufs = <<>> /\ ~slot[0].input.dangling
      BY <1>3 DEF EmptyInput, NoInput
    <3>3. Append(<<>>, "dev") = <<"dev">> /\ <<"dev">> \in Seq(Data)
      BY <3>1
    <3>4. x \in InputType /\ x.ptr /\ x.bufs = <<"dev">> /\ (x.dangling <=> FALSE)
      BY <3>1, <3>2, <3>3 DEF InputType
    <3> HIDE DEF x
    <3>5. x = InputOn("dev", FALSE)
      BY <3>1, <3>4, SameInput
    <3> QED BY <3>5 DEF x
  <2>2. /\ slot'[0].mem = slot[0].mem /\ slot'[0].weight = slot[0].weight
        /\ slot'[0].desc = slot[0].desc /\ slot'[0].loaded = slot[0].loaded
        /\ slot'[0].output = slot[0].output /\ slot'[0].input = InputOn("dev", FALSE)
    BY <1>2, <1>7, <2>1 DEF SlotType
  <2>3. /\ heap'[0]["databuf"] = heap[0]["databuf"] + 1
        /\ \A k \in Kinds \ {"databuf"} : heap'[0][k] = heap[0][k]
    BY <1>2, <1>7, KindsHas
  <2>4. /\ Bit(slot[0].input.ptr) = 1 /\ Pend(slot[0].input) = 0
        /\ slot[0].output.n = NumOutputs /\ NumOutputs \in Int
    <3>1. Bit(slot[0].input.ptr) = 1 /\ Pend(slot[0].input) = 0
      BY <1>3, InputShares
    <3>2. slot[0].output.n = NumOutputs
      BY <1>3, OutputShares
    <3> QED BY <3>1, <3>2, NumOutputsAssumption
  <2>5. /\ heap[0]["dataset"] = 1 + Bit(slot[0].output.ptr) /\ heap[0]["databuf"] = NumOutputs + 0
        /\ heap[0]["outbuf"] = NumOutputs
    BY <1>4, <2>4 DEF Owns
  <2>6. /\ heap'[0]["dataset"] = Bit(slot'[0].input.ptr) + Bit(slot'[0].output.ptr)
        /\ heap'[0]["databuf"] = slot'[0].output.n + Pend(slot'[0].input)
        /\ heap'[0]["outbuf"] = slot'[0].output.n
    <3>1. Bit(slot'[0].input.ptr) = 1 /\ Pend(slot'[0].input) = 1
      BY <2>2, InputShares
    <3>2. /\ heap'[0]["dataset"] = 1 + Bit(slot[0].output.ptr)
          /\ heap'[0]["databuf"] = NumOutputs + 1 /\ heap'[0]["outbuf"] = NumOutputs
      BY <2>3, <2>4, <2>5, KindsHas
    <3>3. slot'[0].output = slot[0].output
      BY <2>2
    <3> QED BY <2>4, <3>1, <3>2, <3>3
  <2>7. Owns(slot'[0], heap'[0])
    <3>1. \A k \in {"mem", "weight", "desc"} : heap'[0][k] = heap[0][k]
      BY <2>3, KindsHas
    <3>2. slot'[0].mem = slot[0].mem /\ slot'[0].weight = slot[0].weight /\ slot'[0].desc = slot[0].desc
      BY <2>2
    <3> QED BY <1>4, <2>6, <3>1, <3>2, DataOwns
  <2>8. OwnInv' /\ BufferInv'
    BY <1>1, <1>3, <1>7, <2>3, <2>7, OwnsNext, KindsHas DEF BufferInv
  <2>9. SlotInv'
    BY <1>1, <1>2, <1>3, <1>7, <2>2 DEF SlotInv
  <2> QED BY <1>1, <1>2, <1>5, <1>7, <2>8, <2>9, KeptStep DEF StillInv
<1> QED BY <1>5, <1>6, <1>7

\* destroy_input_databuf: the buffer is no more, but the data set still lists it.
LEMMA FreeDatabufStep == ASSUME StillInv, FreeDatabuf PROVE StillInv'
<1> USE DEF Ladders, Loaded, NoInputAt, Between, Before, Filled, WithOut
<1>1. /\ pc = "free_databuf" /\ pc' = "free_buf" /\ DestroyInputDatabuf(0)
      /\ UNCHANGED <<pic, bgr, fp, acl, err, buf, stray, yuv>>
  BY DEF FreeDatabuf, Down, Goto, files
<1>2. /\ NpuTypeOK /\ err \in Errors /\ slot[0] \in SlotType /\ heap[0] \in [Kinds -> Int]
      /\ slot[0].mem /\ slot[0].weight /\ slot[0].loaded /\ slot[0].desc
  BY <1>1, WholeIs
<1>3. slot[0].input = InputOn("dev", FALSE) /\ slot[0].output = OutputOf(NumOutputs)
  BY <1>1 DEF StillInv, SlotInv
<1>4. Owns(slot[0], heap[0])
  BY OwnsIs DEF StillInv
<1>5. /\ slot[0].input.bufs # <<>> /\ Len(slot[0].input.bufs) = 1
      /\ [slot[0].input EXCEPT !.dangling = TRUE] = InputOn("dev", TRUE)
  <2> DEFINE x == [slot[0].input EXCEPT !.dangling = TRUE]
  <2>1. slot[0].input \in InputType /\ "dev" \in Data
    BY <1>2, StillAssumption DEF SlotType
  <2>2. slot[0].input.ptr /\ slot[0].input.bufs = <<"dev">>
    BY <1>3 DEF InputOn
  <2>3. x \in InputType /\ x.ptr /\ x.bufs = <<"dev">> /\ (x.dangling <=> TRUE)
    BY <2>1, <2>2 DEF InputType
  <2>4. Len(<<"dev">>) = 1 /\ <<"dev">> # <<>>
    OBVIOUS
  <2> HIDE DEF x
  <2>5. x = InputOn("dev", TRUE)
    BY <2>1, <2>3, SameInput
  <2> QED BY <2>2, <2>4, <2>5 DEF x
<1>6. /\ NpuTypeOK' /\ slot'[0] = [slot[0] EXCEPT !.input.dangling = TRUE]
      /\ heap'[0] = [heap[0] EXCEPT !["databuf"] = @ - 1]
  BY <1>1, <1>2, <1>5, DestroyDatabufEffect
<1>7. /\ slot'[0].mem = slot[0].mem /\ slot'[0].weight = slot[0].weight
      /\ slot'[0].desc = slot[0].desc /\ slot'[0].loaded = slot[0].loaded
      /\ slot'[0].output = slot[0].output /\ slot'[0].input = InputOn("dev", TRUE)
  BY <1>2, <1>5, <1>6 DEF SlotType
<1>8. /\ heap'[0]["databuf"] = heap[0]["databuf"] - 1
      /\ \A k \in Kinds \ {"databuf"} : heap'[0][k] = heap[0][k]
  BY <1>2, <1>6, KindsHas
<1>9. /\ Bit(slot[0].input.ptr) = 1 /\ Pend(slot[0].input) = 1
      /\ slot[0].output.n = NumOutputs /\ NumOutputs \in Int
  <2>1. Bit(slot[0].input.ptr) = 1 /\ Pend(slot[0].input) = 1
    BY <1>3, InputShares
  <2>2. slot[0].output.n = NumOutputs
    BY <1>3, OutputShares
  <2> QED BY <2>1, <2>2, NumOutputsAssumption
<1>10. /\ heap[0]["dataset"] = 1 + Bit(slot[0].output.ptr) /\ heap[0]["databuf"] = NumOutputs + 1
       /\ heap[0]["outbuf"] = NumOutputs
  BY <1>4, <1>9 DEF Owns
<1>11. /\ heap'[0]["dataset"] = Bit(slot'[0].input.ptr) + Bit(slot'[0].output.ptr)
       /\ heap'[0]["databuf"] = slot'[0].output.n + Pend(slot'[0].input)
       /\ heap'[0]["outbuf"] = slot'[0].output.n
  <2>1. Bit(slot'[0].input.ptr) = 1 /\ Pend(slot'[0].input) = 0
    BY <1>7, InputShares
  <2>2. /\ heap'[0]["dataset"] = 1 + Bit(slot[0].output.ptr)
        /\ heap'[0]["databuf"] = NumOutputs /\ heap'[0]["outbuf"] = NumOutputs
    BY <1>8, <1>9, <1>10, KindsHas
  <2>3. slot'[0].output = slot[0].output
    BY <1>7
  <2> QED BY <1>9, <2>1, <2>2, <2>3
<1>12. Owns(slot'[0], heap'[0])
  <2>1. \A k \in {"mem", "weight", "desc"} : heap'[0][k] = heap[0][k]
    BY <1>8, KindsHas
  <2>2. slot'[0].mem = slot[0].mem /\ slot'[0].weight = slot[0].weight /\ slot'[0].desc = slot[0].desc
    BY <1>7
  <2> QED BY <1>4, <1>11, <2>1, <2>2, DataOwns
<1>13. OwnInv' /\ BufferInv'
  BY <1>1, <1>8, <1>12, OwnsNext, KindsHas DEF StillInv, BufferInv
<1>14. SlotInv'
  BY <1>1, <1>2, <1>3, <1>7 DEF SlotInv
<1> QED BY <1>1, <1>2, <1>6, <1>13, <1>14, KeptStep DEF StillInv

\* aclrtFree of the picture.
LEMMA FreeBufStep == ASSUME StillInv, FreeBuf PROVE StillInv'
<1> USE DEF Ladders, Loaded, NoInputAt, Between, Before, Filled, WithOut
<1>1. /\ pc = "free_buf" /\ pc' = "free_output" /\ Count(0, "inbuf", -1)
      /\ UNCHANGED <<pic, bgr, fp, acl, err, buf, stray, yuv, slot, faults>>
  BY DEF FreeBuf, Down, Goto, files
<1>2. /\ NpuTypeOK /\ err \in Errors /\ slot[0] \in SlotType /\ heap[0] \in [Kinds -> Int]
      /\ slot[0].mem /\ slot[0].weight /\ slot[0].loaded /\ slot[0].desc
  BY <1>1, WholeIs
<1>3. /\ slot[0].input \in {EmptyInput, InputOn("dev", TRUE)}
      /\ slot[0].output = OutputOf(NumOutputs) /\ err # "fill" /\ heap[0]["inbuf"] = 1
  BY <1>1 DEF StillInv, SlotInv, BufferInv
<1>4. /\ heap' \in [Slots -> [Kinds -> Int]]
      /\ heap'[0] = [heap[0] EXCEPT !["inbuf"] = @ + -1]
  BY <1>1, <1>2, CountEffect, KindsHas
<1>5. /\ NpuTypeOK' /\ heap'[0]["inbuf"] = 0
      /\ \A k \in Kinds \ {"inbuf"} : heap'[0][k] = heap[0][k]
  BY <1>1, <1>2, <1>3, <1>4, KindsHas DEF NpuTypeOK
<1>6. OwnInv' /\ BufferInv'
  BY <1>1, <1>3, <1>5, BufferOwns DEF BufferInv
<1>7. SlotInv'
  BY <1>1, <1>2, <1>3 DEF SlotInv
<1> QED BY <1>1, <1>2, <1>5, <1>6, <1>7, KeptStep DEF StillInv

-----------------------------------------------------------------------------
(* The other steps.                                                        *)
\* A step that leaves the table and the buffer alone.
LEMMA BalanceKept ==
  ASSUME StillInv, UNCHANGED <<slot, heap>>
  PROVE  OwnInv'
BY DEF StillInv, OwnInv

\* A fault, or none, keeps the table typed.
LEMMA TableTyped ==
  ASSUME StillInv, UNCHANGED <<slot, heap>>, UNCHANGED faults \/ Fault
  PROVE  NpuTypeOK'
BY FaultEffect DEF StillInv, StillTypeOK, NpuTypeOK

\* A process begins with nothing.
LEMMA ExecStep == ASSUME StillInv, Exec PROVE StillInv'
<1> USE DEF Loaded, NoInputAt, Between, Before, Filled, WithOut
<1>1. /\ pc' = "start" /\ pic' \in Pictures /\ bgr' = NoPicture /\ fp' = FALSE /\ acl' = "down"
      /\ err' = "none" /\ buf' = Absent /\ stray' = FALSE /\ faults' = 0 /\ yuv' = yuv
      /\ slot' = [m \in Slots |-> EmptySlot] /\ heap' = [m \in Slots |-> [k \in Kinds |-> 0]]
  BY DEF Exec, files
<1>2. slot'[0] = EmptySlot /\ \A k \in Kinds : heap'[0][k] = 0
  BY <1>1, SlotsAssumption
<1>3. StillTypeOK'
  <2>1. EmptySlot \in SlotType
    BY EmptyTypes DEF EmptySlot, SlotType
  <2>2. NpuTypeOK'
    BY <1>1, <2>1, MaxFaultsAssumption DEF NpuTypeOK
  <2> QED BY <1>1, <2>2 DEF StillInv, StillTypeOK, Places, Errors, Contents, Absent
<1>4. AclInv' /\ EndInv'
  BY <1>1 DEF AclInv, EndInv
<1>5. OwnInv'
  BY <1>2, OwnsNext, KindsHas, InputShares, OutputShares DEF Owns, EmptySlot, Bit
<1>6. BufferInv'
  BY <1>1, <1>2, KindsHas DEF BufferInv
<1>7. SlotInv'
  BY <1>1, <1>2 DEF SlotInv
<1>8. PictureInv'
  BY <1>1 DEF PictureInv
<1> QED BY <1>3, <1>4, <1>5, <1>6, <1>7, <1>8 DEF StillInv

\* main and the conversion touch pictures and files only.
LEMMA ConvertStep == ASSUME StillInv, Start \/ Decode \/ OpenYuv \/ WriteYuv PROVE StillInv'
<1> USE DEF Loaded, NoInputAt, Between, Before, Filled, WithOut
<1>1. /\ UNCHANGED <<slot, heap, faults, acl, err, buf, stray, pic>>
      /\ \/ pc = "start"  /\ pc' = "decode" /\ UNCHANGED <<bgr, fp, yuv>>
         \/ pc = "decode" /\ pc' = "open" /\ bgr' = pic /\ UNCHANGED <<fp, yuv>>
         \/ pc = "decode" /\ pc' = "init" /\ UNCHANGED <<bgr, fp, yuv>>
         \/ pc = "open"   /\ pc' = "write" /\ fp' = TRUE /\ yuv' = Empty /\ UNCHANGED bgr
         \/ pc = "open"   /\ pc' = "init" /\ UNCHANGED <<bgr, fp, yuv>>
         \/ /\ pc = "write" /\ pc' = "init" /\ UNCHANGED <<bgr, fp>>
            /\ yuv' \in {yuv} \cup [size : {"part", "whole"}, of : {bgr}]
  BY DEF Start, Decode, OpenYuv, WriteYuv, Goto, npuVars, process, files
<1>2. StillTypeOK'
  <2>1. yuv' \in Contents /\ bgr' \in Pictures \cup {NoPicture} /\ fp' \in BOOLEAN
    <3>1. /\ yuv \in Contents /\ pic \in Pictures \cup {NoPicture} /\ fp \in BOOLEAN
          /\ bgr \in Pictures \cup {NoPicture} /\ Empty \in Contents
      BY DEF StillInv, StillTypeOK, Contents, Empty
    <3>2. bgr' \in {bgr, pic} /\ fp' \in {fp, TRUE}
      BY <1>1
    <3>3. yuv' \in {yuv, Empty} \/ yuv' \in [size : {"part", "whole"}, of : {bgr}]
      BY <1>1
    <3>4. [size : {"part", "whole"}, of : {bgr}] \subseteq Contents
      BY <3>1 DEF Contents
    <3> QED BY <3>1, <3>2, <3>3, <3>4
  <2>2. pc' \in Places
    BY <1>1 DEF Places
  <2> QED BY <1>1, <2>1, <2>2, TableTyped DEF StillInv, StillTypeOK
<1>3. AclInv' /\ EndInv' /\ OwnInv'
  BY <1>1, BalanceKept DEF StillInv, AclInv, EndInv
<1>4. BufferInv'
  BY <1>1 DEF StillInv, BufferInv
<1>5. SlotInv'
  BY <1>1 DEF StillInv, SlotInv
<1>6. PictureInv'
  BY <1>1 DEF StillInv, PictureInv, Empty
<1> QED BY <1>2, <1>3, <1>4, <1>5, <1>6 DEF StillInv

\* aclInit and what follows it: up, or the end of the run.
LEMMA InitStep == ASSUME StillInv, InitResource PROVE StillInv'
<1> USE DEF Loaded, NoInputAt, Between, Before, Filled, WithOut
<1>1. /\ pc = "init" /\ UNCHANGED <<slot, heap, pic, bgr, fp, buf, stray, yuv>>
      /\ \/ pc' = "load" /\ acl' = "up" /\ UNCHANGED <<err, faults>>
         \/ pc' = "idle" /\ acl' = "final" /\ err' = "init" /\ Fault
  BY DEF InitResource, Goto, files
<1>2. StillTypeOK'
  BY <1>1, TableTyped DEF StillInv, StillTypeOK, Places, Errors
<1>3. OwnInv'
  BY <1>1, BalanceKept
<1>4. \A k \in Kinds : heap[0][k] = 0
  <2>1. \A k \in Kinds \ {"inbuf"} : heap[0][k] = 0
    BY <1>1, EmptyOwns, OwnsIs DEF StillInv, SlotInv
  <2>2. heap[0]["inbuf"] = 0
    BY <1>1 DEF StillInv, BufferInv
  <2> QED BY <2>1, <2>2
<1>5. AclInv' /\ EndInv'
  BY <1>1, <1>4 DEF StillInv, AclInv, EndInv
<1>6. BufferInv'
  BY <1>1 DEF StillInv, BufferInv
<1>7. SlotInv'
  <2>1. slot[0] = EmptySlot /\ slot'[0] = slot[0]
    BY <1>1 DEF StillInv, SlotInv
  <2>2. slot[0].input = NoInput /\ slot[0].output = NoOutput
    BY <2>1 DEF EmptySlot
  <2>3. pc' \in {"load", "idle"}
    BY <1>1
  <2> QED BY <2>1, <2>2, <2>3 DEF SlotInv
<1>8. PictureInv'
  BY <1>1 DEF StillInv, PictureInv
<1> QED BY <1>2, <1>3, <1>5, <1>6, <1>7, <1>8 DEF StillInv

\* aclmdlExecute and the report.
LEMMA ResultStep == ASSUME StillInv, Execute \/ OutputResult PROVE StillInv'
<1> USE DEF Ladders, Loaded, NoInputAt, Between, Before, Filled, WithOut
<1>1. /\ UNCHANGED <<slot, heap, pic, bgr, fp, acl, buf, stray, yuv>> /\ (UNCHANGED faults \/ Fault)
      /\ \/ pc = "exec" /\ pc' = "result" /\ UNCHANGED err
         \/ pc = "exec" /\ pc' = "free_databuf" /\ err' = "exec"
         \/ pc = "result" /\ pc' = "free_databuf" /\ UNCHANGED err
  BY DEF Execute, Rung, ModelExecute, OutputResult, Goto, files, process, npuVars
<1>2. NpuTypeOK' /\ OwnInv' /\ err' \in Errors
  BY <1>1, TableTyped, BalanceKept DEF StillInv, StillTypeOK, Errors
<1>3. BufferInv'
  BY <1>1 DEF StillInv, BufferInv
<1>4. SlotInv'
  BY <1>1 DEF StillInv, SlotInv
<1> QED BY <1>1, <1>2, <1>3, <1>4, KeptStep DEF StillInv

\* aclFinalize: what the entry still names was left by the call that failed.
LEMMA FinalizeStep == ASSUME StillInv, Finalize PROVE StillInv'
<1> USE DEF Loaded, NoInputAt, Between, Before, Filled, WithOut
<1>1. /\ pc = "finalize" /\ pc' = "idle" /\ acl' = "final"
      /\ UNCHANGED <<slot, heap, faults, pic, bgr, fp, err, buf, stray, yuv>>
  BY DEF Finalize, Goto, files, npuVars
<1>2. StillTypeOK'
  BY <1>1, TableTyped DEF StillInv, StillTypeOK, Places
<1>3. Owns(slot[0], heap[0])
  BY OwnsIs DEF StillInv
<1>4. /\ ~slot[0].desc /\ (err = "load" \/ (~slot[0].mem /\ ~slot[0].weight))
      /\ slot[0].input = NoInput /\ (slot[0].output = NoOutput \/ err = "output")
      /\ heap[0]["inbuf"] = IF err = "fill" THEN 1 ELSE 0
  BY <1>1 DEF StillInv, SlotInv, BufferInv
<1>5. /\ heap[0]["desc"] = 0
      /\ err = "load" \/ (heap[0]["mem"] = 0 /\ heap[0]["weight"] = 0)
      /\ err = "output" \/ (heap[0]["dataset"] = 0 /\ heap[0]["databuf"] = 0 /\ heap[0]["outbuf"] = 0)
  <2>1. heap[0]["desc"] = 0 /\ (err = "load" \/ (heap[0]["mem"] = 0 /\ heap[0]["weight"] = 0))
    BY <1>3, <1>4 DEF Owns, Bit
  <2>2. CASE slot[0].output = NoOutput
    <3>1. heap[0]["dataset"] = 0 + 0 /\ heap[0]["databuf"] = 0 + 0 /\ heap[0]["outbuf"] = 0
      BY <1>3, <1>4, <2>2, InputShares, OutputShares DEF Owns
    <3> QED BY <2>1, <3>1
  <2> QED BY <1>4, <2>1, <2>2
<1>6. \A k \in Kinds : heap[0][k] # 0 => LeftBy(k)
  BY <1>4, <1>5 DEF LeftBy, Kinds
<1>7. AclInv' /\ EndInv'
  <2>1. LeftBy("mem")' = LeftBy("mem") /\ \A k \in Kinds : LeftBy(k)' = LeftBy(k)
    BY <1>1 DEF LeftBy
  <2> QED BY <1>1, <1>6, <2>1 DEF AclInv, EndInv
<1>8. OwnInv' /\ BufferInv'
  BY <1>1, BalanceKept DEF StillInv, BufferInv
<1>9. SlotInv' /\ PictureInv'
  BY <1>1 DEF StillInv, SlotInv, PictureInv
<1> QED BY <1>2, <1>7, <1>8, <1>9 DEF StillInv

\* A kill leaves everything where it was, but for a file that is being written.
LEMMA KilledStep == ASSUME StillInv, HandleSig \/ Interrupt PROVE StillInv'
<1> USE DEF Loaded, NoInputAt, Between, Before, Filled, WithOut
<1>1. /\ pc \notin Between /\ pc' \in Between
      /\ UNCHANGED <<slot, heap, faults, pic, bgr, fp, acl, err, buf, stray>>
      /\ IF pc = "write" THEN yuv' \in {Empty, [size |-> "part", of |-> bgr]} ELSE UNCHANGED yuv
  BY DEF HandleSig, Interrupt, Killed, npuVars, process
<1>2. StillTypeOK'
  BY <1>1, TableTyped DEF StillInv, StillTypeOK, Places, Contents, Empty
<1>3. acl # "final"
  BY <1>1 DEF StillInv, EndInv
<1>4. AclInv' /\ EndInv' /\ OwnInv'
  BY <1>1, <1>3, BalanceKept DEF AclInv, EndInv
<1>5. BufferInv'
  BY <1>1 DEF StillInv, BufferInv
<1>6. SlotInv'
  BY <1>1 DEF SlotInv
<1>7. PictureInv'
  BY <1>1 DEF StillInv, PictureInv, Empty
<1> QED BY <1>2, <1>4, <1>5, <1>6, <1>7 DEF StillInv

-----------------------------------------------------------------------------
(* The theorems.                                                           *)
\* The invariant holds before the first run.
LEMMA StillInit == Init => StillInv
<1> SUFFICES ASSUME Init PROVE StillInv
  OBVIOUS
<1> USE DEF Loaded, NoInputAt, Between, Before, Filled, WithOut
<1>1. /\ pc = "idle" /\ pic = NoPicture /\ bgr = NoPicture /\ fp = FALSE /\ acl = "down" /\ err = "none"
      /\ buf = Absent /\ stray = FALSE /\ yuv = Absent /\ faults = 0
      /\ slot = [m \in Slots |-> EmptySlot] /\ heap = [m \in Slots |-> [k \in Kinds |-> 0]]
  BY DEF Init, ProcessInit, NpuInit
<1>2. slot[0] = EmptySlot /\ \A k \in Kinds : heap[0][k] = 0
  BY <1>1, SlotsAssumption
<1>3. StillTypeOK
  <2>1. EmptySlot \in SlotType
    BY EmptyTypes DEF EmptySlot, SlotType
  <2>2. NpuTypeOK
    BY <1>1, <2>1, MaxFaultsAssumption DEF NpuTypeOK
  <2> QED BY <1>1, <2>2 DEF StillTypeOK, Places, Errors, Contents, Absent
<1>4. AclInv /\ EndInv /\ PictureInv
  BY <1>1 DEF AclInv, EndInv, PictureInv, Absent
<1>5. OwnInv
  BY <1>2, OwnsIs, KindsHas, InputShares, OutputShares DEF Owns, EmptySlot, Bit
<1>6. BufferInv
  BY <1>1, <1>2, KindsHas DEF BufferInv
<1>7. SlotInv
  BY <1>1, <1>2 DEF SlotInv
<1> QED BY <1>3, <1>4, <1>5, <1>6, <1>7 DEF StillInv

\* Every step keeps it.
LEMMA StillStep == StillInv /\ [Next]_stillVars => StillInv'
<1> SUFFICES ASSUME StillInv, [Next]_stillVars PROVE StillInv'
  OBVIOUS
<1>1. CASE Exec
  BY <1>1, ExecStep
<1>2. CASE Start \/ Decode \/ OpenYuv \/ WriteYuv
  BY <1>2, ConvertStep
<1>3. CASE InitResource \/ LoadModel \/ MakeDesc
  BY <1>3, InitStep, LoadStep, DescStep
<1>4. CASE PrepareInput \/ PrepareOutput \/ UndoInput \/ FreeInput
  BY <1>4, InputStep, OutputStep, DropInputStep
<1>5. CASE AllocInput \/ FillInput \/ MakeDatabuf \/ Execute \/ OutputResult
  BY <1>5, AllocStep, FillStep, DatabufStep, ResultStep
<1>6. CASE FreeDatabuf \/ FreeBuf \/ FreeOutput \/ FreeDesc \/ Unload \/ Finalize
  BY <1>6, FreeDatabufStep, FreeBufStep, FreeOutputStep, FreeDescStep, UnloadStep, FinalizeStep
<1>7. CASE HandleSig \/ Interrupt
  BY <1>7, KilledStep
<1>8. CASE UNCHANGED stillVars
  <2>1. /\ UNCHANGED <<pc, pic, bgr, fp, acl, err, buf, stray, yuv, slot, heap, faults>>
    BY <1>8 DEF stillVars, process, files, npuVars
  <2>2. StillTypeOK' /\ AclInv' /\ OwnInv' /\ BufferInv'
    BY <2>1, BalanceKept, TableTyped DEF StillInv, StillTypeOK, AclInv, BufferInv
  <2>3. SlotInv' /\ PictureInv'
    <3>1. SlotInv'
      BY <2>1 DEF StillInv, SlotInv
    <3>2. PictureInv'
      BY <2>1 DEF StillInv, PictureInv
    <3> QED BY <3>1, <3>2
  <2>4. EndInv'
    BY <2>1 DEF StillInv, EndInv, LeftBy
  <2> QED BY <2>2, <2>3, <2>4 DEF StillInv
<1> QED BY <1>1, <1>2, <1>3, <1>4, <1>5, <1>6, <1>7, <1>8 DEF Next, Ladder

\* The invariant of the detector, run after run.
THEOREM StillInvariance == Spec => []StillInv
<1> QED BY StillInit, StillStep, PTL DEF Spec

\* The model is executed on a complete entry, and on a picture that was read:
\* every rung below it has succeeded (sample_svp_npu_acl_resnet50).
THEOREM ReadyOnExecute == Spec => []ExecuteReady
<1>1. StillInv => ExecuteReady
  <2> SUFFICES ASSUME StillInv, pc = "exec"
               PROVE  acl = "up" /\ ReadyToExecute(0, "dev") /\ buf # Absent /\ heap[0]["inbuf"] = 1
    BY DEF ExecuteReady
  <2> USE DEF Between, Before, Loaded, NoInputAt, Filled, WithOut
  <2>1. acl = "up" /\ buf.size \in {"part", "whole"} /\ heap[0]["inbuf"] = 1
    BY DEF StillInv, AclInv, BufferInv
  <2>2. ReadyToExecute(0, "dev")
    BY DEF StillInv, SlotInv, ReadyToExecute
  <2> QED BY <2>1, <2>2 DEF Absent
<1> QED BY <1>1, StillInvariance, PTL

\* Nothing is freed twice, and a run that ends has given back all but what the
\* call that failed leaves behind.
THEOREM LadderBalanced == Spec => []HeapBalanced
<1>1. StillInv => LeaksOnlyWhereItFailed
  BY DEF StillInv, EndInv, LeaksOnlyWhereItFailed
<1>2. StillInv => NothingFreedTwice
  <2>1. ASSUME StillInv, NEW k \in Kinds PROVE Owned(slot[0])[k] <= heap[0][k]
    <3>1. CASE k = "inbuf"
      BY <2>1, <3>1, OwnedIs DEF StillInv, BufferInv
    <3>2. CASE k # "inbuf"
      <4>1. heap[0][k] = Owned(slot[0])[k] /\ heap[0][k] \in Int
        BY <2>1, <3>2, SlotZero DEF StillInv, OwnInv, StillTypeOK
      <4> QED BY <4>1
    <3> QED BY <3>1, <3>2
  <2> QED BY <2>1 DEF NothingFreedTwice
<1> QED BY <1>1, <1>2, StillInvariance, PTL DEF HeapBalanced

\* With a picture file that could be opened, the report is on this run's
\* picture, whatever the runs before it left.
THEOREM ReportsOwnPicture == Spec => ReportsThisPicture
<1>1. StillInv /\ [Next]_stillVars =>
        [report' # report /\ fp => report'.found.of = pic /\ report'.over = pic]_stillVars
  <2> SUFFICES ASSUME StillInv, Next, report' # report, fp
               PROVE  report'.found.of = pic /\ report'.over = pic
    OBVIOUS
  <2>1. OutputResult
    BY DEF Next, Exec, Start, Decode, OpenYuv, WriteYuv, Ladder, HandleSig, Interrupt, Killed, files,
       InitResource, LoadModel, MakeDesc, PrepareInput, PrepareOutput, UndoInput, AllocInput, FillInput,
       MakeDatabuf, Execute, FreeDatabuf, FreeBuf, FreeOutput, FreeInput, FreeDesc, Unload, Finalize,
       Rung, Down
  <2>2. pc = "result" /\ report' = [found |-> buf, over |-> bgr]
    BY <2>1 DEF OutputResult, Goto
  <2>3. buf.of = pic /\ bgr = pic
    BY <2>2 DEF StillInv, PictureInv, Filled
  <2> QED BY <2>2, <2>3
<1> QED BY <1>1, StillInvariance, PTL DEF Spec, ReportsThisPicture

\* The runs that were made and the files they leave.
FilesTypeOK ==
    /\ runs \in 0..MaxRuns /\ image \in Pictures \cup {NoPicture}
    /\ report \in [found : Contents, over : Pictures \cup {NoPicture}]

\* A step counts a run, draws, or reports.
LEMMA FilesStep == StillInv /\ FilesTypeOK /\ [Next]_stillVars => FilesTypeOK'
<1> SUFFICES ASSUME StillInv, FilesTypeOK, [Next]_stillVars PROVE FilesTypeOK'
  OBVIOUS
<1>1. CASE Exec
  BY <1>1, StillAssumption DEF Exec, files, FilesTypeOK
<1>2. CASE Start
  BY <1>2 DEF Start, Goto, FilesTypeOK
<1>3. CASE OutputResult
  <2>1. /\ buf \in Contents /\ bgr \in Pictures \cup {NoPicture} /\ runs' = runs
        /\ image' \in {image, bgr} /\ report' \in {report, [found |-> buf, over |-> bgr]}
    BY <1>3 DEF OutputResult, Goto, StillInv, StillTypeOK
  <2> QED BY <2>1 DEF FilesTypeOK
<1>4. CASE UNCHANGED <<runs, image, report>>
  BY <1>4 DEF FilesTypeOK
<1>5. CASE Next /\ ~Exec /\ ~Start /\ ~OutputResult
  BY <1>4, <1>5 DEF Next, Decode, OpenYuv, WriteYuv, Ladder, HandleSig, Interrupt, Killed, files, Goto,
     InitResource, LoadModel, MakeDesc, PrepareInput, PrepareOutput, UndoInput, AllocInput, FillInput,
     MakeDatabuf, Execute, FreeDatabuf, FreeBuf, FreeOutput, FreeInput, FreeDesc, Unload, Finalize,
     Rung, Down
<1>6. CASE UNCHANGED stillVars
  BY <1>4, <1>6 DEF stillVars, files
<1> QED BY <1>1, <1>2, <1>3, <1>5, <1>6

\* Every variable of the detector keeps its type.
THEOREM TypeCorrect == Spec => [](StillTypeOK /\ FilesTypeOK)
<1>1. Init => FilesTypeOK
  BY StillAssumption DEF Init, FilesTypeOK, NoReport, Contents, Absent
<1>2. StillInv => StillTypeOK
  BY DEF StillInv
<1> QED BY <1>1, <1>2, FilesStep, StillInvariance, PTL DEF Spec
=============================================================================
