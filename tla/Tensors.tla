------------------------------ MODULE Tensors ------------------------------
(***************************************************************************)
(* What sample_common_svp_npu_model.c makes of the shapes AscendCL tells   *)
(* it: the lines of a tensor in its buffer, batch by batch; the best       *)
(* classes of a row of scores; the rectangles of the regions that were     *)
(* found; and the thresholds it writes into the model's inputs.            *)
(***************************************************************************)
EXTENDS Buffers, FiniteSets, Sequences

CONSTANT ShowTopNum                        \* SAMPLE_SVP_NPU_SHOW_TOP_NUM

ExtraInputNum == 2                         \* the tensors of the task and of the work
MaxModelNum   == 1
ByteBitNum    == 8
ThresholdNum  == 4

-----------------------------------------------------------------------------
\* Two inputs are not the user's, and one of them takes the batches.
GetModelBaseInfo(model) == model.input_num >= ExtraInputNum + 1 /\ model.output_num >= 1 /\ model.dynamic

\* Steps of time take the place of batches.
CheckTaskCfg(cfg) ==
    /\ cfg.max_batch_num # 0 /\ cfg.dynamic_batch_num # 0
    /\ cfg.total_t # 0 => cfg.dynamic_batch_num = 1
    /\ cfg.model_idx < MaxModelNum /\ cfg.desc

ProductOf(dims) == LET p[i \in 0..Len(dims)] == IF i = 0 THEN 1 ELSE p[i - 1] * dims[i] IN p[Len(dims)]

\* The last dimension is a line.  The first is that of time for an LSTM's
\* first tensor, of the outputs as well.
LineByteNum(dims, bits) == dims[Len(dims)] * DivUp(bits, ByteBitNum)
LineNum(dims, cfg, idx) ==
    LET all  == ProductOf(SubSeq(dims, 1, Len(dims) - 1))
        lstm == cfg.total_t # 0 /\ idx = 0
    IN [ok  |-> ~lstm \/ cfg.total_t <= dims[1],
        num |-> IF lstm THEN (all \div dims[1]) * cfg.total_t ELSE all]

\* What AscendCL says of a tensor: lines on even places, one below the other.
DefaultStride(dims, bits) == AlignUp(LineByteNum(dims, bits), 16)
SizeByIndex(dims, bits)   == DefaultStride(dims, bits) * ProductOf(SubSeq(dims, 1, Len(dims) - 1))

BufferSize(dims, bits, cfg) == SizeByIndex(dims, bits) * cfg.max_batch_num

\* Memory is cleared, and what is cached is written back.
MallocMem(size, is_cached) == [size |-> size, clean |-> TRUE, flushed |-> IF is_cached THEN size ELSE 0]

\* A file is read, and a buffer dumped, line by line.
TransferLines(dims, bits, cfg, idx) ==
    LET lines  == LineNum(dims, cfg, idx)
        stride == DefaultStride(dims, bits)
        mem    == MallocMem(BufferSize(dims, bits, cfg), cfg.is_cached)
        n      == cfg.dynamic_batch_num * lines.num
    IN IF ~CheckTaskCfg(cfg) \/ ~lines.ok \/ mem.size < n * stride THEN [ok |-> FALSE, at |-> <<>>]
       ELSE [ok |-> TRUE, at |-> [i \in 1..n |-> (i - 1) * stride], bytes |-> LineByteNum(dims, bits),
             size |-> mem.size, flushed |-> IF cfg.is_cached THEN n * stride ELSE 0]

\* What is written back behind an execution.
FlushedOutput(size, cfg) == (size \div cfg.max_batch_num) * cfg.dynamic_batch_num

GetWorkBufInfo(model, cfg) ==
    IF ~CheckTaskCfg(cfg) \/ model.work.stride = 0 \/ model.work.size = 0 THEN [ok |-> FALSE]
    ELSE [ok |-> TRUE, size |-> model.work.size, stride |-> model.work.stride]

-----------------------------------------------------------------------------
\* A score is put before the first that is less; what has nothing above 0
\* stays class 0 with score 0.
TopResult == [score |-> 0, class_id |-> 0]
SortOutputResult(src) ==
    LET top[i \in 0..Len(src)] ==
            IF i = 0 THEN [j \in 1..ShowTopNum |-> TopResult]
            ELSE LET dst  == top[i - 1]
                     less == {j \in DOMAIN dst : src[i] > dst[j].score}
                     index == CHOOSE j \in less : \A k \in less : j <= k
                 IN IF less = {} THEN dst
                    ELSE [j \in DOMAIN dst |-> IF j < index THEN dst[j]
                                              ELSE IF j = index THEN [score |-> src[i], class_id |-> i - 1] ELSE dst[j - 1]]
    IN top[Len(src)]

\* The numbers found of each class; those of the background come first and
\* are skipped.
GetRoiNum(num, has_background) ==
    LET from == IF has_background THEN 2 ELSE 1
        total[i \in 0..Len(num)] == IF i < from THEN 0 ELSE total[i - 1] + num[i]
    IN [roi_offset |-> IF has_background THEN num[1] ELSE 0, num |-> total[Len(num)]]

EvenBelow(x) == x - (x % 2)
ToShow(x, proc, show) == EvenBelow((x * show) \div proc)

\* Four rows: left, top, right, bottom; clockwise from the left top.
GetRoi(roi, info, proc, show) ==
    [i \in 1..info.num |->
       LET k == info.roi_offset + i
           left == ToShow(roi.x_min[k], proc[1], show[1])  top    == ToShow(roi.y_min[k], proc[2], show[2])
           right == ToShow(roi.x_max[k], proc[1], show[1]) bottom == ToShow(roi.y_max[k], proc[2], show[2])
       IN <<<<left, top>>, <<right, top>>, <<right, bottom>>, <<left, bottom>>>>]

RoiToRect(c) == GetRoi(c.roi, GetRoiNum(c.num, c.has_background), c.proc, c.show)

\* One after the other; the first that has no input, or one too small, ends
\* it, and those before it are set.
SetThreshold(inputs, thresholds) ==
    LET set[i \in 0..Len(thresholds)] ==
            IF i = 0 THEN [ok |-> thresholds # <<>>, inputs |-> inputs]
            ELSE LET s == set[i - 1]  t == thresholds[i]
                 IN IF ~s.ok \/ t.name \notin DOMAIN inputs THEN [s EXCEPT !.ok = FALSE]
                    ELSE IF inputs[t.name].size < ThresholdNum THEN [s EXCEPT !.ok = FALSE]
                    ELSE [s EXCEPT !.inputs[t.name].data = <<t.nms, t.score, t.min_height, t.min_width>>]
    IN set[Len(thresholds)]

\* A buffer is replaced as a whole, and read as it was put there.
UpdateInputBuffer(bufs, idx, buf) ==
    IF idx \in DOMAIN bufs THEN [ok |-> TRUE, bufs |-> [bufs EXCEPT ![idx] = buf]] ELSE [ok |-> FALSE, bufs |-> bufs]
GetInputBuffer(bufs, idx, cfg) ==
    IF CheckTaskCfg(cfg) /\ idx \in DOMAIN bufs THEN [ok |-> TRUE, buf |-> bufs[idx]] ELSE [ok |-> FALSE]
CheckHasAicpuTask(model, cfg) ==
    IF CheckTaskCfg(cfg) THEN [ok |-> TRUE, has |-> model.aicpu_task_num # 0] ELSE [ok |-> FALSE]
GetModelInfo(model_idx) == IF model_idx >= MaxModelNum THEN -1 ELSE model_idx

-----------------------------------------------------------------------------
(* What is asked, and what must hold of the answers.                       *)

Dims == UNION {[1..n -> 1..3] : n \in 1..3}
TaskCfgs ==
    [max_batch_num : 0..2, dynamic_batch_num : 0..3, total_t : {0, 1, 3}, is_cached : BOOLEAN, model_idx : {0}, desc : {TRUE}]
BadCfgs == [max_batch_num : {1}, dynamic_batch_num : {1}, total_t : {0}, is_cached : {FALSE}, model_idx : 0..1, desc : BOOLEAN]
Models  == [input_num : 2..3, output_num : 0..1, dynamic : BOOLEAN, aicpu_task_num : 0..1,
            work : [size : {0, 64}, stride : {0, 16}]]
Scores  == UNION {[1..n -> -1..3] : n \in 0..5}
Boxes   == {<<0, 0, 8, 8>>, <<1, 2, 3, 5>>, <<4, 4, 7, 6>>, <<2, 2, 2, 2>>}
Picked(boxes, k) == [i \in DOMAIN boxes |-> boxes[i][k]]
Roi(boxes) == [x_min |-> Picked(boxes, 1), y_min |-> Picked(boxes, 2), x_max |-> Picked(boxes, 3), y_max |-> Picked(boxes, 4)]
ThresholdNames == {"rpn", "detect"}
Threshold(name, n) == [name |-> name, nms |-> n, score |-> n + 1, min_height |-> n + 2, min_width |-> n + 3]

TensorCalls ==
    [what : {"lines"}, dims : Dims, bits : {4, 16, 32}, cfg : TaskCfgs \cup BadCfgs, idx : {0, 1}]
    \cup [what : {"model"}, model : Models, cfg : BadCfgs]
    \cup [what : {"scores"}, src : Scores]
    \* A quotient by a power of two is exact, as a float as well.
    \cup {[what |-> "rois", num |-> n, has_background |-> b, roi |-> Roi(x), boxes |-> x, proc |-> <<8, 8>>, show |-> s] :
            n \in {<<1, 0, 2>>, <<0, 3, 0>>, <<2, 1, 0>>, <<3, 0, 0>>}, b \in BOOLEAN, x \in [1..3 -> Boxes],
            s \in {<<8, 8>>, <<1920, 1080>>, <<13, 3>>}}
    \cup {[what |-> "thresholds", sizes |-> s, list |-> l] :
            s \in [ThresholdNames -> {3, 4, 8}],
            l \in {<<>>, <<Threshold("rpn", 1)>>, <<Threshold("rpn", 1), Threshold("detect", 7)>>,
                   <<Threshold("detect", 1), Threshold("none", 3), Threshold("rpn", 5)>>}}

TensorQuestions == {"lines", "model", "scores", "rois", "thresholds"}

ThresholdInputs(sizes) == [n \in DOMAIN sizes |-> [size |-> sizes[n], data |-> <<>>]]

Tensored(c) ==
    CASE c.what = "lines"  -> TransferLines(c.dims, c.bits, c.cfg, c.idx)
      [] c.what = "model"  -> [base |-> GetModelBaseInfo(c.model), work |-> GetWorkBufInfo(c.model, c.cfg),
                               aicpu |-> CheckHasAicpuTask(c.model, c.cfg), info |-> GetModelInfo(c.cfg.model_idx),
                               swapped |-> GetInputBuffer(UpdateInputBuffer(<<"old">>, 1, "new").bufs, 1, c.cfg),
                               absent  |-> UpdateInputBuffer(<<"old">>, 2, "new")]
      [] c.what = "scores" -> SortOutputResult(c.src)
      [] c.what = "rois"   -> RoiToRect(c)
      [] c.what = "thresholds" -> SetThreshold(ThresholdInputs(c.sizes), c.list)

\* The lines of all batches lie in the buffer, beside each other, and are all
\* of the batches, but for an LSTM's tensor of one dimension, of which nothing
\* is; who has asked for no more batches than the buffer was made for gets
\* them; and what the model has written is flushed as far as it is dumped.
LinesFit(c, o) ==
    LET time == c.cfg.total_t # 0 /\ c.idx = 0
    IN /\ o.ok =>
             /\ \A i \in DOMAIN o.at : /\ o.at[i] >= 0 /\ o.at[i] + o.bytes <= o.size
                                       /\ i < Len(o.at) => o.at[i] + o.bytes <= o.at[i + 1]
             /\ IF time THEN IF Len(c.dims) = 1 /\ c.dims[1] > 1 THEN o.at = <<>>
                             ELSE Len(o.at) * o.bytes * c.dims[1] = c.cfg.total_t * DivUp(c.bits, 8) * ProductOf(c.dims)
                ELSE Len(o.at) * o.bytes = c.cfg.dynamic_batch_num * DivUp(c.bits, 8) * ProductOf(c.dims)
             /\ c.cfg.is_cached /\ o.at # <<>> => o.flushed >= o.at[Len(o.at)] + o.bytes
             /\ FlushedOutput(o.size, c.cfg) >= (IF o.at = <<>> THEN 0 ELSE o.at[Len(o.at)] + o.bytes)
       /\ CheckTaskCfg(c.cfg) => (o.ok <=> IF time THEN c.cfg.total_t <= c.dims[1] ELSE c.cfg.dynamic_batch_num <= c.cfg.max_batch_num)

\* The scores above nothing, the best first, of equal ones the first.
TopFair(src, top) ==
    LET good   == {i \in DOMAIN src : src[i] > 0}
        before(i) == {k \in good : src[k] > src[i] \/ (src[k] = src[i] /\ k < i)}
    IN /\ \A i \in good : Cardinality(before(i)) < ShowTopNum =>
             top[Cardinality(before(i)) + 1] = [score |-> src[i], class_id |-> i - 1]
       /\ \A j \in DOMAIN top : j > Cardinality(good) => top[j] = TopResult

\* All that was found of the other classes, in order, each a rectangle in the
\* picture shown, on even places, no further from where it belongs than one
\* point.
RoisFit(c, rects) ==
    LET skip == IF c.has_background THEN c.num[1] ELSE 0
        near(p, k, n) == (p * c.show[n]) \div c.proc[n] \in {k, k + 1}
    IN /\ Len(rects) = 3 - skip
       /\ \A i \in DOMAIN rects :
             LET r == rects[i]  b == c.boxes[skip + i]
             IN /\ r[1][1] = r[4][1] /\ r[2][1] = r[3][1] /\ r[1][2] = r[2][2] /\ r[3][2] = r[4][2]
                /\ r[1][1] <= r[3][1] /\ r[1][2] <= r[3][2]
                /\ \A k \in DOMAIN r : \A n \in {1, 2} : r[k][n] % 2 = 0 /\ r[k][n] \in 0..c.show[n]
                /\ near(b[1], r[1][1], 1) /\ near(b[2], r[1][2], 2) /\ near(b[3], r[3][1], 1) /\ near(b[4], r[3][2], 2)

\* All thresholds are set, or the call says that one is not.
ThresholdsSet(c, o) ==
    /\ o.ok => \A i \in DOMAIN c.list :
          LET t == c.list[i] IN o.inputs[t.name].data = <<t.nms, t.score, t.min_height, t.min_width>>
    /\ o.ok <=> c.list # <<>> /\ \A i \in DOMAIN c.list : c.list[i].name \in DOMAIN c.sizes /\ c.sizes[c.list[i].name] >= 4
    /\ \A n \in DOMAIN o.inputs : Len(o.inputs[n].data) <= o.inputs[n].size

TensorsFit(c, o) ==
    CASE c.what = "lines"  -> LinesFit(c, o)
      [] c.what = "model"  -> /\ o.work.ok => o.work.size = c.model.work.size /\ o.work.stride > 0
                              /\ o.aicpu.ok => (o.aicpu.has <=> c.model.aicpu_task_num > 0)
                              /\ o.swapped.ok => o.swapped.buf = "new" /\ o.info = c.cfg.model_idx
                              /\ ~o.absent.ok /\ o.absent.bufs = <<"old">>
                              /\ o.base => c.model.input_num > ExtraInputNum
      [] c.what = "scores" -> TopFair(c.src, o)
      [] c.what = "rois"   -> RoisFit(c, o)
      [] c.what = "thresholds" -> ThresholdsSet(c, o)
=============================================================================
