------------------------------- MODULE Detect -------------------------------
(***************************************************************************)
(* The post-processing of yolov5.cpp: sample_npu_output_model_result hands *)
(* the output buffers of a frame one by one to ncnn_result, which collects *)
(* proposals from the heads of stride 8 and 16 and, with the one of stride *)
(* 32, sorts them, suppresses the overlapping ones and reports the rest.   *)
(* proposals and objects are static and live on from frame to frame.       *)
(*                                                                         *)
(* The sort is ParQsort's: it is modelled by taking the proposals in some  *)
(* descending order.  What is kept is reported as a rectangle of the       *)
(* picture: the padding taken off, scaled back and clipped.                *)
(***************************************************************************)
EXTENDS Integers, Sequences, FiniteSets

CONSTANTS
    Outputs,        \* the strides of the model's output buffers, in order;
                    \* 0 for a buffer of any other length
    Boxes,          \* rectangles a head may propose
    Overlap,        \* pairs of them with an IoU above nms_threshold
    Rects,          \* rectangles of the picture
    Clip,           \* the one a box becomes without padding, scaled and clipped
    NumClass,       \* csize
    Probs,          \* confidences above prob_threshold, in hundredths
    MaxFrames,      \* bound on the frames
    MaxPerHead      \* bound on the proposals of one head

ASSUME DetectAssumption ==
    /\ Outputs \in Seq({8, 16, 32, 0})
    /\ Probs \subseteq Nat
    /\ Clip \in [Boxes -> Rects]
    /\ NumClass \in Nat /\ MaxFrames \in Nat /\ MaxPerHead \in Nat

VARIABLES
    pc,             \* "frame", "output", "nms" or "report"
    frame,          \* number of the frame
    out,            \* the output buffer the loop is at
    seen,           \* heads of this frame that have reached ncnn_result
    proposals,      \* collected detections
    todo,           \* those the suppression has not looked at yet
    picked,         \* those it has kept, in order
    objects         \* what is reported

detectVars == <<pc, frame, out, seen, proposals, todo, picked, objects>>

Object == [frame : 1..MaxFrames, head : {8, 16, 32}, box : Boxes,
           label : 0..(NumClass - 1), prob : Probs]

\* map_confidence, in ten-thousandths.
map_confidence(con) ==
    LET c == IF con < 0 THEN 20 ELSE IF con > 100 THEN 100 ELSE con
    IN  6100 + 33 * c

\* The detection a report is of is kept along with what is reported.
Result == [of : Object, rect : Rects, conf : {map_confidence(p) : p \in Probs}]

DetectTypeOK ==
    /\ pc \in {"frame", "output", "nms", "report"}
    /\ frame \in 0..MaxFrames
    /\ out \in 1..(Len(Outputs) + 1)
    /\ seen \subseteq {8, 16, 32}
    /\ proposals \subseteq Object /\ todo \subseteq Object
    /\ picked \in Seq(Object)
    /\ objects \in Seq(Result)

DetectInit ==
    /\ pc = "frame" /\ frame = 0 /\ out = 1 /\ seen = {}
    /\ proposals = {} /\ todo = {} /\ picked = <<>> /\ objects = <<>>

-----------------------------------------------------------------------------
BeginFrame ==
    /\ pc = "frame" /\ frame < MaxFrames
    /\ pc' = "output" /\ frame' = frame + 1 /\ out' = 1 /\ seen' = {}
    /\ UNCHANGED <<proposals, todo, picked, objects>>

\* A buffer without an address or without a length is passed over.
SkipBuffer ==
    /\ pc = "output" /\ out <= Len(Outputs) /\ out' = out + 1
    /\ UNCHANGED <<pc, frame, seen, proposals, todo, picked, objects>>

\* generate_proposals: at most MaxPerHead of the detections a head can make.
Proposed(head) ==
    {new \in SUBSET [frame : {frame}, head : {head}, box : Boxes,
                     label : 0..(NumClass - 1), prob : Probs] : Cardinality(new) <= MaxPerHead}

AtHead(head) ==
    /\ pc = "output" /\ out <= Len(Outputs) /\ Outputs[out] = head
    /\ UNCHANGED <<frame, objects>>

Collect == pc' = "output" /\ out' = out + 1 /\ UNCHANGED <<todo, picked>>
Suppress == pc' = "nms" /\ todo' = proposals' /\ picked' = <<>> /\ UNCHANGED out

\* Slip: the proposals of the frame before are not cleared.
Head8_KeepsOld ==
    /\ AtHead(8) /\ seen' = seen \cup {8}
    /\ \E new \in Proposed(8) : proposals' = proposals \cup new
    /\ Collect

\* ncnn_result, by the length it is called with.
Head8 ==
    /\ AtHead(8) /\ seen' = seen \cup {8}
    /\ proposals' \in Proposed(8)
    /\ Collect

Head16 ==
    /\ AtHead(16) /\ seen' = seen \cup {16}
    /\ \E new \in Proposed(16) : proposals' = proposals \cup new
    /\ Collect

Head32 ==
    /\ AtHead(32) /\ seen' = seen \cup {32}
    /\ \E new \in Proposed(32) : proposals' = proposals \cup new
    /\ Suppress

\* Any other length falls through to the sort.
OtherLength == AtHead(0) /\ UNCHANGED <<seen, proposals>> /\ Suppress

-----------------------------------------------------------------------------
(* nms_sorted_bboxes.                                                      *)
Suppresses(b, a) == b.label = a.label /\ <<a.box, b.box>> \in Overlap
Best(S) == {a \in S : \A b \in S : a.prob >= b.prob}

\* Slips: compared with the last one kept only; taken in any order.
Nms_LastOnly ==
    /\ pc = "nms"
    /\ \E a \in Best(todo) :
         /\ todo' = todo \ {a}
         /\ picked' = IF picked # <<>> /\ Suppresses(picked[Len(picked)], a)
                      THEN picked ELSE Append(picked, a)
    /\ UNCHANGED <<pc, frame, out, seen, proposals, objects>>
Nms_Unsorted ==
    /\ pc = "nms"
    /\ \E a \in todo :
         /\ todo' = todo \ {a}
         /\ picked' = IF \E k \in DOMAIN picked : Suppresses(picked[k], a)
                      THEN picked ELSE Append(picked, a)
    /\ UNCHANGED <<pc, frame, out, seen, proposals, objects>>

Nms ==
    /\ pc = "nms"
    /\ \E a \in Best(todo) :
         /\ todo' = todo \ {a}
         /\ picked' = IF \E k \in DOMAIN picked : Suppresses(picked[k], a)
                      THEN picked ELSE Append(picked, a)
    /\ UNCHANGED <<pc, frame, out, seen, proposals, objects>>

NmsDone ==
    /\ pc = "nms" /\ todo = {} /\ pc' = "report"
    /\ UNCHANGED <<frame, out, seen, proposals, todo, picked, objects>>

\* draw_objects and save_detection_results work on objects.
Report ==
    /\ pc = "report" /\ pc' = "output" /\ out' = out + 1
    /\ objects' = [k \in 1..Len(picked) |->
                     [of |-> picked[k], rect |-> Clip[picked[k].box],
                      conf |-> map_confidence(picked[k].prob)]]
    /\ UNCHANGED <<frame, seen, proposals, todo, picked>>

EndFrame ==
    /\ pc = "output" /\ out > Len(Outputs) /\ pc' = "frame"
    /\ UNCHANGED <<frame, out, seen, proposals, todo, picked, objects>>

DetectNext ==
    \/ BeginFrame \/ SkipBuffer \/ Head8 \/ Head16 \/ Head32 \/ OtherLength
    \/ Nms \/ NmsDone \/ Report \/ EndFrame

DetectSpec == DetectInit /\ [][DetectNext]_detectVars

-----------------------------------------------------------------------------
(* Properties.                                                             *)

\* No two reported detections of one class are of boxes that overlap in the
\* model's output, and their confidences fall, also after map_confidence.
\* Nothing is said of the rectangles drawn: two boxes far enough apart may be
\* clipped to rectangles that overlap more, and nothing compares those again.
KeptApart ==
    \A k, m \in DOMAIN objects : k < m =>
        /\ ~Suppresses(objects[k].of, objects[m].of)
        /\ objects[k].conf >= objects[m].conf

\* Nothing is dropped without reason: what is not reported overlaps with
\* something reported that is at least as likely.
DroppedForBetter ==
    pc = "report" => \A a \in proposals :
        \E k \in DOMAIN picked :
            picked[k] = a \/ (Suppresses(picked[k], a) /\ picked[k].prob >= a.prob)

\* A report holds what the heads of its own frame have proposed, as long as
\* the head that clears the proposals has come through.
ReportOfThisFrame ==
    pc = "report" /\ 8 \in seen =>
        \A k \in DOMAIN picked : picked[k].frame = frame /\ picked[k].head \in seen
(***************************************************************************)
(* The inductive invariant: the suppression takes the proposals in falling *)
(* order, and what it has passed is picked or suppressed.                  *)
(***************************************************************************)
PickedInv ==
    \A k, m \in DOMAIN picked : k < m =>
        ~Suppresses(picked[k], picked[m]) /\ picked[k].prob >= picked[m].prob

KeptFor(a) == \E k \in DOMAIN picked :
                 picked[k] = a \/ (Suppresses(picked[k], a) /\ picked[k].prob >= a.prob)

NmsInv ==
    pc \in {"nms", "report"} =>
        /\ todo \subseteq proposals
        /\ \A k \in DOMAIN picked : picked[k] \in proposals
        /\ \A k \in DOMAIN picked, a \in todo : picked[k].prob >= a.prob
        /\ \A a \in proposals : a \in todo \/ KeptFor(a)
        /\ pc = "report" => todo = {}

FreshInv == 8 \in seen => \A a \in proposals : a.frame = frame /\ a.head \in seen

DetectInv ==
    /\ DetectTypeOK /\ PickedInv /\ NmsInv /\ FreshInv /\ KeptApart
    /\ pc \in {"nms", "report"} => out <= Len(Outputs)
    /\ pc # "frame" => frame > 0
=============================================================================
