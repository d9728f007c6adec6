------------------------------ MODULE ParQsort ------------------------------
(***************************************************************************)
(* qsort_descent_inplace of yolov5.cpp: the two halves of a partition are  *)
(* OpenMP sections, so any number of calls work on one vector at a time.   *)
(* A call is a record of its range and local variables; a partitioned call *)
(* is replaced by its sections.  The barrier that ends the sections makes  *)
(* the outermost call return when no call is left.                         *)
(***************************************************************************)
EXTENDS Integers

CONSTANTS
    N,              \* faceobjects.size()
    Objects,        \* the detections in the vector
    Conf            \* their member prob, as an integer

ASSUME SortAssumption ==
    /\ N \in Nat
    /\ Conf \in [Objects -> Int]

VARIABLES
    faceobjects,    \* the vector
    calls           \* calls of qsort_descent_inplace that still partition

sortVars == <<faceobjects, calls>>

Index == 0..(N - 1)
Prob(k) == Conf[faceobjects[k]]

Call == [left : Index, right : Index, i : 0..N, j : -1..(N - 1), p : Int,
         pc : {"scan_i", "scan_j", "swap", "split"}]

SortTypeOK == faceobjects \in [Index -> Objects] /\ calls \subseteq Call

Distinct(v) == \A k, m \in DOMAIN v : v[k] = v[m] => k = m
Onto(v)     == \A o \in Objects : \E k \in DOMAIN v : v[k] = o

\* The state of a call once it has read its pivot.
NewCall(v, l, r) == [left |-> l, right |-> r, i |-> l, j |-> r,
                     p |-> Conf[v[(l + r) \div 2]], pc |-> "scan_i"]

SortInit ==
    /\ faceobjects \in [Index -> Objects] /\ Distinct(faceobjects) /\ Onto(faceobjects)
    /\ calls = IF N = 0 THEN {} ELSE {NewCall(faceobjects, 0, N - 1)}

Becomes(c, new) == calls' = (calls \ {c}) \cup new

-----------------------------------------------------------------------------
(* The body of the loop "while (i <= j)".                                  *)

\* Slip: >= in the comparison.
ScanI_PassesPivot(c) ==
    /\ c.pc = "scan_i"
    /\ Becomes(c, IF Prob(c.i) >= c.p THEN {[c EXCEPT !.i = @ + 1]} ELSE {[c EXCEPT !.pc = "scan_j"]})
    /\ UNCHANGED faceobjects

ScanI(c) ==
    /\ c.pc = "scan_i"
    /\ Becomes(c, IF Prob(c.i) > c.p THEN {[c EXCEPT !.i = @ + 1]} ELSE {[c EXCEPT !.pc = "scan_j"]})
    /\ UNCHANGED faceobjects

ScanJ(c) ==
    /\ c.pc = "scan_j"
    /\ Becomes(c, IF Prob(c.j) < c.p THEN {[c EXCEPT !.j = @ - 1]} ELSE {[c EXCEPT !.pc = "swap"]})
    /\ UNCHANGED faceobjects

LoopTest(i, j) == IF i <= j THEN "scan_i" ELSE "split"

\* Slips: the indexes stay where they are; one half of the swap is lost.
Swap_NoStep(c) ==
    /\ c.pc = "swap" /\ c.i <= c.j
    /\ faceobjects' = [faceobjects EXCEPT ![c.i] = faceobjects[c.j], ![c.j] = faceobjects[c.i]]
    /\ Becomes(c, {[c EXCEPT !.pc = LoopTest(c.i, c.j)]})
Swap_Copies(c) ==
    /\ c.pc = "swap" /\ c.i <= c.j
    /\ faceobjects' = [faceobjects EXCEPT ![c.i] = faceobjects[c.j]]
    /\ Becomes(c, {[c EXCEPT !.i = @ + 1, !.j = @ - 1, !.pc = LoopTest(c.i + 1, c.j - 1)]})

Swap(c) ==
    /\ c.pc = "swap" /\ c.i <= c.j
    /\ faceobjects' = [faceobjects EXCEPT ![c.i] = faceobjects[c.j], ![c.j] = faceobjects[c.i]]
    /\ Becomes(c, {[c EXCEPT !.i = @ + 1, !.j = @ - 1, !.pc = LoopTest(c.i + 1, c.j - 1)]})

Crossed(c) ==
    /\ c.pc = "swap" /\ c.i > c.j
    /\ Becomes(c, {[c EXCEPT !.pc = "split"]})
    /\ UNCHANGED faceobjects

\* The two sections.
Section(l, r) == IF l < r THEN {NewCall(faceobjects, l, r)} ELSE {}

\* Slips: ranges that share an element; the second half forgotten.
Split_Overlaps(c) ==
    /\ c.pc = "split"
    /\ Becomes(c, Section(c.left, c.j) \cup Section(c.i - 1, c.right))
    /\ UNCHANGED faceobjects
Split_OneHalf(c) ==
    /\ c.pc = "split" /\ Becomes(c, Section(c.left, c.j)) /\ UNCHANGED faceobjects

Split(c) ==
    /\ c.pc = "split"
    /\ Becomes(c, Section(c.left, c.j) \cup Section(c.i, c.right))
    /\ UNCHANGED faceobjects

SortStep == \E c \in calls : ScanI(c) \/ ScanJ(c) \/ Swap(c) \/ Crossed(c) \/ Split(c)
Returned == calls = {} /\ UNCHANGED sortVars

SortNext == SortStep \/ Returned

SortSpec == SortInit /\ [][SortNext]_sortVars

\* Every OpenMP thread is scheduled.
FairSort == SortSpec /\ WF_sortVars(SortStep)

-----------------------------------------------------------------------------
(* Properties.                                                             *)

\* The scans have no bound of their own, yet they stay inside the range of
\* their call: the pivot, and later what has been swapped, stops them.
IndexInRange ==
    \A c \in calls :
        /\ c.pc = "scan_i" => c.i \in c.left..c.right
        /\ c.pc = "scan_j" => c.j \in c.left..c.right
        /\ c.pc = "swap"   => c.i \in c.left..c.right /\ c.j \in c.left..c.right

\* The vector is shared without a lock: no element is in the hands of two
\* calls at a time.
NoRace == \A c, d \in calls : c # d => c.right < d.left \/ d.right < c.left

\* No detection is lost or doubled, whatever the calls have swapped so far.
Permutation == Distinct(faceobjects) /\ Onto(faceobjects)

\* When the outermost call returns, the detections are in descending order.
SortedWhenDone ==
    calls = {} => \A k, m \in Index : k < m => Prob(k) >= Prob(m)

\* The sort comes to an end.
SortEnds == <>(calls = {})

(***************************************************************************)
(* The inductive invariant.  What lies to the left of i is at least the    *)
(* pivot, what lies to the right of j at most; ahead of each scan there is *)
(* an element that stops it; and two elements out of order are in the      *)
(* hands of one call.                                                      *)
(***************************************************************************)
CallInv(c) ==
    /\ c.left <= c.i /\ c.i <= c.right + 1 /\ c.left - 1 <= c.j /\ c.j <= c.right
    /\ \A k \in Index : c.left <= k /\ k < c.i  => Prob(k) >= c.p
    /\ \A k \in Index : c.j < k /\ k <= c.right => Prob(k) <= c.p
    /\ c.pc = "scan_i" => \E k \in Index : c.i <= k /\ k <= c.right /\ Prob(k) <= c.p
    /\ c.pc \in {"scan_i", "scan_j"} =>
          \E k \in Index : c.left <= k /\ k <= c.j /\ Prob(k) >= c.p
    /\ c.pc \in {"scan_j", "swap"} => c.i <= c.right /\ Prob(c.i) <= c.p
    /\ c.pc = "swap" => c.left <= c.j /\ Prob(c.j) >= c.p
    /\ c.pc = "split" => c.i > c.j

OrderInv ==
    \A k, m \in Index :
        k < m => \/ Prob(k) >= Prob(m)
                 \/ \E c \in calls : c.left <= k /\ m <= c.right

SortInv ==
    /\ SortTypeOK /\ Permutation /\ NoRace /\ OrderInv
    /\ \A c \in calls : CallInv(c)
=============================================================================
