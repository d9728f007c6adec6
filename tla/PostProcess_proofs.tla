------------------------- MODULE PostProcess_proofs -------------------------
(* Proofs about the two components of the YOLOv5 post-processing: of       *)
(* ParQsort, for every length of the vector, every set of detections and   *)
(* every assignment of confidences; of Detect, for every model of outputs, *)
(* every set of boxes and every overlap relation.                          *)
EXTENDS ParQsort, Detect, TLAPS

------------------------------------------------------------------------------
(* The parallel quicksort.                                                 *)
(* What a call looks like when its section starts.                         *)
LEMMA NewCallInv ==
    ASSUME faceobjects \in [Index -> Objects], NEW l \in Index, NEW r \in Index, l <= r
    PROVE  /\ NewCall(faceobjects, l, r) \in Call
           /\ CallInv(NewCall(faceobjects, l, r))
<1> DEFINE m == (l + r) \div 2
           c == NewCall(faceobjects, l, r)
<1>1. /\ m \in Index /\ l <= m /\ m <= r
      /\ Conf[faceobjects[m]] \in Int
  BY SortAssumption DEF Index
<1>2. /\ c.left = l /\ c.right = r /\ c.i = l /\ c.j = r
      /\ c.p = Prob(m) /\ c.pc = "scan_i"
  BY DEF NewCall, Prob
<1>3. c \in Call
  BY <1>1, SortAssumption DEF NewCall, Call, Index
<1>4. CallInv(c)
  <2> HIDE DEF c, m
  <2>1. Prob(m) \in Int
    BY <1>1 DEF Prob
  <2> QED BY <1>1, <1>2, <2>1 DEF CallInv, Index
<1> QED BY <1>3, <1>4

(* The initial vector is in one call's hands, or empty.                    *)
LEMMA SortInitInv == SortInit => SortInv
<1> SUFFICES ASSUME SortInit PROVE SortInv
  OBVIOUS
<1>1. faceobjects \in [Index -> Objects] /\ Permutation
  BY DEF SortInit, Permutation
<1>2. CASE N = 0
  <2>1. Index = {} /\ calls = {}
    BY <1>2 DEF SortInit, Index
  <2> QED BY <1>1, <2>1 DEF SortInv, SortTypeOK, NoRace, OrderInv
<1>3. CASE N # 0
  <2> DEFINE c == NewCall(faceobjects, 0, N - 1)
  <2>1. 0 \in Index /\ N - 1 \in Index /\ 0 <= N - 1 /\ calls = {c}
    BY <1>3, SortAssumption DEF SortInit, Index
  <2>2. c \in Call /\ CallInv(c)
    BY <1>1, <2>1, NewCallInv
  <2>3. c.left = 0 /\ c.right = N - 1
    BY DEF NewCall
  <2> HIDE DEF c
  <2>4. OrderInv
    BY <2>1, <2>3, SortAssumption DEF OrderInv, Index
  <2> QED BY <1>1, <2>1, <2>2, <2>4 DEF SortInv, SortTypeOK, NoRace
<1> QED BY <1>2, <1>3

(* A call that goes on with the same range, the vector untouched.          *)
LEMMA Continue ==
    ASSUME SortInv, NEW c \in calls, NEW d \in Call,
           d.left = c.left, d.right = c.right, CallInv(d),
           Becomes(c, {d}), UNCHANGED faceobjects
    PROVE  SortInv'
<1>1. calls' = (calls \ {c}) \cup {d}
  BY DEF Becomes
<1>2. SortTypeOK'
  BY <1>1 DEF SortInv, SortTypeOK
<1>3. Permutation'
  BY DEF SortInv, Permutation, Distinct, Onto
<1>4. NoRace'
  BY <1>1 DEF SortInv, NoRace
<1>5. \A k : Prob(k)' = Prob(k)
  BY DEF Prob
<1>6. OrderInv'
  BY <1>1, <1>5 DEF SortInv, OrderInv
<1>7. \A e \in calls' : CallInv(e)'
  BY <1>1, <1>5 DEF SortInv, CallInv
<1> QED BY <1>2, <1>3, <1>4, <1>6, <1>7 DEF SortInv

(* Confidences are integers, whatever the arrangement.                     *)
LEMMA ProbInt == SortTypeOK => \A k \in Index : Prob(k) \in Int
BY SortAssumption DEF SortTypeOK, Prob

(* A step of the left scan.                                                *)
LEMMA ScanIStep ==
    ASSUME SortInv, NEW c \in calls, ScanI(c)
    PROVE  SortInv'
<1>1. c \in Call /\ CallInv(c) /\ c.pc = "scan_i" /\ UNCHANGED faceobjects
  BY DEF SortInv, SortTypeOK, ScanI
<1>2. /\ c.left \in Index /\ c.right \in Index /\ c.i \in 0..N /\ c.j \in -1..(N - 1) /\ c.p \in Int
      /\ c.left <= c.i /\ c.i <= c.right /\ c.i \in Index
  BY <1>1, SortAssumption DEF CallInv, Call, Index
<1>3. \A k \in Index : Prob(k) \in Int
  BY ProbInt DEF SortInv
<1>4. CASE Prob(c.i) > c.p
  <2> DEFINE d == [c EXCEPT !.i = @ + 1]
  <2>1. Becomes(c, {d})
    BY <1>4 DEF ScanI
  <2>2. /\ d.left = c.left /\ d.right = c.right /\ d.i = c.i + 1 /\ d.j = c.j
        /\ d.p = c.p /\ d.pc = "scan_i"
    BY <1>1 DEF Call
  <2>3. d \in Call
    BY <1>1, <1>2, SortAssumption DEF Call, Index
  <2> HIDE DEF d
  <2>4. \A k \in Index : d.left <= k /\ k < d.i => Prob(k) >= d.p
    BY <1>1, <1>2, <1>3, <1>4, <2>2 DEF CallInv, Index
  <2>5. \E k \in Index : d.i <= k /\ k <= d.right /\ Prob(k) <= d.p
    BY <1>1, <1>2, <1>3, <1>4, <2>2 DEF CallInv, Index
  <2>6. d.left <= d.i /\ d.i <= d.right + 1 /\ d.left - 1 <= d.j /\ d.j <= d.right
    BY <1>1, <1>2, <2>2 DEF CallInv, Index
  <2>7. CallInv(d)
    BY <1>1, <1>2, <2>2, <2>4, <2>5, <2>6 DEF CallInv
  <2> QED BY <1>1, <2>1, <2>2, <2>3, <2>7, Continue
<1>5. CASE ~(Prob(c.i) > c.p)
  <2> DEFINE d == [c EXCEPT !.pc = "scan_j"]
  <2>1. Becomes(c, {d})
    BY <1>5 DEF ScanI
  <2>2. /\ d.left = c.left /\ d.right = c.right /\ d.i = c.i /\ d.j = c.j
        /\ d.p = c.p /\ d.pc = "scan_j"
    BY <1>1 DEF Call
  <2>3. d \in Call
    BY <1>1 DEF Call
  <2> HIDE DEF d
  <2>4. CallInv(d)
    BY <1>1, <1>2, <1>3, <1>5, <2>2 DEF CallInv
  <2> QED BY <1>1, <2>1, <2>2, <2>3, <2>4, Continue
<1> QED BY <1>4, <1>5

(* A step of the right scan.                                               *)
LEMMA ScanJStep ==
    ASSUME SortInv, NEW c \in calls, ScanJ(c)
    PROVE  SortInv'
<1>1. c \in Call /\ CallInv(c) /\ c.pc = "scan_j" /\ UNCHANGED faceobjects
  BY DEF SortInv, SortTypeOK, ScanJ
<1>2. /\ c.left \in Index /\ c.right \in Index /\ c.i \in 0..N /\ c.j \in -1..(N - 1) /\ c.p \in Int
      /\ c.left <= c.j /\ c.j <= c.right /\ c.j \in Index
  BY <1>1, SortAssumption DEF CallInv, Call, Index
<1>3. \A k \in Index : Prob(k) \in Int
  BY ProbInt DEF SortInv
<1>4. CASE Prob(c.j) < c.p
  <2> DEFINE d == [c EXCEPT !.j = @ - 1]
  <2>1. Becomes(c, {d})
    BY <1>4 DEF ScanJ
  <2>2. /\ d.left = c.left /\ d.right = c.right /\ d.i = c.i /\ d.j = c.j - 1
        /\ d.p = c.p /\ d.pc = "scan_j"
    BY <1>1 DEF Call
  <2>3. d \in Call
    BY <1>1, <1>2, SortAssumption DEF Call, Index
  <2> HIDE DEF d
  <2>4. \A k \in Index : d.j < k /\ k <= d.right => Prob(k) <= d.p
    BY <1>1, <1>2, <1>3, <1>4, <2>2 DEF CallInv, Index
  <2>5. \E k \in Index : d.left <= k /\ k <= d.j /\ Prob(k) >= d.p
    BY <1>1, <1>2, <1>3, <1>4, <2>2 DEF CallInv, Index
  <2>6. d.left <= d.i /\ d.i <= d.right + 1 /\ d.left - 1 <= d.j /\ d.j <= d.right
    BY <1>1, <1>2, <2>2 DEF CallInv, Index
  <2>7. CallInv(d)
    BY <1>1, <1>2, <2>2, <2>4, <2>5, <2>6 DEF CallInv
  <2> QED BY <1>1, <2>1, <2>2, <2>3, <2>7, Continue
<1>5. CASE ~(Prob(c.j) < c.p)
  <2> DEFINE d == [c EXCEPT !.pc = "swap"]
  <2>1. Becomes(c, {d})
    BY <1>5 DEF ScanJ
  <2>2. /\ d.left = c.left /\ d.right = c.right /\ d.i = c.i /\ d.j = c.j
        /\ d.p = c.p /\ d.pc = "swap"
    BY <1>1 DEF Call
  <2>3. d \in Call
    BY <1>1 DEF Call
  <2> HIDE DEF d
  <2>4. CallInv(d)
    BY <1>1, <1>2, <1>3, <1>5, <2>2 DEF CallInv
  <2> QED BY <1>1, <2>1, <2>2, <2>3, <2>4, Continue
<1> QED BY <1>4, <1>5

(* The indexes have crossed.                                               *)
LEMMA CrossedStep ==
    ASSUME SortInv, NEW c \in calls, Crossed(c)
    PROVE  SortInv'
<1> DEFINE d == [c EXCEPT !.pc = "split"]
<1>1. c \in Call /\ CallInv(c) /\ c.pc = "swap" /\ c.i > c.j
  BY DEF SortInv, SortTypeOK, Crossed
<1>2. /\ d.left = c.left /\ d.right = c.right /\ d.i = c.i /\ d.j = c.j
      /\ d.p = c.p /\ d.pc = "split" /\ d \in Call
  BY <1>1 DEF Call
<1>3. Becomes(c, {d}) /\ UNCHANGED faceobjects
  BY DEF Crossed
<1> HIDE DEF d
<1>4. CallInv(d)
  BY <1>1, <1>2 DEF CallInv
<1> QED BY <1>2, <1>3, <1>4, Continue

(* The swap, and the step of both indexes.                                 *)
LEMMA SwapStep ==
    ASSUME SortInv, NEW c \in calls, Swap(c)
    PROVE  SortInv'
<1> DEFINE d == [c EXCEPT !.i = @ + 1, !.j = @ - 1, !.pc = LoopTest(c.i + 1, c.j - 1)]
<1>1. /\ c \in Call /\ CallInv(c) /\ c.pc = "swap" /\ c.i <= c.j
      /\ calls' = (calls \ {c}) \cup {d}
  BY DEF SortInv, SortTypeOK, Swap, Becomes
<1>2. /\ c.left \in Index /\ c.right \in Index /\ c.p \in Int
      /\ c.i \in Index /\ c.j \in Index /\ c.left <= c.i /\ c.j <= c.right
  BY <1>1, SortAssumption DEF CallInv, Call, Index
<1>3. \A k \in Index : Prob(k) \in Int
  BY ProbInt DEF SortInv
<1>4. /\ d.left = c.left /\ d.right = c.right /\ d.i = c.i + 1 /\ d.j = c.j - 1
      /\ d.p = c.p /\ d.pc = LoopTest(c.i + 1, c.j - 1)
  BY <1>1 DEF Call
<1>5. d \in Call
  <2>1. c.i + 1 \in 0..N /\ c.j - 1 \in -1..(N - 1)
    BY <1>2, SortAssumption DEF Index
  <2>2. LoopTest(c.i + 1, c.j - 1) \in {"scan_i", "scan_j", "swap", "split"}
    BY DEF LoopTest
  <2> QED BY <1>1, <1>2, <2>1, <2>2 DEF Call
<1>6. /\ faceobjects \in [Index -> Objects]
      /\ faceobjects' = [faceobjects EXCEPT ![c.i] = faceobjects[c.j], ![c.j] = faceobjects[c.i]]
  BY DEF SortInv, SortTypeOK, Swap
<1> HIDE DEF d
<1>7. /\ faceobjects' \in [Index -> Objects]
      /\ faceobjects'[c.i] = faceobjects[c.j] /\ faceobjects'[c.j] = faceobjects[c.i]
      /\ \A k \in Index : k # c.i /\ k # c.j => faceobjects'[k] = faceobjects[k]
  BY <1>2, <1>6
<1>8. /\ Prob(c.i)' = Prob(c.j) /\ Prob(c.j)' = Prob(c.i)
      /\ \A k \in Index : k # c.i /\ k # c.j => Prob(k)' = Prob(k)
  BY <1>2, <1>7 DEF Prob
<1>9. SortTypeOK'
  BY <1>1, <1>5, <1>7 DEF SortInv, SortTypeOK
<1>10. Permutation'
  <2>1. DOMAIN faceobjects = Index /\ DOMAIN faceobjects' = Index
    BY <1>6, <1>7
  <2>2. Distinct(faceobjects)'
    BY <1>2, <1>7, <2>1 DEF SortInv, Permutation, Distinct
  <2>3. Onto(faceobjects)'
    BY <1>2, <1>7, <2>1 DEF SortInv, Permutation, Onto
  <2> QED BY <2>2, <2>3 DEF Permutation
<1>11. NoRace'
  BY <1>1, <1>4 DEF SortInv, NoRace
<1>12. OrderInv'
  <2> SUFFICES ASSUME NEW k \in Index, NEW m \in Index, k < m
               PROVE  \/ Prob(k)' >= Prob(m)'
                      \/ \E e \in calls' : e.left <= k /\ m <= e.right
    BY DEF OrderInv, Index
  <2> DEFINE InC(x) == c.left <= x /\ x <= c.right
  <2>1. CASE InC(k) /\ InC(m)
    BY <1>1, <1>4, <2>1
  <2>2. CASE ~InC(k) /\ ~InC(m)
    <3>1. Prob(k)' = Prob(k) /\ Prob(m)' = Prob(m)
      BY <1>1, <1>2, <1>8, <2>2 DEF Index
    <3>2. CASE Prob(k) >= Prob(m)
      BY <3>1, <3>2
    <3>3. CASE \E e \in calls : e.left <= k /\ m <= e.right
      BY <1>1, <1>4, <3>3
    <3> QED BY <3>2, <3>3 DEF SortInv, OrderInv
  <2>3. CASE InC(k) /\ ~InC(m)
    <3>1. m > c.right
      BY <1>2, <2>3 DEF Index
    <3>2. ASSUME NEW e \in calls, NEW x \in Index, InC(x), e.left <= x, m <= e.right
          PROVE  FALSE
      <4>1. e.left \in Int /\ e.right \in Int /\ c.left \in Int /\ c.right \in Int
        BY <1>1, <1>2 DEF SortInv, SortTypeOK, Call, Index
      <4>2. CASE e = c
        BY <3>1, <3>2, <4>1, <4>2 DEF Index
      <4>3. CASE e # c
        <5>1. e.right < c.left \/ c.right < e.left
          BY <1>1, <4>3 DEF SortInv, NoRace
        <5> QED BY <3>1, <3>2, <4>1, <5>1 DEF Index
      <4> QED BY <4>2, <4>3
    <3>3. \A x \in Index : InC(x) => Prob(x) >= Prob(m)
      BY <1>2, <3>1, <3>2 DEF SortInv, OrderInv, Index
    <3>4. Prob(m)' = Prob(m)
      BY <1>1, <1>2, <1>8, <3>1 DEF Index
    <3>5. \E x \in Index : InC(x) /\ Prob(k)' = Prob(x)
      BY <1>1, <1>2, <1>8, <2>3 DEF Index
    <3> QED BY <3>3, <3>4, <3>5
  <2>4. CASE ~InC(k) /\ InC(m)
    <3>1. k < c.left
      BY <1>2, <2>4 DEF Index
    <3>2. ASSUME NEW e \in calls, NEW x \in Index, InC(x), e.left <= k, x <= e.right
          PROVE  FALSE
      <4>1. e.left \in Int /\ e.right \in Int /\ c.left \in Int /\ c.right \in Int
        BY <1>1, <1>2 DEF SortInv, SortTypeOK, Call, Index
      <4>2. CASE e = c
        BY <3>1, <3>2, <4>1, <4>2 DEF Index
      <4>3. CASE e # c
        <5>1. e.right < c.left \/ c.right < e.left
          BY <1>1, <4>3 DEF SortInv, NoRace
        <5> QED BY <3>1, <3>2, <4>1, <5>1 DEF Index
      <4> QED BY <4>2, <4>3
    <3>3. \A x \in Index : InC(x) => Prob(k) >= Prob(x)
      BY <1>2, <3>1, <3>2 DEF SortInv, OrderInv, Index
    <3>4. Prob(k)' = Prob(k)
      BY <1>1, <1>2, <1>8, <3>1 DEF Index
    <3>5. \E x \in Index : InC(x) /\ Prob(m)' = Prob(x)
      BY <1>1, <1>2, <1>8, <2>4 DEF Index
    <3> QED BY <3>3, <3>4, <3>5
  <2> QED BY <2>1, <2>2, <2>3, <2>4
<1>13. CallInv(d)'
  <2>0. d.left <= d.i /\ d.i <= d.right + 1 /\ d.left - 1 <= d.j /\ d.j <= d.right
    BY <1>1, <1>2, <1>4 DEF CallInv, Index
  <2>1. \A k \in Index : d.left <= k /\ k < d.i => Prob(k)' >= d.p
    BY <1>1, <1>2, <1>3, <1>4, <1>8 DEF CallInv, Index
  <2>2. \A k \in Index : d.j < k /\ k <= d.right => Prob(k)' <= d.p
    BY <1>1, <1>2, <1>3, <1>4, <1>8 DEF CallInv, Index
  <2>3. CASE c.i + 1 <= c.j - 1
    <3>1. d.pc = "scan_i" /\ d.i <= c.j /\ c.i <= d.j
      BY <1>2, <1>4, <2>3 DEF LoopTest, Index
    <3>2. Prob(c.j)' <= d.p /\ Prob(c.i)' >= d.p
      BY <1>1, <1>4, <1>8 DEF CallInv
    <3>3. d.left <= c.i /\ c.j <= d.right
      BY <1>2, <1>4 DEF Index
    <3> QED BY <1>2, <2>0, <2>1, <2>2, <3>1, <3>2, <3>3 DEF CallInv
  <2>4. CASE ~(c.i + 1 <= c.j - 1)
    <3>1. d.pc = "split" /\ d.i > d.j
      BY <1>2, <1>4, <2>4 DEF LoopTest, Index
    <3> QED BY <2>0, <2>1, <2>2, <3>1 DEF CallInv
  <2> QED BY <2>3, <2>4
<1>14. ASSUME NEW e \in calls, e # c
       PROVE  CallInv(e)'
  <2>1. /\ CallInv(e) /\ e.left \in Index /\ e.right \in Index
        /\ e.i \in 0..N /\ e.j \in -1..(N - 1)
    BY DEF SortInv, SortTypeOK, Call
  <2>2. c.right < e.left \/ e.right < c.left
    BY <1>14 DEF SortInv, NoRace
  <2>3. \A k \in Index : e.left <= k /\ k <= e.right => Prob(k)' = Prob(k)
    BY <1>1, <1>2, <1>8, <2>1, <2>2 DEF Index
  <2>4. /\ \A k \in Index : e.left <= k /\ k < e.i  => k <= e.right
        /\ \A k \in Index : e.j < k /\ k <= e.right => e.left <= k
    BY <2>1 DEF CallInv, Index
  <2>5. /\ e.pc \in {"scan_j", "swap"} => e.i \in Index /\ e.left <= e.i /\ e.i <= e.right
        /\ e.pc = "swap" => e.j \in Index /\ e.left <= e.j /\ e.j <= e.right
    BY <2>1, SortAssumption DEF CallInv, Index
  <2>6. /\ \A k \in Index : e.left <= k /\ k < e.i  => Prob(k)' >= e.p
        /\ \A k \in Index : e.j < k /\ k <= e.right => Prob(k)' <= e.p
    BY <2>1, <2>3, <2>4 DEF CallInv
  <2>7. /\ e.pc = "scan_i" => \E k \in Index : e.i <= k /\ k <= e.right /\ Prob(k)' <= e.p
        /\ e.pc \in {"scan_i", "scan_j"} =>
              \E k \in Index : e.left <= k /\ k <= e.j /\ Prob(k)' >= e.p
    BY <2>1, <2>3 DEF CallInv, Index
  <2>8. /\ e.pc \in {"scan_j", "swap"} => Prob(e.i)' <= e.p
        /\ e.pc = "swap" => Prob(e.j)' >= e.p
    BY <2>1, <2>3, <2>5 DEF CallInv
  <2> QED BY <2>1, <2>5, <2>6, <2>7, <2>8 DEF CallInv
<1> QED BY <1>1, <1>9, <1>10, <1>11, <1>12, <1>13, <1>14 DEF SortInv

(* The sections that replace a partitioned call.                           *)
LEMMA SplitStep ==
    ASSUME SortInv, NEW c \in calls, Split(c)
    PROVE  SortInv'
<1>1. /\ c \in Call /\ CallInv(c) /\ c.pc = "split" /\ faceobjects' = faceobjects
      /\ calls' = (calls \ {c}) \cup (Section(c.left, c.j) \cup Section(c.i, c.right))
  BY DEF SortInv, SortTypeOK, Split, Becomes
<1>2. /\ c.left \in Index /\ c.right \in Index /\ c.p \in Int
      /\ c.i \in 0..N /\ c.j \in -1..(N - 1) /\ c.i > c.j
      /\ c.left <= c.i /\ c.j <= c.right
  BY <1>1 DEF CallInv, Call
<1>3. faceobjects \in [Index -> Objects]
  BY DEF SortInv, SortTypeOK
<1>4. \A k : Prob(k)' = Prob(k)
  BY <1>1 DEF Prob
<1>5. ASSUME NEW l \in Int, NEW r \in Int, c.left <= l, r <= c.right, NEW d \in Section(l, r)
      PROVE  /\ d \in Call /\ CallInv(d) /\ CallInv(d)' /\ d.left = l /\ d.right = r
             /\ l < r
  <2>1. l < r /\ d = NewCall(faceobjects, l, r)
    BY <1>5 DEF Section
  <2>2. l \in Index /\ r \in Index /\ l <= r
    BY <1>2, <1>5, <2>1, SortAssumption DEF Index
  <2>3. d \in Call /\ CallInv(d)
    BY <1>3, <2>1, <2>2, NewCallInv
  <2>4. d.left = l /\ d.right = r
    BY <2>1 DEF NewCall
  <2>5. CallInv(d)'
    BY <1>4, <2>3 DEF CallInv
  <2> QED BY <2>1, <2>3, <2>4, <2>5
<1>6. ASSUME NEW d \in Section(c.left, c.j)
      PROVE  /\ d \in Call /\ CallInv(d)' /\ d.left = c.left /\ d.right = c.j /\ c.left < c.j
  <2>1. c.left \in Int /\ c.j \in Int /\ c.left <= c.left /\ c.j <= c.right
    BY <1>2 DEF Index
  <2> QED BY <1>5, <1>6, <2>1
<1>7. ASSUME NEW d \in Section(c.i, c.right)
      PROVE  /\ d \in Call /\ CallInv(d)' /\ d.left = c.i /\ d.right = c.right /\ c.i < c.right
  <2>1. c.i \in Int /\ c.right \in Int /\ c.left <= c.i /\ c.right <= c.right
    BY <1>2 DEF Index
  <2> QED BY <1>5, <1>7, <2>1
<1>8. SortTypeOK'
  BY <1>1, <1>6, <1>7 DEF SortInv, SortTypeOK
<1>9. Permutation'
  BY <1>1 DEF SortInv, Permutation, Distinct, Onto
<1>10. NoRace'
  <2> SUFFICES ASSUME NEW d \in calls', NEW e \in calls', d # e
               PROVE  d.right < e.left \/ e.right < d.left
    BY DEF NoRace
  <2>1. \A x \in Section(c.left, c.j) \cup Section(c.i, c.right) :
           c.left <= x.left /\ x.right <= c.right /\ x.left \in Int /\ x.right \in Int
    BY <1>2, <1>6, <1>7 DEF Index
  <2>2. \A x \in calls \ {c} : /\ c.right < x.left \/ x.right < c.left
                             /\ x.left \in Int /\ x.right \in Int
    BY DEF SortInv, NoRace, SortTypeOK, Call, Index
  <2>3. \A x, y \in Section(c.left, c.j) : x = y
    BY DEF Section
  <2>4. \A x, y \in Section(c.i, c.right) : x = y
    BY DEF Section
  <2>5. \A x \in Section(c.left, c.j), y \in Section(c.i, c.right) : x.right < y.left
    BY <1>2, <1>6, <1>7
  <2>6. CASE d \in calls \ {c} /\ e \in calls \ {c}
    BY <2>6 DEF SortInv, NoRace
  <2>7. CASE d \in calls \ {c} /\ e \notin calls \ {c}
    BY <1>1, <1>2, <2>1, <2>2, <2>7 DEF Index
  <2>8. CASE d \notin calls \ {c} /\ e \in calls \ {c}
    BY <1>1, <1>2, <2>1, <2>2, <2>8 DEF Index
  <2>9. CASE d \notin calls \ {c} /\ e \notin calls \ {c}
    BY <1>1, <2>3, <2>4, <2>5, <2>9
  <2> QED BY <2>6, <2>7, <2>8, <2>9
<1>11. OrderInv'
  <2> SUFFICES ASSUME NEW k \in Index, NEW m \in Index, k < m,
                      ~(Prob(k) >= Prob(m))
               PROVE  \E e \in calls' : e.left <= k /\ m <= e.right
    BY <1>4 DEF OrderInv
  <2>1. PICK e \in calls : e.left <= k /\ m <= e.right
    BY DEF SortInv, OrderInv
  <2>2. CASE e # c
    BY <1>1, <2>1, <2>2
  <2>3. CASE e = c
    <3>1. Prob(k) \in Int /\ Prob(m) \in Int
      BY ProbInt DEF SortInv
    <3>2. c.left <= k /\ m <= c.right
      BY <2>1, <2>3
    <3>3. (k < c.i => Prob(k) >= c.p) /\ (c.j < m => Prob(m) <= c.p)
      BY <1>1, <3>2 DEF CallInv
    <3>4. m <= c.j \/ c.i <= k
      BY <1>2, <3>1, <3>3 DEF Index
    <3>5. CASE m <= c.j
      <4>1. NewCall(faceobjects, c.left, c.j) \in Section(c.left, c.j)
        BY <1>2, <3>2, <3>5 DEF Section, Index
      <4> QED BY <1>1, <1>6, <3>2, <3>5, <4>1
    <3>6. CASE c.i <= k
      <4>1. NewCall(faceobjects, c.i, c.right) \in Section(c.i, c.right)
        BY <1>2, <3>2, <3>6 DEF Section, Index
      <4> QED BY <1>1, <1>7, <3>2, <3>6, <4>1
    <3> QED BY <3>4, <3>5, <3>6
  <2> QED BY <2>2, <2>3
<1>12. \A e \in calls' : CallInv(e)'
  <2>1. \A e \in calls : CallInv(e)'
    BY <1>4 DEF SortInv, CallInv
  <2> QED BY <1>1, <1>6, <1>7, <2>1
<1> QED BY <1>8, <1>9, <1>10, <1>11, <1>12 DEF SortInv

(* A stuttering step, or the return of the outermost call.                 *)
LEMMA SortStutter == SortInv /\ UNCHANGED sortVars => SortInv'
<1> SUFFICES ASSUME SortInv, UNCHANGED sortVars PROVE SortInv'
  OBVIOUS
<1>1. faceobjects' = faceobjects /\ calls' = calls
  BY DEF sortVars
<1>2. \A k : Prob(k)' = Prob(k)
  BY <1>1 DEF Prob
<1>3. \A e \in calls : CallInv(e)'
  BY <1>2 DEF SortInv, CallInv
<1> QED BY <1>1, <1>2, <1>3 DEF SortInv, SortTypeOK, Permutation, Distinct, Onto, NoRace, OrderInv

(***************************************************************************)
(* The parallel sort keeps its invariant, whatever the schedule of the     *)
(* sections and whatever the length of the vector.                         *)
(***************************************************************************)
THEOREM SortInvariance == SortSpec => []SortInv
<1>1. SortInv /\ [SortNext]_sortVars => SortInv'
  <2> SUFFICES ASSUME SortInv, SortNext PROVE SortInv'
    BY SortStutter
  <2>1. CASE SortStep
    BY <2>1, ScanIStep, ScanJStep, SwapStep, CrossedStep, SplitStep DEF SortStep
  <2>2. CASE Returned
    BY <2>2, SortStutter DEF Returned
  <2> QED BY <2>1, <2>2 DEF SortNext
<1> QED BY <1>1, SortInitInv, PTL DEF SortSpec

(* The vector and the local variables of every call keep their types: no   *)
(* index is read or written outside the vector.                            *)
THEOREM SortTypes == SortSpec => []SortTypeOK
<1>1. SortInv => SortTypeOK
  BY DEF SortInv
<1> QED BY <1>1, SortInvariance, PTL

(* The unbounded scans never leave the range of their call.                *)
THEOREM ScansStayInside == SortSpec => []IndexInRange
<1>1. SortInv => IndexInRange
  BY SortAssumption DEF SortInv, SortTypeOK, IndexInRange, CallInv, Call, Index
<1> QED BY <1>1, SortInvariance, PTL

(* Two sections that run at the same time never touch the same detection.  *)
THEOREM SectionsDisjoint == SortSpec => []NoRace
<1>1. SortInv => NoRace
  BY DEF SortInv
<1> QED BY <1>1, SortInvariance, PTL

(* The vector always holds each detection exactly once.                    *)
THEOREM KeepsDetections == SortSpec => []Permutation
<1>1. SortInv => Permutation
  BY DEF SortInv
<1> QED BY <1>1, SortInvariance, PTL

(* When the sort returns the detections are in descending order.           *)
THEOREM SortsDescending == SortSpec => []SortedWhenDone
<1>1. SortInv => SortedWhenDone
  BY DEF SortInv, SortedWhenDone, OrderInv
<1> QED BY <1>1, SortInvariance, PTL

------------------------------------------------------------------------------
(* From the outputs of the model to the report.                            *)
(* What is picked by one step of the suppression.                          *)
LEMMA AppendFacts ==
    ASSUME NEW S, NEW s \in Seq(S), NEW a \in S
    PROVE  /\ Append(s, a) \in Seq(S)
           /\ DOMAIN s = 1..Len(s)
           /\ DOMAIN Append(s, a) = 1..(Len(s) + 1)
           /\ Append(s, a)[Len(s) + 1] = a
           /\ \A k \in 1..Len(s) : Append(s, a)[k] = s[k]
           /\ Len(s) \in Nat
OBVIOUS

(* map_confidence keeps the order of the confidences the heads can give.   *)
LEMMA MapMonotone ==
    \A p, q \in Probs : p >= q => map_confidence(p) >= map_confidence(q)
BY DetectAssumption DEF map_confidence

(* Taking the next proposal.                                               *)
LEMMA NmsStep == DetectInv /\ Nms => DetectInv'
<1> SUFFICES ASSUME DetectInv, Nms PROVE DetectInv'
  OBVIOUS
<1>1. /\ pc = "nms" /\ pc' = "nms" /\ frame' = frame /\ out' = out /\ seen' = seen
      /\ proposals' = proposals /\ objects' = objects
  BY DEF Nms
<1>2. PICK a \in Best(todo) :
         /\ todo' = todo \ {a}
         /\ picked' = IF \E k \in DOMAIN picked : Suppresses(picked[k], a)
                      THEN picked ELSE Append(picked, a)
  BY DEF Nms
<1>3. /\ todo \subseteq proposals /\ proposals \subseteq Object /\ picked \in Seq(Object)
      /\ a \in todo /\ a \in Object /\ \A b \in todo : a.prob >= b.prob
      /\ \A b \in Object : b.prob \in Nat
  BY <1>1, <1>2, DetectAssumption DEF DetectInv, DetectTypeOK, NmsInv, Best, Object
<1>4. /\ DOMAIN picked = 1..Len(picked) /\ Len(picked) \in Nat
      /\ \A k \in DOMAIN picked : picked[k] \in Object
  BY <1>3
<1>5. FreshInv' /\ KeptApart'
  BY <1>1 DEF DetectInv, FreshInv, KeptApart
<1>6. CASE \E k \in DOMAIN picked : Suppresses(picked[k], a)
  <2>1. picked' = picked
    BY <1>2, <1>6
  <2>2. DetectTypeOK' /\ PickedInv'
    BY <1>1, <1>2, <1>3, <2>1 DEF DetectInv, DetectTypeOK, PickedInv
  <2>3. KeptFor(a)
    BY <1>1, <1>3, <1>6 DEF DetectInv, NmsInv, KeptFor
  <2>4. \A b \in proposals : b \in todo' \/ KeptFor(b)'
    BY <1>1, <1>2, <2>1, <2>3 DEF DetectInv, NmsInv, KeptFor
  <2>5. NmsInv'
    BY <1>1, <1>2, <2>1, <2>4 DEF DetectInv, NmsInv
  <2> QED BY <1>1, <1>5, <2>2, <2>5 DEF DetectInv
<1>7. CASE ~ \E k \in DOMAIN picked : Suppresses(picked[k], a)
  <2>1. picked' = Append(picked, a)
    BY <1>2, <1>7
  <2>2. /\ picked' \in Seq(Object) /\ DOMAIN picked' = 1..(Len(picked) + 1)
        /\ picked'[Len(picked) + 1] = a
        /\ \A k \in 1..Len(picked) : picked'[k] = picked[k]
    BY <1>3, <2>1, AppendFacts
  <2> HIDE <2>1
  <2>3. DetectTypeOK'
    BY <1>1, <1>2, <1>3, <2>2 DEF DetectInv, DetectTypeOK
  <2>4. PickedInv'
    <3> SUFFICES ASSUME NEW k \in DOMAIN picked', NEW m \in DOMAIN picked', k < m
                 PROVE  ~Suppresses(picked'[k], picked'[m]) /\ picked'[k].prob >= picked'[m].prob
      BY DEF PickedInv
    <3>1. k \in 1..Len(picked) /\ picked'[k] = picked[k]
      BY <1>4, <2>2
    <3>2. CASE m \in 1..Len(picked)
      BY <1>4, <2>2, <3>1, <3>2 DEF DetectInv, PickedInv
    <3>3. CASE m = Len(picked) + 1
      BY <1>1, <1>3, <1>4, <1>7, <2>2, <3>1, <3>3 DEF DetectInv, NmsInv
    <3> QED BY <1>4, <2>2, <3>2, <3>3
  <2>5. NmsInv'
    <3>1. \A k \in DOMAIN picked' : picked'[k] \in proposals
      BY <1>1, <1>3, <1>4, <2>2 DEF DetectInv, NmsInv
    <3>2. \A k \in DOMAIN picked', b \in todo' : picked'[k].prob >= b.prob
      BY <1>1, <1>2, <1>3, <1>4, <2>2 DEF DetectInv, NmsInv
    <3>3. \A b \in proposals : KeptFor(b) => KeptFor(b)'
      BY <1>4, <2>2 DEF KeptFor
    <3>4. KeptFor(a)'
      BY <1>4, <2>2 DEF KeptFor
    <3>5. \A b \in proposals : b \in todo' \/ KeptFor(b)'
      BY <1>1, <1>2, <3>3, <3>4 DEF DetectInv, NmsInv
    <3> QED BY <1>1, <1>2, <1>3, <3>1, <3>2, <3>5 DEF NmsInv
  <2> QED BY <1>1, <1>5, <2>3, <2>4, <2>5 DEF DetectInv
<1> QED BY <1>6, <1>7

(* A buffer of head h, with the proposals it adds to those collected.      *)
LEMMA HeadStep ==
    ASSUME DetectInv, NEW h \in {8, 16, 32}, AtHead(h), seen' = seen \cup {h},
           NEW old \in {{}, proposals}, h = 8 => old = {},
           NEW new \in Proposed(h), proposals' = old \cup new,
           Collect \/ Suppress
    PROVE  DetectInv'
<1>1. /\ pc = "output" /\ out <= Len(Outputs) /\ frame' = frame /\ objects' = objects
  BY DEF AtHead
<1>2. /\ proposals \subseteq Object /\ todo \subseteq Object /\ picked \in Seq(Object)
      /\ frame \in 0..MaxFrames /\ out \in 1..(Len(Outputs) + 1)
      /\ seen \subseteq {8, 16, 32} /\ objects \in Seq(Result)
      /\ Len(Outputs) \in Nat /\ MaxFrames \in Nat
  BY DetectAssumption DEF DetectInv, DetectTypeOK
<1>3. frame \in 1..MaxFrames
  BY <1>1, <1>2 DEF DetectInv
<1>4. \A a \in new : a \in Object /\ a.frame = frame /\ a.head = h
  BY <1>3 DEF Proposed, Object
<1>5. proposals' \subseteq Object
  BY <1>2, <1>4
<1>6. FreshInv'
  BY <1>1, <1>4 DEF DetectInv, FreshInv
<1>7. KeptApart'
  BY <1>1 DEF DetectInv, KeptApart
<1>8. CASE Collect
  <2>1. pc' = "output" /\ out' = out + 1 /\ todo' = todo /\ picked' = picked
    BY <1>8 DEF Collect
  <2>2. DetectTypeOK'
    BY <1>1, <1>2, <1>5, <2>1 DEF DetectTypeOK
  <2>3. PickedInv' /\ NmsInv'
    BY <2>1 DEF DetectInv, PickedInv, NmsInv
  <2> QED BY <1>1, <1>3, <1>6, <1>7, <2>1, <2>2, <2>3 DEF DetectInv
<1>9. CASE Suppress
  <2>1. pc' = "nms" /\ out' = out /\ todo' = proposals' /\ picked' = <<>>
    BY <1>9 DEF Suppress
  <2>2. DetectTypeOK'
    BY <1>1, <1>2, <1>5, <2>1 DEF DetectTypeOK
  <2>3. DOMAIN picked' = {}
    BY <2>1
  <2>4. PickedInv' /\ NmsInv'
    BY <2>1, <2>3 DEF PickedInv, NmsInv
  <2> QED BY <1>1, <1>3, <1>6, <1>7, <2>1, <2>2, <2>4 DEF DetectInv
<1> QED BY <1>8, <1>9

(* The other steps.                                                        *)
LEMMA QuietStep ==
    DetectInv /\ (BeginFrame \/ SkipBuffer \/ NmsDone \/ EndFrame \/ UNCHANGED detectVars)
      => DetectInv'
<1> SUFFICES ASSUME DetectInv, BeginFrame \/ SkipBuffer \/ NmsDone \/ EndFrame \/ UNCHANGED detectVars
             PROVE  DetectInv'
  OBVIOUS
<1>1. /\ frame \in 0..MaxFrames /\ out \in 1..(Len(Outputs) + 1) /\ Len(Outputs) \in Nat
      /\ MaxFrames \in Nat
  BY DetectAssumption DEF DetectInv, DetectTypeOK
<1>2. proposals' = proposals /\ todo' = todo /\ picked' = picked /\ objects' = objects
  BY DEF BeginFrame, SkipBuffer, NmsDone, EndFrame, detectVars
<1>3. PickedInv' /\ KeptApart'
  BY <1>2 DEF DetectInv, PickedInv, KeptApart
<1>4. CASE BeginFrame
  <2>1. pc' = "output" /\ frame' = frame + 1 /\ frame < MaxFrames /\ out' = 1 /\ seen' = {}
    BY <1>4 DEF BeginFrame
  <2>2. DetectTypeOK'
    BY <1>1, <1>2, <2>1 DEF DetectInv, DetectTypeOK
  <2>3. NmsInv' /\ FreshInv'
    BY <2>1 DEF NmsInv, FreshInv
  <2> QED BY <1>1, <1>3, <2>1, <2>2, <2>3 DEF DetectInv
<1>5. CASE SkipBuffer
  <2>1. pc' = "output" /\ pc = "output" /\ frame' = frame /\ out <= Len(Outputs) /\ out' = out + 1
        /\ seen' = seen
    BY <1>5 DEF SkipBuffer
  <2>2. DetectTypeOK'
    BY <1>1, <1>2, <2>1 DEF DetectInv, DetectTypeOK
  <2>3. NmsInv' /\ FreshInv'
    BY <1>2, <2>1 DEF DetectInv, NmsInv, FreshInv
  <2> QED BY <1>1, <1>3, <2>1, <2>2, <2>3 DEF DetectInv
<1>6. CASE NmsDone
  <2>1. pc = "nms" /\ pc' = "report" /\ todo = {} /\ frame' = frame /\ out' = out /\ seen' = seen
    BY <1>6 DEF NmsDone
  <2>2. DetectTypeOK'
    BY <1>2, <2>1 DEF DetectInv, DetectTypeOK
  <2>3. NmsInv' /\ FreshInv'
    BY <1>2, <2>1 DEF DetectInv, NmsInv, FreshInv, KeptFor
  <2> QED BY <1>1, <1>3, <2>1, <2>2, <2>3 DEF DetectInv
<1>7. CASE EndFrame
  <2>1. pc' = "frame" /\ frame' = frame /\ out' = out /\ seen' = seen
    BY <1>7 DEF EndFrame
  <2>2. DetectTypeOK'
    BY <1>2, <2>1 DEF DetectInv, DetectTypeOK
  <2>3. NmsInv' /\ FreshInv'
    BY <1>2, <2>1 DEF DetectInv, NmsInv, FreshInv
  <2> QED BY <1>1, <1>3, <2>1, <2>2, <2>3 DEF DetectInv
<1>8. CASE UNCHANGED detectVars
  <2>1. pc' = pc /\ frame' = frame /\ out' = out /\ seen' = seen
    BY <1>8 DEF detectVars
  <2>2. DetectTypeOK'
    BY <1>2, <2>1 DEF DetectInv, DetectTypeOK
  <2>3. NmsInv' /\ FreshInv'
    BY <1>2, <2>1 DEF DetectInv, NmsInv, FreshInv, KeptFor
  <2> QED BY <1>2, <1>3, <2>1, <2>2, <2>3 DEF DetectInv
<1> QED BY <1>4, <1>5, <1>6, <1>7, <1>8

(* A buffer of unexpected length goes straight to the suppression.         *)
LEMMA OtherStep == DetectInv /\ OtherLength => DetectInv'
<1> SUFFICES ASSUME DetectInv, OtherLength PROVE DetectInv'
  OBVIOUS
<1>1. /\ pc = "output" /\ pc' = "nms" /\ out <= Len(Outputs) /\ frame' = frame /\ objects' = objects
      /\ seen' = seen /\ proposals' = proposals /\ out' = out
      /\ todo' = proposals /\ picked' = <<>>
  BY DEF OtherLength, AtHead, Suppress
<1>2. DetectTypeOK'
  BY <1>1 DEF DetectInv, DetectTypeOK
<1>3. DOMAIN picked' = {}
  BY <1>1
<1>4. PickedInv' /\ NmsInv'
  BY <1>1, <1>3 DEF PickedInv, NmsInv
<1>5. FreshInv' /\ KeptApart'
  BY <1>1 DEF DetectInv, FreshInv, KeptApart
<1> QED BY <1>1, <1>2, <1>4, <1>5 DEF DetectInv

(* The report.                                                             *)
LEMMA ReportStep == DetectInv /\ Report => DetectInv'
<1> SUFFICES ASSUME DetectInv, Report PROVE DetectInv'
  OBVIOUS
<1>1. /\ pc = "report" /\ pc' = "output" /\ out' = out + 1 /\ frame' = frame /\ seen' = seen
      /\ proposals' = proposals /\ todo' = todo /\ picked' = picked
  BY DEF Report
<1>2. /\ picked \in Seq(Object) /\ DOMAIN picked = 1..Len(picked) /\ Len(picked) \in Nat
      /\ \A k \in DOMAIN picked : /\ picked[k] \in Object /\ picked[k].prob \in Probs
                                 /\ Clip[picked[k].box] \in Rects
  <2>1. picked \in Seq(Object)
    BY DEF DetectInv, DetectTypeOK
  <2>2. DOMAIN picked = 1..Len(picked) /\ Len(picked) \in Nat
    BY <2>1
  <2>3. ASSUME NEW k \in DOMAIN picked PROVE picked[k] \in Object
    BY <2>1, <2>3
  <2>4. \A a \in Object : a.prob \in Probs /\ Clip[a.box] \in Rects
    BY DetectAssumption DEF Object
  <2> QED BY <2>1, <2>2, <2>3, <2>4
<1>3. objects' = [k \in 1..Len(picked) |->
                    [of |-> picked[k], rect |-> Clip[picked[k].box],
                     conf |-> map_confidence(picked[k].prob)]]
  BY DEF Report
<1>4. /\ DOMAIN objects' = DOMAIN picked
      /\ \A k \in DOMAIN picked : /\ objects'[k].of = picked[k]
                                 /\ objects'[k].conf = map_confidence(picked[k].prob)
                                 /\ objects'[k] \in Result
  BY <1>2, <1>3 DEF Result
<1>5. objects' \in Seq(Result)
  <2> DEFINE R(k) == [of |-> picked[k], rect |-> Clip[picked[k].box], conf |-> map_confidence(picked[k].prob)]
  <2>1. objects' = [k \in 1..Len(picked) |-> R(k)]
    BY <1>3
  <2>2. \A k \in 1..Len(picked) : objects'[k] \in Result
    BY <1>2, <1>4
  <2>3. \A k \in 1..Len(picked) : R(k) \in Result
    BY <2>1, <2>2
  <2> HIDE DEF R
  <2> QED BY <1>2, <2>1, <2>3
<1>6. KeptApart'
  BY <1>2, <1>4, MapMonotone DEF DetectInv, PickedInv, KeptApart
<1>7. DetectTypeOK'
  BY <1>1, <1>5, DetectAssumption DEF DetectInv, DetectTypeOK
<1>8. PickedInv' /\ NmsInv' /\ FreshInv'
  BY <1>1 DEF DetectInv, PickedInv, NmsInv, FreshInv
<1>9. pc' # "frame" /\ pc' \notin {"nms", "report"}
  BY <1>1
<1> QED BY <1>1, <1>6, <1>7, <1>8, <1>9 DEF DetectInv

(***************************************************************************)
(* The post-processing keeps its invariant, whatever the order of the      *)
(* model's outputs.                                                        *)
(***************************************************************************)
THEOREM DetectInvariance == DetectSpec => []DetectInv
<1>1. DetectInit => DetectInv
  BY DetectAssumption
  DEF DetectInit, DetectInv, DetectTypeOK, PickedInv, NmsInv, FreshInv, KeptApart
<1>2. DetectInv /\ [DetectNext]_detectVars => DetectInv'
  <2> SUFFICES ASSUME DetectInv, [DetectNext]_detectVars PROVE DetectInv'
    OBVIOUS
  <2>1. CASE Head8
    <3>1. PICK new \in Proposed(8) : proposals' = new
      BY <2>1 DEF Head8
    <3>2. AtHead(8) /\ seen' = seen \cup {8} /\ Collect /\ proposals' = {} \cup new
      BY <2>1, <3>1 DEF Head8
    <3> QED BY <3>2, HeadStep
  <2>2. CASE Head16
    <3>1. PICK new \in Proposed(16) : proposals' = proposals \cup new
      BY <2>2 DEF Head16
    <3>2. AtHead(16) /\ seen' = seen \cup {16} /\ Collect
      BY <2>2 DEF Head16
    <3> QED BY <3>1, <3>2, HeadStep
  <2>3. CASE Head32
    <3>1. PICK new \in Proposed(32) : proposals' = proposals \cup new
      BY <2>3 DEF Head32
    <3>2. AtHead(32) /\ seen' = seen \cup {32} /\ Suppress
      BY <2>3 DEF Head32
    <3> QED BY <3>1, <3>2, HeadStep
  <2> QED BY <2>1, <2>2, <2>3, NmsStep, QuietStep, OtherStep, ReportStep DEF DetectNext
<1> QED BY <1>1, <1>2, PTL DEF DetectSpec

(* Every variable of the post-processing keeps its type.                   *)
THEOREM DetectTypes == DetectSpec => []DetectTypeOK
<1>1. DetectInv => DetectTypeOK
  BY DEF DetectInv
<1> QED BY <1>1, DetectInvariance, PTL

(* What is reported is of boxes that do not overlap, in falling confidence.*)
THEOREM ReportsApart == DetectSpec => []KeptApart
<1>1. DetectInv => KeptApart
  BY DEF DetectInv
<1> QED BY <1>1, DetectInvariance, PTL

(* A proposal is dropped only for a better one it overlaps with.           *)
THEOREM DropsForBetter == DetectSpec => []DroppedForBetter
<1>1. DetectInv => DroppedForBetter
  BY DEF DetectInv, NmsInv, KeptFor, DroppedForBetter
<1> QED BY <1>1, DetectInvariance, PTL

(* With the clearing head through, a report is about its own frame only.   *)
THEOREM ReportsOwnFrame == DetectSpec => []ReportOfThisFrame
<1>1. DetectInv => ReportOfThisFrame
  BY DEF DetectInv, NmsInv, FreshInv, ReportOfThisFrame
<1> QED BY <1>1, DetectInvariance, PTL
=============================================================================
