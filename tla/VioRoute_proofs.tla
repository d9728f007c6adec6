--------------------------- MODULE VioRoute_proofs ---------------------------
(* The routes of sample_vio clean up after themselves, however many calls  *)
(* fail: from LadderBooks, which says that every function by itself keeps  *)
(* its books, to the whole stack of functions.                             *)
EXTENDS VioLedger, TLAPS

------------------------------------------------------------------------------
(* The inductive invariant: the functions entered have accounts, es of     *)
(* them, that fit one to the next; the books of the innermost one hold.    *)
FrameType == [name : STRING, n : Nat, part : Parts, at : Nat]

\* Frame fr is a place of account w, reached by a failure if that takes one.
Follows(fr, w) ==
    /\ fr.name = w.name /\ fr.n = w.n
    /\ OnPath(w, fr.part, fr.at)
    /\ w.loose \subseteq Costs
    /\ fr.part \in {"descent", "left"} => \E r \in failed : r \in w.causes[fr.part]

\* Frame fr, of account w, is in a call that has entered account c.
Calls(fr, w, c) ==
    /\ ~ AtEnd(fr)
    /\ Steps(fr)[fr.at].op = "call"
    /\ Enters(w, fr.part, fr.at, Steps(fr)[fr.at], c)

\* The books b hold of what is up.
Holds(b) == /\ \A o \in b.must \ up : \E r \in failed : o \in Gone(r)
            /\ up \ b.may \subseteq Costs

\* The frames of stk have accounts es, each of them the call the next is in.
Chain(stk, es) ==
    /\ es \in [1..Len(stk) -> Accounts]
    /\ \A i \in 1..Len(stk) : Follows(stk[i], es[i])
    /\ \A i \in 1..Len(stk) : es[i].sw <=> \E j \in i..Len(stk) : InSwitch(stk[j].name)
    /\ \A i \in 1..Len(stk) : i < Len(stk) => Calls(stk[i + 1], es[i + 1], es[i])
    /\ Whole(es[Len(stk)])

\* The stack has a chain, and the books of its innermost frame hold.
Sound(stk) == \E es \in [1..Len(stk) -> Accounts] :
                  Chain(stk, es) /\ Holds(Have(es[1], stk[1].part, stk[1].at))

Books == /\ stack \in Seq(FrameType)
         /\ stack # <<>> => Sound(stack)
         /\ stack = <<>> => up \subseteq Loose
         /\ Supported

------------------------------------------------------------------------------
(* Sequences.                                                              *)
LEMMA Pushed ==
  ASSUME NEW S, NEW s \in Seq(S), NEW e \in S
  PROVE  /\ <<e>> \o s \in Seq(S) /\ Len(<<e>> \o s) = Len(s) + 1 /\ <<e>> \o s # <<>>
         /\ (<<e>> \o s)[1] = e
         /\ \A i \in 1..Len(s) : (<<e>> \o s)[i + 1] = s[i]
OBVIOUS

LEMMA Popped ==
  ASSUME NEW S, NEW s \in Seq(S), s # <<>>
  PROVE  /\ Head(s) = s[1] /\ s[1] \in S /\ Len(s) \in Nat /\ Len(s) >= 1
         /\ Tail(s) \in Seq(S) /\ Len(Tail(s)) = Len(s) - 1
         /\ \A i \in 1..(Len(s) - 1) : Tail(s)[i] = s[i + 1]
OBVIOUS

\* The innermost frame is replaced.
LEMMA Replaced ==
  ASSUME NEW S, NEW s \in Seq(S), s # <<>>, NEW e \in S
  PROVE  /\ <<e>> \o Tail(s) \in Seq(S) /\ Len(<<e>> \o Tail(s)) = Len(s) /\ <<e>> \o Tail(s) # <<>>
         /\ (<<e>> \o Tail(s))[1] = e
         /\ \A i \in 2..Len(s) : (<<e>> \o Tail(s))[i] = s[i]
<1>1. /\ Tail(s) \in Seq(S) /\ Len(Tail(s)) = Len(s) - 1 /\ Len(s) \in Nat /\ Len(s) >= 1
      /\ \A i \in 1..(Len(s) - 1) : Tail(s)[i] = s[i + 1]
  BY Popped
<1>2. /\ <<e>> \o Tail(s) \in Seq(S) /\ Len(<<e>> \o Tail(s)) = Len(Tail(s)) + 1 /\ <<e>> \o Tail(s) # <<>>
      /\ (<<e>> \o Tail(s))[1] = e
      /\ \A i \in 1..Len(Tail(s)) : (<<e>> \o Tail(s))[i + 1] = Tail(s)[i]
  BY <1>1, Pushed
<1>3. ASSUME NEW i \in 2..Len(s) PROVE (<<e>> \o Tail(s))[i] = s[i]
  <2>1. i - 1 \in 1..Len(Tail(s)) /\ i - 1 \in 1..(Len(s) - 1) /\ (i - 1) + 1 = i
    BY <1>1
  <2> QED BY <1>1, <1>2, <2>1
<1> QED BY <1>1, <1>2, <1>3

------------------------------------------------------------------------------
(* Failures and what they excuse.                                          *)

\* What has been lost stays lost.
LEMMA CostsGrow ==
  ASSUME failed \subseteq failed'
  PROVE  Costs \subseteq Costs' /\ Loose \subseteq Loose'
BY DEF Costs, Loose

\* What a failure that has been seen costs is lost; so is what it leaves without.
LEMMA LostIsLoose ==
  ASSUME NEW r \in failed
  PROVE  Lost(r) \subseteq Costs /\ Gone(r) \subseteq Costs
BY DEF Costs, Gone

\* What a function knows to be lost is lost.
LEMMA KnownLost ==
  ASSUME NEW fr, NEW w, Follows(fr, w), NEW o, Known(w, fr.part, o)
  PROVE  o \in Costs
<1>1. CASE o \in w.loose
  BY <1>1 DEF Follows
<1>2. CASE fr.part = "descent" /\ \A r \in w.causes[fr.part] : o \in Lost(r)
  <2>1. PICK r \in failed : r \in w.causes[fr.part]
    BY <1>2 DEF Follows
  <2> QED BY <1>2, <2>1, LostIsLoose
<1> QED BY <1>1, <1>2 DEF Known

LEMMA StillFollows ==
  ASSUME NEW fr, NEW w, Follows(fr, w), failed \subseteq failed'
  PROVE  Follows(fr, w)'
<1>1. w.loose \subseteq Costs'
  BY CostsGrow DEF Follows
<1>2. fr.part \in {"descent", "left"} => \E r \in failed' : r \in w.causes[fr.part]
  BY DEF Follows
<1> QED BY <1>1, <1>2 DEF Follows

------------------------------------------------------------------------------
(* A place of an account.                                                  *)

LEMMA PlaceKept ==
  ASSUME NEW fr \in FrameType, NEW w \in Accounts, Follows(fr, w)
  PROVE  /\ Len(Steps(fr)) \in Nat
         /\ Steps(fr) = Text(w, fr.part)
         /\ AtEnd(fr) => fr.at = Past(w, fr.part)
         /\ ~ AtEnd(fr) => /\ fr.at \in 1..Len(Steps(fr))
                           /\ Kept(w, fr.part, fr.at)
<1>1. Steps(fr) = Text(w, fr.part)
  BY DEF Steps, Text, Follows
<1>2. Balanced(w)
  BY LadderBooks
<1>3. OnPath(w, fr.part, fr.at) /\ fr.part \in Parts
  BY DEF Follows, OnPath
<1>4. Len(Steps(fr)) \in Nat
  BY <1>1, <1>2, <1>3 DEF Balanced
<1>5. fr.at \in 1..(Len(Steps(fr)) + 1)
  BY <1>1, <1>3 DEF OnPath, Past
<1>6. AtEnd(fr) => fr.at = Past(w, fr.part)
  BY <1>1, <1>4, <1>5 DEF AtEnd, Past
<1>7. ~ AtEnd(fr) => fr.at \in 1..Len(Steps(fr))
  BY <1>4, <1>5 DEF AtEnd
<1> QED BY <1>1, <1>2, <1>3, <1>4, <1>6, <1>7 DEF Balanced

\* A function that goes on to its next step is where its account says.
LEMMA GoesOn ==
  ASSUME NEW fr \in FrameType, NEW w \in Accounts, Follows(fr, w), ~ AtEnd(fr),
         NEW s, failed \subseteq failed', NEW ok \in BOOLEAN, ok \/ s.land = 0
  PROVE  LET g == Proceed(fr, s, ok)
         IN /\ g \in FrameType /\ g.name = fr.name /\ g.part = fr.part /\ g.at = fr.at + 1
            /\ Follows(g, w)'
<1> DEFINE g == [fr EXCEPT !.at = fr.at + 1]
<1>1. Proceed(fr, s, ok) = g
  BY DEF Proceed, Leave
<1>2. g \in FrameType /\ g.name = fr.name /\ g.n = fr.n /\ g.part = fr.part /\ g.at = fr.at + 1
  BY DEF FrameType
<1>3. OnPath(w, fr.part, fr.at + 1)
  BY PlaceKept DEF Kept
<1>4. Follows(fr, w)'
  BY StillFollows
<1>5. Follows(g, w)'
  BY <1>2, <1>3, <1>4 DEF Follows
<1> QED BY <1>1, <1>2, <1>5

\* A function whose step fails is where its account says, and so are the books.
LEMMA Lands ==
  ASSUME NEW fr \in FrameType, NEW w \in Accounts, Follows(fr, w), ~ AtEnd(fr),
         NEW s, NEW b, NEW r \in failed', failed \subseteq failed', up' = up,
         Fails(w, fr.part, fr.at, s, b, r), Holds(b)
  PROVE  LET g == Proceed(fr, s, FALSE)
         IN /\ g \in FrameType /\ g.name = fr.name
            /\ Follows(g, w)' /\ Holds(Have(w, g.part, g.at))'
<1> DEFINE g == Proceed(fr, s, FALSE)
           p == LandPart(fr.part, s)
           a == LandAt(fr.at, s)
           c == Have(w, p, a)
<1>1. OnPath(w, p, a) /\ Slip(b, c, r) /\ (s.land # 0 => r \in w.causes[p])
  BY DEF Fails
<1>2. p \in Parts /\ a \in Nat
  BY <1>1 DEF OnPath
<1>4. g \in FrameType /\ g.name = fr.name /\ g.n = fr.n /\ g.part = p /\ g.at = a
  <2>1. CASE s.land = 0
    <3>1. g = [fr EXCEPT !.at = fr.at + 1] /\ p = fr.part /\ a = fr.at + 1
      BY <2>1 DEF Proceed, LandPart, LandAt, Leave
    <3> HIDE DEF g, p, a
    <3> QED BY <1>2, <3>1 DEF FrameType
  <2>2. CASE s.land = Leave
    <3>1. g = [fr EXCEPT !.part = "left", !.at = 1] /\ p = "left" /\ a = 1
      BY <2>2 DEF Proceed, LandPart, LandAt, Leave
    <3> HIDE DEF g, p, a
    <3> QED BY <1>2, <3>1 DEF FrameType
  <2>3. CASE s.land # 0 /\ s.land # Leave
    <3>1. g = [fr EXCEPT !.part = "descent", !.at = s.land] /\ p = "descent" /\ a = s.land
      BY <2>3 DEF Proceed, LandPart, LandAt
    <3> HIDE DEF g, p, a
    <3> QED BY <1>2, <3>1 DEF FrameType
  <2> QED BY <2>1, <2>2, <2>3
<1>5. Follows(fr, w)'
  BY StillFollows
<1>6. p \in {"descent", "left"} => \E q \in failed' : q \in w.causes[p]
  <2>1. CASE s.land = 0
    BY <2>1, <1>5 DEF LandPart, Follows
  <2>2. CASE s.land # 0
    BY <2>2, <1>1
  <2> QED BY <2>1, <2>2
<1>7. Follows(g, w)'
  BY <1>1, <1>4, <1>5, <1>6 DEF Follows
<1>8. Holds(c)'
  <2>1. Lost(r) \subseteq Costs'
    BY DEF Costs
  <2>2. Costs \subseteq Costs'
    BY CostsGrow
  <2>3. \A o \in c.must \ up : \E q \in failed' : o \in Gone(q)
    BY <1>1 DEF Holds, Slip
  <2>4. up \ c.may \subseteq Costs'
    BY <1>1, <2>1, <2>2 DEF Holds, Slip
  <2> QED BY <2>3, <2>4 DEF Holds
<1> QED BY <1>4, <1>7, <1>8

------------------------------------------------------------------------------
(* Chains.                                                                 *)

LEMMA StillChain ==
  ASSUME NEW stk, NEW es, Chain(stk, es), failed \subseteq failed'
  PROVE  Chain(stk, es)'
BY StillFollows DEF Chain

LEMMA Replacing ==
  ASSUME NEW stk \in Seq(FrameType), stk # <<>>, NEW es, Chain(stk, es), NEW g \in FrameType,
         g.name = stk[1].name, failed \subseteq failed', Follows(g, es[1])'
  PROVE  Chain(<<g>> \o Tail(stk), es)'
<1> DEFINE new == <<g>> \o Tail(stk)
           n == Len(stk)
<1>1. /\ new \in Seq(FrameType) /\ Len(new) = n /\ new[1] = g /\ n \in Nat /\ n >= 1
      /\ \A i \in 2..n : new[i] = stk[i]
  BY Replaced, Popped
<1>2. Chain(stk, es)'
  BY StillChain
<1>3. \A i \in 1..n : new[i].name = stk[i].name
  BY <1>1
<1>4. \A i \in 1..n : Follows(new[i], es[i])'
  <2> SUFFICES ASSUME NEW i \in 1..n PROVE Follows(new[i], es[i])'
    OBVIOUS
  <2>1. CASE i = 1
    BY <2>1, <1>1
  <2>2. CASE i # 1
    BY <2>2, <1>1, <1>2 DEF Chain
  <2> QED BY <2>1, <2>2
<1>5. \A i \in 1..n : es[i].sw <=> \E j \in i..n : InSwitch(new[j].name)
  <2> SUFFICES ASSUME NEW i \in 1..n PROVE es[i].sw <=> \E j \in i..n : InSwitch(new[j].name)
    OBVIOUS
  <2>1. \A j \in i..n : new[j].name = stk[j].name
    BY <1>1, <1>3
  <2>2. es[i].sw <=> \E j \in i..n : InSwitch(stk[j].name)
    BY DEF Chain
  <2> HIDE DEF new, n
  <2> QED BY <2>1, <2>2
<1>6. \A i \in 1..n : i < n => Calls(new[i + 1], es[i + 1], es[i])
  <2> SUFFICES ASSUME NEW i \in 1..n, i < n PROVE Calls(new[i + 1], es[i + 1], es[i])
    OBVIOUS
  <2>1. i + 1 \in 2..n
    BY <1>1
  <2>2. new[i + 1] = stk[i + 1]
    BY <2>1, <1>1
  <2> QED BY <2>2 DEF Chain
<1> QED BY <1>1, <1>2, <1>4, <1>5, <1>6 DEF Chain

LEMMA Pushing ==
  ASSUME NEW stk \in Seq(FrameType), stk # <<>>, NEW es, Chain(stk, es), NEW c \in Accounts,
         Calls(stk[1], es[1], c), NEW g \in FrameType, Follows(g, c)
  PROVE  \E fs \in [1..(Len(stk) + 1) -> Accounts] : fs[1] = c /\ Chain(<<g>> \o stk, fs)
<1> DEFINE new == <<g>> \o stk
           n == Len(stk)
           fs == [i \in 1..(n + 1) |-> IF i = 1 THEN c ELSE es[i - 1]]
<1>1. /\ Len(new) = n + 1 /\ new[1] = g /\ n \in Nat /\ n >= 1
      /\ \A i \in 1..n : new[i + 1] = stk[i]
  BY Pushed, Popped
<1>2. es \in [1..n -> Accounts]
  BY DEF Chain
<1>3. /\ fs \in [1..(n + 1) -> Accounts] /\ fs[1] = c
      /\ \A i \in 1..n : fs[i + 1] = es[i]
  BY <1>1, <1>2
<1>4. \A i \in 1..(n + 1) : i = 1 \/ \E k \in 1..n : i = k + 1
  <2> SUFFICES ASSUME NEW i \in 1..(n + 1), i # 1 PROVE \E k \in 1..n : i = k + 1
    OBVIOUS
  <2>1. i - 1 \in 1..n /\ i = (i - 1) + 1
    BY <1>1
  <2> QED BY <2>1
<1> HIDE DEF new, fs
<1>5. \A i \in 1..(n + 1) : Follows(new[i], fs[i])
  BY <1>1, <1>3, <1>4 DEF Chain
<1>6. \A i \in 1..(n + 1) : fs[i].sw <=> \E j \in i..(n + 1) : InSwitch(new[j].name)
  <2>1. ASSUME NEW k \in 1..n
        PROVE  (\E j \in (k + 1)..(n + 1) : InSwitch(new[j].name)) <=> \E j \in k..n : InSwitch(stk[j].name)
    <3>1. ASSUME NEW j \in (k + 1)..(n + 1) PROVE j - 1 \in k..n /\ new[j] = stk[j - 1]
      <4>1. j - 1 \in 1..n /\ (j - 1) + 1 = j /\ j - 1 \in k..n
        BY <1>1
      <4> QED BY <4>1, <1>1
    <3>2. ASSUME NEW j \in k..n PROVE j + 1 \in (k + 1)..(n + 1) /\ new[j + 1] = stk[j]
      BY <1>1
    <3> QED BY <3>1, <3>2
  <2>2. ASSUME NEW k \in 1..n
        PROVE  fs[k + 1].sw <=> \E j \in (k + 1)..(n + 1) : InSwitch(new[j].name)
    <3>1. es[k].sw <=> \E j \in k..n : InSwitch(stk[j].name)
      BY DEF Chain
    <3>2. fs[k + 1] = es[k]
      BY <1>3
    <3> QED BY <2>1, <3>1, <3>2
  <2>3. fs[1].sw <=> \E j \in 1..(n + 1) : InSwitch(new[j].name)
    <3>1. c.sw = (es[1].sw \/ InSwitch(c.name)) /\ g.name = c.name
      BY DEF Calls, Enters, Follows
    <3>2. es[1].sw <=> \E j \in 2..(n + 1) : InSwitch(new[j].name)
      <4>1. 1 \in 1..n /\ fs[1 + 1] = es[1] /\ 1 + 1 = 2
        BY <1>1, <1>3
      <4> QED BY <4>1, <2>2
    <3>3. (\E j \in 1..(n + 1) : InSwitch(new[j].name)) <=> InSwitch(c.name) \/ \E j \in 2..(n + 1) : InSwitch(new[j].name)
      <4>1. \A j \in 1..(n + 1) : j = 1 \/ j \in 2..(n + 1)
        BY <1>1
      <4>2. \A j \in 2..(n + 1) : j \in 1..(n + 1)
        BY <1>1
      <4>3. 1 \in 1..(n + 1) /\ new[1].name = c.name
        BY <1>1, <3>1
      <4> HIDE DEF n
      <4> QED BY <4>1, <4>2, <4>3
    <3> QED BY <1>3, <3>1, <3>2, <3>3
  <2> QED BY <1>4, <2>2, <2>3
<1>7. \A i \in 1..(n + 1) : i < n + 1 => Calls(new[i + 1], fs[i + 1], fs[i])
  <2> SUFFICES ASSUME NEW i \in 1..(n + 1), i < n + 1 PROVE Calls(new[i + 1], fs[i + 1], fs[i])
    OBVIOUS
  <2>1. i \in 1..n /\ new[i + 1] = stk[i] /\ fs[i + 1] = es[i]
    BY <1>1, <1>3
  <2>2. CASE i = 1
    BY <2>1, <2>2, <1>3
  <2>3. CASE i # 1
    <3>1. i - 1 \in 1..n /\ (i - 1) + 1 = i /\ i - 1 < n
      BY <2>1, <2>3, <1>1
    <3>2. Calls(stk[i], es[i], es[i - 1]) /\ fs[i] = es[i - 1]
      BY <3>1, <1>3 DEF Chain
    <3> QED BY <2>1, <3>2
  <2> QED BY <2>2, <2>3
<1>8. Whole(fs[n + 1])
  BY <1>1, <1>3 DEF Chain
<1>9. Chain(new, fs)
  BY <1>1, <1>3, <1>5, <1>6, <1>7, <1>8 DEF Chain
<1> QED BY <1>3, <1>9 DEF new

LEMMA Popping ==
  ASSUME NEW stk \in Seq(FrameType), NEW es, Chain(stk, es), stk # <<>>, Len(stk) # 1
  PROVE  /\ Tail(stk) # <<>> /\ Calls(stk[2], es[2], es[1])
         /\ \E fs \in [1..(Len(stk) - 1) -> Accounts] : fs[1] = es[2] /\ Chain(Tail(stk), fs)
<1> DEFINE new == Tail(stk)
           n == Len(stk) - 1
           fs == [i \in 1..n |-> es[i + 1]]
<1>1. /\ new \in Seq(FrameType) /\ Len(new) = n /\ n \in Nat /\ n >= 1 /\ Len(stk) = n + 1
      /\ \A i \in 1..n : new[i] = stk[i + 1]
  <2>1. /\ Tail(stk) \in Seq(FrameType) /\ Len(Tail(stk)) = Len(stk) - 1 /\ Len(stk) \in Nat /\ Len(stk) >= 1
        /\ \A i \in 1..(Len(stk) - 1) : Tail(stk)[i] = stk[i + 1]
    BY Popped
  <2>2. Len(stk) - 1 \in Nat /\ Len(stk) - 1 >= 1 /\ Len(stk) = (Len(stk) - 1) + 1
    BY <2>1
  <2> QED BY <2>1, <2>2
<1>2. es \in [1..(n + 1) -> Accounts]
  BY <1>1 DEF Chain
<1>3. fs \in [1..n -> Accounts] /\ \A i \in 1..n : fs[i] = es[i + 1]
  BY <1>1, <1>2
<1> HIDE DEF new, fs, n
<1>4. \A i \in 1..n : i + 1 \in 1..(n + 1)
  BY <1>1
<1>5. \A i \in 1..n : Follows(new[i], fs[i])
  BY <1>1, <1>3, <1>4 DEF Chain
<1>6. ASSUME NEW i \in 1..n PROVE fs[i].sw <=> \E j \in i..n : InSwitch(new[j].name)
  <2>1. es[i + 1].sw <=> \E j \in (i + 1)..(n + 1) : InSwitch(stk[j].name)
    BY <1>1, <1>4 DEF Chain
  <2>2. ASSUME NEW j \in (i + 1)..(n + 1) PROVE j - 1 \in i..n /\ new[j - 1] = stk[j]
    <3>1. j - 1 \in 1..n /\ (j - 1) + 1 = j /\ j - 1 \in i..n
      BY <1>1
    <3> QED BY <3>1, <1>1
  <2>3. ASSUME NEW j \in i..n PROVE j + 1 \in (i + 1)..(n + 1) /\ new[j] = stk[j + 1]
    BY <1>1
  <2>4. (\E j \in (i + 1)..(n + 1) : InSwitch(stk[j].name)) <=> \E j \in i..n : InSwitch(new[j].name)
    BY <2>2, <2>3
  <2>5. fs[i] = es[i + 1]
    BY <1>3
  <2> QED BY <2>1, <2>4, <2>5
<1>7. \A i \in 1..n : i < n => Calls(new[i + 1], fs[i + 1], fs[i])
  <2> SUFFICES ASSUME NEW i \in 1..n, i < n PROVE Calls(new[i + 1], fs[i + 1], fs[i])
    OBVIOUS
  <2>1. i + 1 \in 1..n /\ i + 1 \in 1..(n + 1) /\ i + 1 < n + 1
    BY <1>1
  <2>2. Calls(stk[(i + 1) + 1], es[(i + 1) + 1], es[i + 1])
    BY <2>1, <1>1 DEF Chain
  <2> QED BY <2>1, <2>2, <1>1, <1>3
<1>8. Whole(fs[n])
  BY <1>1, <1>3 DEF Chain
<1>9. Chain(new, fs)
  BY <1>1, <1>3, <1>5, <1>6, <1>7, <1>8 DEF Chain
<1>10. Calls(stk[2], es[2], es[1])
  <2>1. 1 \in 1..Len(stk) /\ 1 < Len(stk) /\ 1 + 1 = 2
    BY <1>1
  <2> QED BY <2>1 DEF Chain
<1>11. fs[1] = es[2] /\ Tail(stk) # <<>>
  <2>1. fs[1] = es[1 + 1] /\ 1 + 1 = 2
    BY <1>1, <1>3
  <2>2. Len(new) # 0
    BY <1>1
  <2>3. new # <<>>
    BY <2>2
  <2> QED BY <2>1, <2>3 DEF new
<1> QED BY <1>3, <1>9, <1>10, <1>11 DEF new, n

------------------------------------------------------------------------------
(* What a step does to the books and to what stands on what.               *)

\* Books that hold still hold where less is asked of them.
LEMMA WeakerHolds ==
  ASSUME NEW b, NEW c, Holds(b), Weaker(b, c)
  PROVE  Holds(c)
BY DEF Holds, Weaker

\* The account of the step that frame fr of account w is in.
LEMMA StepKept ==
  ASSUME NEW fr \in FrameType, NEW w \in Accounts, Follows(fr, w), ~ AtEnd(fr)
  PROVE  LET s == Steps(fr)[fr.at]
             b == Have(w, fr.part, fr.at)
         IN /\ Grounded(b, s)
            /\ s.op = "stop" => s.what \in b.must \/ Again(s) \/ Known(w, fr.part, s.what)
            /\ s.op # "call" => Weaker(Done(b, s), Have(w, fr.part, fr.at + 1))
            /\ s.op = "call" => \E c \in Accounts : Enters(w, fr.part, fr.at, s, c)
            /\ MayFail(s) => Fails(w, fr.part, fr.at, s, b, Failure(s, w.sw))
<1>1. Kept(w, fr.part, fr.at) /\ Steps(fr) = Text(w, fr.part)
  BY PlaceKept
<1> QED BY <1>1 DEF Kept

\* While nothing more has failed and nothing has changed, neither do these.
LEMMA SameHolds ==
  ASSUME NEW b, UNCHANGED <<up, failed>>
  PROVE  (Holds(b) => Holds(b)') /\ (Supported => Supported') /\ Loose' = Loose
BY DEF Holds, Supported, Loose, Costs

LEMMA Starting ==
  ASSUME NEW s, NEW b, Holds(b), Supported, Grounded(b, s), s.op = "start",
         up' = up \cup {s.what}, failed' = failed
  PROVE  Holds(Done(b, s))' /\ Supported'
<1>1. Loose' = Loose /\ Costs' = Costs
  BY DEF Loose, Costs
<1>2. Done(b, s).must = b.must \cup {s.what} /\ Done(b, s).may = b.may \cup {s.what}
  BY DEF Done, Bounds
<1>3. Holds(Done(b, s))'
  <2>1. \A o \in Done(b, s).must \ up' : \E r \in failed' : o \in Gone(r)
    BY <1>2 DEF Holds
  <2>2. up' \ Done(b, s).may \subseteq Costs'
    BY <1>1, <1>2 DEF Holds
  <2> QED BY <2>1, <2>2 DEF Holds
<1>4. Supported'
  <2> SUFFICES ASSUME NEW o \in up', o \notin Loose, NEW p \in Needs(o), p \notin up
               PROVE  FALSE
    BY <1>1 DEF Supported
  <2>1. o = s.what
    BY DEF Supported
  <2>2. p \in b.must /\ o \in Objects
    BY <2>1 DEF Grounded
  <2>3. PICK r \in failed : p \in Gone(r)
    BY <2>2 DEF Holds
  <2>4. o \in Lost(r)
    BY <2>2, <2>3 DEF Gone
  <2> QED BY <2>4, LostIsLoose DEF Loose
<1> QED BY <1>3, <1>4

\* A stop, or a join, of what is up.
LEMMA TakingDown ==
  ASSUME NEW s, NEW b, Holds(b), Supported, Grounded(b, s), s.op \in {"stop", "join"},
         up' = up \ TakenDown(s), failed' = failed
  PROVE  Holds(Done(b, s))' /\ Supported'
<1>1. Loose' = Loose /\ Costs' = Costs
  BY DEF Loose, Costs
<1>2. Done(b, s).must = b.must \ TakenDown(s) /\ Done(b, s).may = b.may \ TakenDown(s)
  BY DEF Done, Bounds, TakenDown
<1>3. Holds(Done(b, s))'
  <2>1. \A o \in Done(b, s).must \ up' : \E r \in failed' : o \in Gone(r)
    BY <1>2 DEF Holds
  <2>2. up' \ Done(b, s).may \subseteq Costs'
    BY <1>1, <1>2 DEF Holds
  <2> QED BY <2>1, <2>2 DEF Holds
<1>4. Supported'
  <2> SUFFICES ASSUME NEW o \in up', o \notin Loose, NEW p \in Needs(o)
               PROVE  p \in up'
    BY <1>1 DEF Supported
  <2>1. o \in Done(b, s).may /\ o \notin Always
    BY <1>2 DEF Holds, Loose
  <2>2. p \notin TakenDown(s)
    BY <2>1 DEF Grounded
  <2> QED BY <2>2 DEF Supported
<1> QED BY <1>3, <1>4

\* Nothing that stands on what is down is up: the stop of an object that is
\* down finds nothing that would have gone with it.
LEMMA NothingToTake ==
  ASSUME NEW s, NEW b, Holds(b), Supported, Grounded(b, s), s.op = "stop", s.what \notin up
  PROVE  Holds(Done(b, s))
<1>1. Done(b, s).must = b.must \ TakenAlong(s.what) /\ Done(b, s).may = b.may \ TakenAlong(s.what)
  BY DEF Done, Bounds
<1>2. ASSUME NEW o \in up, o \notin Done(b, s).may PROVE o \in Costs
  <2>1. CASE o \notin b.may
    BY <2>1 DEF Holds
  <2>2. CASE o \in TakenAlong(s.what)
    BY <2>2 DEF Grounded, Supported, Loose
  <2> QED BY <2>1, <2>2, <1>1, <1>2
<1> QED BY <1>1, <1>2 DEF Holds

\* An object that is started while it is up is where a start would put it.
LEMMA StartedBefore ==
  ASSUME NEW s, NEW b, Holds(b), s.op = "start", s.what \in up
  PROVE  Holds(Done(b, s))
BY DEF Holds, Done, Bounds

LEMMA NothingDone ==
  ASSUME NEW s, NEW b, s.op \notin {"start", "stop", "join"}
  PROVE  Done(b, s) = b
BY DEF Done

------------------------------------------------------------------------------
(* The steps.                                                              *)

\* The innermost frame fr of the stack, the account w of it and its books.
Inner(stk, es, fr, w) ==
    /\ stack = stk /\ stk \in Seq(FrameType) /\ stk # <<>> /\ Chain(stk, es)
    /\ fr = stk[1] /\ w = es[1]
    /\ Holds(Have(w, fr.part, fr.at)) /\ Supported

LEMMA InnerFacts ==
  ASSUME NEW stk, NEW es, NEW fr, NEW w, Inner(stk, es, fr, w)
  PROVE  /\ fr \in FrameType /\ w \in Accounts /\ Follows(fr, w)
         /\ Head(stack) = fr /\ Switching = w.sw
<1>1. fr \in FrameType /\ Len(stk) \in Nat /\ Len(stk) >= 1 /\ Head(stk) = fr
  BY Popped DEF Inner
<1>2. 1 \in 1..Len(stk)
  BY <1>1
<1>3. w \in Accounts /\ Follows(fr, w)
  BY <1>2 DEF Inner, Chain
<1>4. w.sw \in BOOLEAN
  BY <1>3, LadderBooks DEF Balanced
<1>5. Switching \in BOOLEAN
  BY DEF Switching
<1>6. w.sw <=> \E j \in 1..Len(stk) : InSwitch(stk[j].name)
  BY <1>2 DEF Inner, Chain
<1>7. Switching <=> \E j \in 1..Len(stk) : InSwitch(stk[j].name)
  BY DEF Switching, Inner
<1>8. Switching = w.sw
  BY <1>4, <1>5, <1>6, <1>7
<1> QED BY <1>1, <1>3, <1>8 DEF Inner

\* A frame on top of a chain, with the books it needs.
LEMMA SoundAgain ==
  ASSUME NEW stk \in Seq(FrameType), stk # <<>>, NEW fs \in [1..Len(stk) -> Accounts],
         stack' = stk, Chain(stk, fs)', Holds(Have(fs[1], stk[1].part, stk[1].at))', Supported'
  PROVE  Books'
<1>1. Sound(stk)'
  BY DEF Sound
<1> QED BY <1>1 DEF Books

LEMMA Resumed ==
  ASSUME NEW stk \in Seq(FrameType), stk # <<>>, NEW es, Chain(stk, es), NEW g \in FrameType,
         g.name = stk[1].name, failed \subseteq failed', stack' = <<g>> \o Tail(stk),
         Follows(g, es[1])', Holds(Have(es[1], g.part, g.at))', Supported'
  PROVE  Books'
<1>1. Chain(<<g>> \o Tail(stk), es)'
  BY Replacing
<1>2. /\ <<g>> \o Tail(stk) \in Seq(FrameType) /\ <<g>> \o Tail(stk) # <<>>
      /\ (<<g>> \o Tail(stk))[1] = g
  BY Replaced
<1>3. es \in [1..Len(<<g>> \o Tail(stk)) -> Accounts]
  BY <1>1 DEF Chain
<1> QED BY <1>1, <1>2, <1>3, SoundAgain

LEMMA StepOn ==
  ASSUME NEW stk, NEW es, NEW fr, NEW w, Inner(stk, es, fr, w), ~ AtEnd(fr),
         NEW s, NEW ok \in BOOLEAN, ok \/ s.land = 0, Resume(s, ok), failed' = failed,
         Holds(Have(w, fr.part, fr.at + 1))', Supported'
  PROVE  Books'
<1> DEFINE g == Proceed(fr, s, ok)
<1>1. fr \in FrameType /\ w \in Accounts /\ Follows(fr, w) /\ Head(stack) = fr
  BY InnerFacts
<1>2. /\ g \in FrameType /\ g.name = fr.name /\ g.part = fr.part /\ g.at = fr.at + 1
      /\ Follows(g, w)'
  BY <1>1, GoesOn
<1>3. stack' = <<g>> \o Tail(stk)
  BY <1>1 DEF Resume, Inner
<1> HIDE DEF g
<1>4. Holds(Have(w, g.part, g.at))'
  BY <1>2
<1> QED BY <1>2, <1>3, <1>4, Resumed DEF Inner

LEMMA StepFails ==
  ASSUME NEW stk, NEW es, NEW fr, NEW w, Inner(stk, es, fr, w), ~ AtEnd(fr),
         NEW s, NEW b, NEW r \in failed', failed \subseteq failed', up' = up,
         Fails(w, fr.part, fr.at, s, b, r), Holds(b), Resume(s, FALSE)
  PROVE  Books'
<1> DEFINE g == Proceed(fr, s, FALSE)
<1>1. fr \in FrameType /\ w \in Accounts /\ Follows(fr, w) /\ Head(stack) = fr
  BY InnerFacts
<1>2. /\ g \in FrameType /\ g.name = fr.name
      /\ Follows(g, w)' /\ Holds(Have(w, g.part, g.at))'
  BY <1>1, Lands
<1>3. stack' = <<g>> \o Tail(stk)
  BY <1>1 DEF Resume, Inner
<1>4. Supported'
  BY CostsGrow DEF Supported, Inner
<1> HIDE DEF g
<1> QED BY <1>2, <1>3, <1>4, Resumed DEF Inner

\* A step of a function, whatever the driver makes of it.
LEMMA CallKeepsBooks ==
  ASSUME NEW stk, NEW es, NEW fr, NEW w, Inner(stk, es, fr, w), ~ AtEnd(fr),
         NEW s, s = Steps(fr)[fr.at], CallStep(s) \/ PollIsp(s) \/ KeyPressed(s)
  PROVE  Books'
<1> DEFINE b == Have(w, fr.part, fr.at)
           next == Have(w, fr.part, fr.at + 1)
<1>1. fr \in FrameType /\ w \in Accounts /\ Follows(fr, w) /\ Head(stack) = fr /\ Switching = w.sw
  BY InnerFacts
<1>2. /\ Grounded(b, s)
      /\ s.op # "call" => Weaker(Done(b, s), next)
      /\ s.op = "call" => \E c \in Accounts : Enters(w, fr.part, fr.at, s, c)
      /\ MayFail(s) => Fails(w, fr.part, fr.at, s, b, Failure(s, w.sw))
  BY <1>1, StepKept
<1>3. Holds(b) /\ Supported
  BY DEF Inner
<1> HIDE DEF b, next
<1>4. ASSUME Holds(Done(b, s))', s.op # "call"
      PROVE  Holds(next)'
  BY <1>2, <1>4 DEF Weaker, Holds
<1>5. CASE StartOk(s)
  <2>1. Holds(Done(b, s))' /\ Supported'
    BY <1>2, <1>3, <1>5, Starting DEF StartOk
  <2>2. Holds(next)'
    BY <1>4, <1>5, <2>1 DEF StartOk
  <2> QED BY <1>5, <2>1, <2>2, StepOn DEF StartOk, next
<1>6. CASE StopOk(s)
  <2>1. Holds(Done(b, s))' /\ Supported'
    BY <1>2, <1>3, <1>6, TakingDown DEF StopOk, TakenDown
  <2>2. Holds(next)'
    BY <1>4, <1>6, <2>1 DEF StopOk
  <2> QED BY <1>6, <2>1, <2>2, StepOn DEF StopOk, next
<1>7. CASE JoinThread(s)
  <2>1. Holds(Done(b, s))' /\ Supported'
    BY <1>2, <1>3, <1>7, TakingDown DEF JoinThread, TakenDown
  <2>2. Holds(next)'
    BY <1>4, <1>7, <2>1 DEF JoinThread
  <2> QED BY <1>7, <2>1, <2>2, StepOn DEF JoinThread, next
<1>8. CASE SetOk(s) \/ PollIsp(s) \/ KeyPressed(s)
  <2>1. Done(b, s) = b /\ s.op # "call" /\ Resume(s, TRUE) /\ UNCHANGED <<up, failed>>
    BY <1>8, NothingDone DEF SetOk, PollIsp, KeyPressed
  <2>2. Holds(next)' /\ Supported'
    BY <1>3, <1>4, <2>1, SameHolds
  <2> QED BY <2>1, <2>2, StepOn DEF next
<1>9. CASE CallFails(s)
  <2>1. Fails(w, fr.part, fr.at, s, b, Failure(s, w.sw))
    BY <1>2, <1>9 DEF CallFails, MayFail
  <2>2. Failure(s, w.sw) \in failed' /\ failed \subseteq failed' /\ up' = up /\ Resume(s, FALSE)
    BY <1>1, <1>9 DEF CallFails
  <2> QED BY <1>3, <2>1, <2>2, StepFails
<1>10. CASE CallRefused(s)
  <2>1. MayFail(s) /\ s.op # "call" /\ UNCHANGED up /\ Resume(s, FALSE)
    BY <1>10 DEF CallRefused, MayFail
  <2>2. CASE s.land # 0
    <3>1. failed' = failed \cup {Failure(s, w.sw)}
      BY <1>1, <1>10, <2>2 DEF CallRefused
    <3>2. Fails(w, fr.part, fr.at, s, b, Failure(s, w.sw))
      BY <1>2, <2>1
    <3>3. Failure(s, w.sw) \in failed' /\ failed \subseteq failed' /\ up' = up
      BY <2>1, <3>1
    <3> QED BY <1>3, <2>1, <3>2, <3>3, StepFails
  <2>3. CASE s.land = 0
    <3>1. failed' = failed
      BY <1>10, <2>3 DEF CallRefused
    <3>2. Holds(Done(b, s))
      BY <1>2, <1>3, <1>10, StartedBefore, NothingToTake DEF CallRefused
    <3>3. Holds(next)' /\ Supported'
      BY <1>3, <1>4, <2>1, <3>1, <3>2, SameHolds
    <3> QED BY <2>1, <2>3, <3>1, <3>3, StepOn DEF next
  <2> QED BY <2>2, <2>3
<1>11. CASE Enter(s)
  <2>1. PICK c \in Accounts : Enters(w, fr.part, fr.at, s, c)
    BY <1>2, <1>11 DEF Enter
  <2> DEFINE g == Frame(c.name, c.n)
  <2>2. Balanced(c)
    BY LadderBooks
  <2>3. g \in FrameType /\ g.name = c.name /\ g.n = c.n /\ g.part = "climb" /\ g.at = 1
    BY <2>2 DEF Balanced, Frame, FrameType, Parts
  <2>4. stack' = <<g>> \o stk /\ UNCHANGED <<up, failed>>
    BY <1>11, <2>1 DEF Enter, Enters, Inner
  <2> HIDE DEF g
  <2>5. c.loose \subseteq Costs
    BY <1>1, <2>1, KnownLost DEF Enters
  <2>6. OnPath(c, "climb", 1)
    BY <2>2 DEF Balanced
  <2>7. Follows(g, c)
    BY <2>3, <2>5, <2>6 DEF Follows
  <2>8. Calls(fr, w, c)
    BY <1>11, <2>1 DEF Calls, Enter
  <2>9. PICK fs \in [1..(Len(stk) + 1) -> Accounts] : fs[1] = c /\ Chain(<<g>> \o stk, fs)
    BY <2>3, <2>7, <2>8, Pushing DEF Inner
  <2>10. Holds(Have(c, "climb", 1))
    BY <1>3, <2>1, WeakerHolds DEF Enters, b
  <2>11. /\ <<g>> \o stk \in Seq(FrameType) /\ <<g>> \o stk # <<>> /\ (<<g>> \o stk)[1] = g
         /\ Len(<<g>> \o stk) = Len(stk) + 1
    BY <2>3, Pushed DEF Inner
  <2>12. Chain(<<g>> \o stk, fs)'
    BY <2>4, <2>9, StillChain
  <2>13. Holds(Have(c, g.part, g.at))' /\ Supported'
    BY <1>3, <2>3, <2>4, <2>10, SameHolds
  <2> QED BY <2>4, <2>9, <2>11, <2>12, <2>13, SoundAgain
<1> QED BY <1>5, <1>6, <1>7, <1>8, <1>9, <1>10, <1>11 DEF CallStep

\* A climb without failure has the books of what follows it.
LEMMA TurnKeepsBooks ==
  ASSUME NEW stk, NEW es, NEW fr, NEW w, Inner(stk, es, fr, w), Turn
  PROVE  Books'
<1> DEFINE g == [fr EXCEPT !.part = "finish", !.at = 1]
<1>1. fr \in FrameType /\ w \in Accounts /\ Follows(fr, w) /\ Head(stack) = fr
  BY InnerFacts
<1>2. AtEnd(fr) /\ fr.part = "climb" /\ stack' = <<g>> \o Tail(stk) /\ UNCHANGED <<up, failed>>
  BY <1>1 DEF Turn, Inner
<1>3. fr.at = Past(w, fr.part)
  BY <1>1, <1>2, PlaceKept
<1>4. /\ OnPath(w, "finish", 1)
      /\ Weaker(Have(w, "climb", Past(w, "climb")), Have(w, "finish", 1))
  BY <1>1, LadderBooks DEF Balanced
<1>5. g \in FrameType /\ g.name = fr.name /\ g.n = fr.n /\ g.part = "finish" /\ g.at = 1
  BY <1>1 DEF FrameType, Parts
<1> HIDE DEF g
<1>6. Follows(g, w)
  BY <1>1, <1>4, <1>5 DEF Follows
<1>7. Follows(g, w)'
  BY <1>2, <1>6, StillFollows
<1>8. Holds(Have(w, "finish", 1))
  BY <1>2, <1>3, <1>4, WeakerHolds DEF Inner
<1>9. Holds(Have(w, g.part, g.at))' /\ Supported'
  BY <1>2, <1>5, <1>8, SameHolds DEF Inner
<1> QED BY <1>2, <1>5, <1>7, <1>9, Resumed DEF Inner

\* What a function comes to is what the account of its caller allows for.
LEMMA ReturnKeepsBooks ==
  ASSUME NEW stk, NEW es, NEW fr, NEW w, Inner(stk, es, fr, w), Return
  PROVE  Books'
<1>1. fr \in FrameType /\ w \in Accounts /\ Follows(fr, w) /\ Head(stack) = fr
  BY InnerFacts
<1>2. AtEnd(fr) /\ fr.part # "climb" /\ UNCHANGED <<up, failed>>
  BY <1>1 DEF Return
<1>3. fr.at = Past(w, fr.part) /\ fr.part \in Parts
  BY <1>1, <1>2, PlaceKept DEF FrameType
<1>4. Holds(Have(w, fr.part, Past(w, fr.part))) /\ Supported
  BY <1>3 DEF Inner
<1>5. CASE Len(stk) = 1
  <2>1. stack' = <<>>
    BY <1>5 DEF Return, Inner
  <2>2. Whole(w)
    BY <1>5 DEF Inner, Chain
  <2>3. Have(w, fr.part, Past(w, fr.part)).may \subseteq Always
    BY <1>2, <1>3, <2>2 DEF Whole
  <2>4. up \subseteq Loose
    BY <1>4, <2>3 DEF Holds, Loose
  <2>5. Loose' = Loose /\ Supported'
    BY <1>2, <1>4, SameHolds
  <2>6. stack' \in Seq(FrameType)
    BY <2>1
  <2> QED BY <1>2, <2>1, <2>4, <2>5, <2>6 DEF Books
<1>6. CASE Len(stk) # 1
  <2> DEFINE caller == stk[2]
             rest == Tail(stk)
             s == Steps(caller)[caller.at]
             ok == fr.part = "finish"
             g == Proceed(caller, s, ok)
             v == es[2]
  <2>1. /\ rest # <<>> /\ Calls(caller, v, w)
        /\ \E fs \in [1..(Len(stk) - 1) -> Accounts] : fs[1] = v /\ Chain(rest, fs)
    BY <1>6, Popping DEF Inner
  <2>2. PICK fs \in [1..(Len(stk) - 1) -> Accounts] : fs[1] = v /\ Chain(rest, fs)
    BY <2>1
  <2>3. rest \in Seq(FrameType) /\ rest[1] = caller /\ Len(rest) \in Nat /\ Len(rest) >= 1
    <3>1. /\ rest \in Seq(FrameType) /\ Len(rest) = Len(stk) - 1 /\ Len(stk) \in Nat
          /\ \A i \in 1..(Len(stk) - 1) : rest[i] = stk[i + 1]
      BY Popped DEF Inner
    <3>2. Len(stk) - 1 >= 1
      <4>1. Len(stk) >= 1
        BY Popped DEF Inner
      <4> QED BY <1>6, <3>1, <4>1
    <3>3. 1 \in 1..(Len(stk) - 1) /\ 1 + 1 = 2
      BY <3>1, <3>2
    <3> QED BY <3>1, <3>2, <3>3
  <2>4. caller \in FrameType
    BY <2>1, <2>3, Popped
  <2>5. v \in Accounts /\ Follows(caller, v)
    <3>1. 1 \in 1..Len(rest)
      BY <2>3
    <3> QED BY <2>2, <2>3, <3>1 DEF Chain
  <2>6. ~ AtEnd(caller) /\ Enters(v, caller.part, caller.at, s, w)
    BY <2>1 DEF Calls
  <2>7. stack' = <<g>> \o Tail(rest)
    BY <1>1, <1>6 DEF Return, Inner
  <2>8. Supported' /\ failed \subseteq failed' /\ up' = up
    BY <1>2, <1>4, SameHolds
  <2> HIDE DEF s, v, caller, rest
  <2>9. CASE ok
    <3>1. /\ g \in FrameType /\ g.name = caller.name /\ g.part = caller.part /\ g.at = caller.at + 1
          /\ Follows(g, v)'
      BY <2>4, <2>5, <2>6, <2>8, <2>9, GoesOn
    <3>2. Weaker(Have(w, "finish", Past(w, "finish")), Have(v, caller.part, caller.at + 1))
      BY <2>6 DEF Enters
    <3>3. Holds(Have(v, caller.part, caller.at + 1))
      BY <1>4, <2>9, <3>2, WeakerHolds
    <3> HIDE DEF g
    <3>4. Holds(Have(v, g.part, g.at))'
      BY <1>2, <3>1, <3>3, SameHolds
    <3> QED BY <2>1, <2>2, <2>3, <2>7, <2>8, <3>1, <3>4, Resumed
  <2>10. CASE ~ ok
    <3>1. fr.part \in {"descent", "left"}
      BY <1>2, <1>3, <2>10 DEF Parts
    <3>2. PICK r \in failed : r \in w.causes[fr.part]
      BY <1>1, <3>1 DEF Follows
    <3>3. Fails(v, caller.part, caller.at, s, Have(w, fr.part, Past(w, fr.part)), r)
      BY <2>6, <3>1, <3>2 DEF Enters
    <3>4. r \in failed'
      BY <2>8, <3>2
    <3> DEFINE h == Proceed(caller, s, FALSE)
    <3>5. stack' = <<h>> \o Tail(rest)
      BY <2>7, <2>10
    <3>6. /\ h \in FrameType /\ h.name = caller.name
          /\ Follows(h, v)' /\ Holds(Have(v, h.part, h.at))'
      BY <1>4, <2>4, <2>5, <2>6, <2>8, <3>3, <3>4, Lands
    <3> HIDE DEF h
    <3> QED BY <2>1, <2>2, <2>3, <2>8, <3>5, <3>6, Resumed
  <2> QED BY <2>9, <2>10
<1> QED BY <1>5, <1>6

------------------------------------------------------------------------------
(* The theorems.                                                           *)

\* A route begins with the books of its account.
LEMMA InitBooks == Init => Books
<1> SUFFICES ASSUME Init PROVE Books
  OBVIOUS
<1>1. PICK r \in Routes : stack = <<Frame(r, 0)>>
  BY DEF Init
<1>2. PICK w \in Accounts : w.name = r /\ Whole(w)
  BY LadderBooks
<1> DEFINE g == Frame(r, 0)
           es == [i \in 1..1 |-> w]
<1>3. Balanced(w)
  BY LadderBooks
<1>4. g \in FrameType /\ g.name = w.name /\ g.n = w.n /\ g.part = "climb" /\ g.at = 1
  BY <1>2, <1>3 DEF Frame, FrameType, Parts, Balanced, Whole
<1>5. stack \in Seq(FrameType) /\ stack # <<>> /\ Len(stack) = 1 /\ stack[1] = g
  BY <1>1, <1>4
<1>6. es \in [1..Len(stack) -> Accounts] /\ es[1] = w
  BY <1>5
<1> HIDE DEF g, es
<1>7. Follows(g, w)
  BY <1>2, <1>3, <1>4 DEF Follows, Whole, Balanced
<1>8. \A i \in 1..Len(stack) : i = 1
  BY <1>5
<1>9. \A i \in 1..Len(stack) : es[i].sw <=> \E j \in i..Len(stack) : InSwitch(stack[j].name)
  <2> SUFFICES ~ \E j \in 1..Len(stack) : InSwitch(stack[j].name)
    BY <1>2, <1>6, <1>8 DEF Whole
  <2> QED BY <1>2, <1>4, <1>5, <1>8 DEF Whole
<1>10. Chain(stack, es)
  <2>1. \A i \in 1..Len(stack) : Follows(stack[i], es[i])
    BY <1>5, <1>6, <1>7, <1>8
  <2>2. \A i \in 1..Len(stack) : i < Len(stack) => Calls(stack[i + 1], es[i + 1], es[i])
    BY <1>5, <1>8
  <2>3. Whole(es[Len(stack)])
    BY <1>2, <1>5, <1>6
  <2> QED BY <1>6, <1>9, <2>1, <2>2, <2>3 DEF Chain
<1>11. up = {}
  BY DEF Init
<1>12. Holds(Have(w, g.part, g.at)) /\ Supported
  BY <1>2, <1>4, <1>11 DEF Holds, Supported, Whole
<1>13. Sound(stack)
  BY <1>5, <1>6, <1>10, <1>12 DEF Sound
<1> QED BY <1>5, <1>12, <1>13 DEF Books

\* The stack that runs, piece by piece.
LEMMA InnerExists ==
  ASSUME Books, stack # <<>>
  PROVE  \E stk, es, fr, w : Inner(stk, es, fr, w)
<1>1. PICK es \in [1..Len(stack) -> Accounts] :
              Chain(stack, es) /\ Holds(Have(es[1], stack[1].part, stack[1].at))
  BY DEF Books, Sound
<1>2. Inner(stack, es, stack[1], es[1])
  BY <1>1 DEF Books, Inner
<1> QED BY <1>2

\* Every step keeps the books.
LEMMA StepKeepsBooks == Books /\ [Next]_vars => Books'
<1> SUFFICES ASSUME Books, [Next]_vars PROVE Books'
  OBVIOUS
<1>1. CASE UNCHANGED vars
  BY <1>1 DEF vars, Books, Sound, Chain, Follows, Holds, Supported, Loose, Costs
<1>2. CASE Next
  <2>1. stack # <<>>
    BY <1>2 DEF Next, Running, Turn, Return, Pending
  <2>2. PICK stk, es, fr, w : Inner(stk, es, fr, w)
    BY <2>1, InnerExists
  <2>3. Head(stack) = fr
    BY <2>2, InnerFacts
  <2>4. CASE \E s \in Pending : CallStep(s) \/ PollIsp(s) \/ KeyPressed(s)
    <3>1. PICK s \in Pending : CallStep(s) \/ PollIsp(s) \/ KeyPressed(s)
      BY <2>4
    <3>2. ~ AtEnd(fr) /\ s = Steps(fr)[fr.at]
      BY <2>1, <2>3, <3>1 DEF Pending
    <3> QED BY <2>2, <3>1, <3>2, CallKeepsBooks
  <2>5. CASE Turn
    BY <2>2, <2>5, TurnKeepsBooks
  <2>6. CASE Return
    BY <2>2, <2>6, ReturnKeepsBooks
  <2> QED BY <1>2, <2>4, <2>5, <2>6 DEF Next, Running
<1> QED BY <1>1, <1>2

\* At every moment the functions entered are in accounts that fit.
THEOREM BooksHold == Spec => []Books
BY InitBooks, StepKeepsBooks, PTL DEF Spec

\* NothingLeft: however many calls fail, a route that ends has taken down
\* everything it brought up, the objects that the failed calls cost apart.
THEOREM RoutesLeaveNothing == Spec => []NothingLeft
<1>1. Books => NothingLeft
  BY DEF Books, NothingLeft
<1> QED BY <1>1, BooksHold, PTL

\* Supported: whatever is up and not lost stands on what it needs.
THEOREM RoutesStaySupported == Spec => []Supported
<1>1. Books => Supported
  BY DEF Books
<1> QED BY <1>1, BooksHold, PTL

\* InTurn: a stop finds its object up, a start finds it down, unless it is
\* lost or an encoder channel stopped a second time.
THEOREM RoutesGoInTurn == Spec => []InTurn
<1>1. Books => InTurn
  <2> SUFFICES ASSUME Books, NEW s \in Pending
               PROVE  /\ s.op = "stop" /\ s.what \notin up => Again(s) \/ s.what \in Loose
                      /\ s.op = "start" /\ s.what \in up => s.what \in Loose
    BY DEF InTurn, StopsWhatIsUp, NeverTwice
  <2>1. stack # <<>>
    BY DEF Pending
  <2>2. PICK stk, es, fr, w : Inner(stk, es, fr, w)
    BY <2>1, InnerExists
  <2>3. fr \in FrameType /\ w \in Accounts /\ Follows(fr, w) /\ Head(stack) = fr
    BY <2>2, InnerFacts
  <2>4. ~ AtEnd(fr) /\ s = Steps(fr)[fr.at]
    BY <2>1, <2>3 DEF Pending
  <2> DEFINE b == Have(w, fr.part, fr.at)
  <2>5. /\ Grounded(b, s)
        /\ s.op = "stop" => s.what \in b.must \/ Again(s) \/ Known(w, fr.part, s.what)
    BY <2>3, <2>4, StepKept
  <2>6. Holds(b)
    BY <2>2 DEF Inner
  <2> HIDE DEF b
  <2>7. ASSUME s.op = "stop", s.what \notin up
        PROVE  Again(s) \/ s.what \in Loose
    <3>1. CASE s.what \in b.must
      BY <2>6, <2>7, <3>1, LostIsLoose DEF Holds, Loose
    <3>2. CASE Known(w, fr.part, s.what)
      BY <2>3, <3>2, KnownLost DEF Loose
    <3> QED BY <2>5, <2>7, <3>1, <3>2
  <2>8. ASSUME s.op = "start", s.what \in up
        PROVE  s.what \in Loose
    BY <2>5, <2>6, <2>8 DEF Grounded, Holds, Loose
  <2> QED BY <2>7, <2>8
<1> QED BY <1>1, BooksHold, PTL

\* What the code has seen fail goes back to calls that have failed by
\* themselves: no function makes a call that its own route has made senseless,
\* a start of what is up or a tested stop of what is down.
Blameless == faults \in Nat /\ (faults = 0 => failed = {})

LEMMA StepKeepsBlameless == Books /\ Blameless /\ [Next]_vars => Blameless'
<1> SUFFICES ASSUME Books, Blameless, [Next]_vars PROVE Blameless'
  OBVIOUS
<1>1. CASE UNCHANGED <<failed, faults>>
  BY <1>1 DEF Blameless
<1>2. ASSUME NEW s \in Pending, CallFails(s) PROVE Blameless'
  BY <1>2 DEF CallFails, Blameless
<1>3. ASSUME NEW s \in Pending, CallRefused(s) PROVE Blameless'
  <2>1. CASE s.land = 0 \/ faults # 0
    BY <1>3, <2>1 DEF CallRefused, Blameless
  <2>2. CASE s.land # 0 /\ faults = 0
    <3>1. failed = {} /\ Costs = {}
      BY <2>2 DEF Blameless, Costs
    <3>2. stack # <<>>
      BY DEF Pending
    <3>3. PICK stk, es, fr, w : Inner(stk, es, fr, w)
      BY <3>2, InnerExists
    <3>4. fr \in FrameType /\ w \in Accounts /\ Follows(fr, w) /\ Head(stack) = fr
      BY <3>3, InnerFacts
    <3>5. ~ AtEnd(fr) /\ s = Steps(fr)[fr.at]
      BY <3>2, <3>4 DEF Pending
    <3> DEFINE b == Have(w, fr.part, fr.at)
    <3>6. /\ Grounded(b, s)
          /\ s.op = "stop" => s.what \in b.must \/ Again(s) \/ Known(w, fr.part, s.what)
      BY <3>4, <3>5, StepKept
    <3>7. Holds(b)
      BY <3>3 DEF Inner
    <3> HIDE DEF b
    <3>8. CASE s.op = "start" /\ s.what \in up
      BY <3>1, <3>6, <3>7, <3>8 DEF Grounded, Holds
    <3>9. CASE s.op = "stop" /\ s.what \notin up
      <4>1. s.what \notin b.must
        BY <3>1, <3>7, <3>9 DEF Holds
      <4>2. ~ Again(s)
        BY <2>2 DEF Again
      <4>3. ~ Known(w, fr.part, s.what)
        BY <3>1, <3>4, KnownLost
      <4> QED BY <3>6, <3>9, <4>1, <4>2, <4>3
    <3> QED BY <1>3, <3>8, <3>9 DEF CallRefused
  <2> QED BY <2>1, <2>2
<1> QED
  BY <1>1, <1>2, <1>3
  DEF vars, Next, Running, CallStep, Turn, Return, StartOk, StopOk, SetOk, JoinThread, Enter, PollIsp, KeyPressed

\* A route in which no call fails by itself meets no failure at all, and leaves
\* nothing but the pool that is never destroyed.
THEOREM CleanRoutes ==
  Spec => [](faults = 0 => failed = {} /\ (stack = <<>> => up \subseteq Always))
<1>1. Init => Blameless
  BY DEF Init, Blameless
<1>2. Books /\ Blameless => (faults = 0 => failed = {} /\ (stack = <<>> => up \subseteq Always))
  BY DEF Books, Blameless, Loose, Costs
<1> QED BY <1>1, <1>2, InitBooks, StepKeepsBooks, StepKeepsBlameless, PTL DEF Spec
=============================================================================
