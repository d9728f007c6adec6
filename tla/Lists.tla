------------------------------- MODULE Lists -------------------------------
(***************************************************************************)
(* The lists of osal_list.h, the header the board's drivers and samples    *)
(* are built with: rings of links with a head, and chains whose links know *)
(* the pointer that points to them.  A step is a call; the heap before it  *)
(* is any in which each entry lies in one list or alone.                   *)
(***************************************************************************)
EXTENDS Integers, Sequences, FiniteSets

ListHeads == {1, 2}
Entries   == {3, 4, 5}
Links     == ListHeads \cup Entries
Null      == 0
Poison1   == -1                            \* where a deleted entry points to
Poison2   == -2

-----------------------------------------------------------------------------
(* Rings: "next" and "prev" of each link.                                  *)

InitListHead(h, list) == [h EXCEPT !.next[list] = list, !.prev[list] = list]

\* Between two that follow each other.
LinkIn(h, new, prev, next) ==
    [h EXCEPT !.prev[next] = new, !.next[new] = next, !.prev[new] = prev, !.next[prev] = new]
ListAdd(h, new, head)     == LinkIn(h, new, head, h.next[head])
ListAddTail(h, new, head) == LinkIn(h, new, h.prev[head], head)

LinkOut(h, prev, next)     == [h EXCEPT !.prev[next] = prev, !.next[prev] = next]
ListDelEntry(h, entry)     == LinkOut(h, h.prev[entry], h.next[entry])
ListDel(h, entry)          == [LinkOut(h, h.prev[entry], h.next[entry]) EXCEPT !.next[entry] = Poison1, !.prev[entry] = Poison2]
ListDelInit(h, entry)      == InitListHead(ListDelEntry(h, entry), entry)
ListMove(h, list, head)     == ListAdd(ListDelEntry(h, list), list, head)
ListMoveTail(h, list, head) == ListAddTail(ListDelEntry(h, list), list, head)

\* Each store is seen by the next: whoever replaces an empty head finds itself.
ListReplace(h, old, new) ==
    LET one == [h EXCEPT !.next[new] = h.next[old], !.prev[h.next[old]] = new]
    IN [one EXCEPT !.prev[new] = one.prev[old], !.next[one.prev[old]] = new]
ListReplaceInit(h, old, new) == InitListHead(ListReplace(h, old, new), old)

ListIsLast(h, list, head)  == h.next[list] = head
ListEmpty(h, head)         == h.next[head] = head
ListEmptyCareful(h, head)  == h.next[head] = head /\ h.prev[head] = head
ListIsSingular(h, head)    == ~ListEmpty(h, head) /\ h.next[head] = h.prev[head]
ListRotateLeft(h, head)    == IF ListEmpty(h, head) THEN h ELSE ListMoveTail(h, h.next[head], head)

CutBehind(h, list, head, entry) ==
    [h EXCEPT !.next[list] = h.next[head], !.prev[h.next[head]] = list, !.prev[list] = entry,
              !.next[entry] = list, !.next[head] = h.next[entry], !.prev[h.next[entry]] = head]
ListCutPosition(h, list, head, entry) ==
    IF ListEmpty(h, head) \/ (ListIsSingular(h, head) /\ h.next[head] # entry /\ head # entry) THEN h
    ELSE IF entry = head THEN InitListHead(h, list)
    ELSE CutBehind(h, list, head, entry)

SpliceIn(h, list, prev, next) ==
    [h EXCEPT !.prev[h.next[list]] = prev, !.next[prev] = h.next[list],
              !.next[h.prev[list]] = next, !.prev[next] = h.prev[list]]
ListSplice(h, list, head) ==
    IF ListEmpty(h, list) THEN h ELSE SpliceIn(h, list, head, h.next[head])
ListSpliceTail(h, list, head) ==
    IF ListEmpty(h, list) THEN h ELSE SpliceIn(h, list, h.prev[head], head)
ListSpliceInit(h, list, head) ==
    IF ListEmpty(h, list) THEN h ELSE InitListHead(SpliceIn(h, list, head, h.next[head]), list)
ListSpliceTailInit(h, list, head) ==
    IF ListEmpty(h, list) THEN h ELSE InitListHead(SpliceIn(h, list, h.prev[head], head), list)

\* What a loop visits, from a link until it finds the one it stops at; no loop
\* over these links is longer than they are many.
Visit(link, from, stop) ==
    LET pos[i \in 0..Cardinality(Links)] ==
            IF i = 0 THEN from
            ELSE IF pos[i - 1] = stop \/ pos[i - 1] \notin DOMAIN link THEN pos[i - 1] ELSE link[pos[i - 1]]
    IN [i \in 1..Cardinality({k \in DOMAIN pos : pos[k] # stop}) |-> pos[i - 1]]

ForEach(h, head)                   == Visit(h.next, h.next[head], head)
ForEachPrev(h, head)               == Visit(h.prev, h.prev[head], head)
ForEachContinue(h, pos, head)        == Visit(h.next, h.next[pos], head)
ForEachContinueReverse(h, pos, head) == Visit(h.prev, h.prev[pos], head)
ForEachFrom(h, pos, head)            == Visit(h.next, pos, head)

\* The safe loops know the next link before the body, here one that deletes
\* some of the entries, has its way.
Drop(h, pos, del) == IF pos \in del THEN ListDel(h, pos) ELSE h
SafeFrom(h, from, head, del, way) ==
    LET to(g, l) == IF way = "next" THEN g.next[l] ELSE g.prev[l]
        loop[i \in 0..Cardinality(Links)] ==
            IF i = 0 THEN [h |-> h, pos |-> from, n |-> to(h, from)]
            ELSE LET s == loop[i - 1]
                 IN IF s.pos = head THEN s
                    ELSE LET g == Drop(s.h, s.pos, del)
                         IN [h |-> g, pos |-> s.n, n |-> to(g, s.n)]
    IN loop[Cardinality(Links)].h
ForEachSafe(h, head, del)               == SafeFrom(h, h.next[head], head, del, "next")
ForEachPrevSafe(h, head, del)           == SafeFrom(h, h.prev[head], head, del, "prev")
ForEachSafeContinue(h, pos, head, del)  == SafeFrom(h, h.next[pos], head, del, "next")
ForEachSafeFrom(h, pos, head, del)      == SafeFrom(h, pos, head, del, "next")

-----------------------------------------------------------------------------
(* Chains.  A head is a pointer, "next" of a head is its "first"; "pprev"  *)
(* is the link whose pointer it is.                                        *)

InitHlistNode(h, n) == [h EXCEPT !.next[n] = Null, !.pprev[n] = Null]
HlistUnhashed(h, n) == h.pprev[n] = Null
HlistEmpty(h, head) == h.next[head] = Null

\* The pointer of the one behind, if there is one.
Back(h, next, pprev) == IF next = Null THEN h ELSE [h EXCEPT !.pprev[next] = pprev]

HlistUnlink(h, n)  == Back([h EXCEPT !.next[h.pprev[n]] = h.next[n]], h.next[n], h.pprev[n])
HlistDel(h, n)     == [HlistUnlink(h, n) EXCEPT !.next[n] = Poison1, !.pprev[n] = Poison2]
HlistDelInit(h, n) == IF HlistUnhashed(h, n) THEN h ELSE InitHlistNode(HlistUnlink(h, n), n)

HlistAddHead(h, n, head) ==
    [Back([h EXCEPT !.next[n] = h.next[head]], h.next[head], n) EXCEPT !.next[head] = n, !.pprev[n] = head]
HlistAddBefore(h, n, next) ==
    [h EXCEPT !.pprev[n] = h.pprev[next], !.next[n] = next, !.pprev[next] = n, !.next[h.pprev[next]] = n]
HlistAddAfter(h, n, next) ==
    Back([h EXCEPT !.next[next] = h.next[n], !.next[n] = next, !.pprev[next] = n], h.next[n], next)
HlistAddFake(h, n) == [h EXCEPT !.pprev[n] = n]
HlistMoveList(h, old, new) ==
    [Back([h EXCEPT !.next[new] = h.next[old]], h.next[old], new) EXCEPT !.next[old] = Null]

HlistForEach(h, head)         == Visit(h.next, h.next[head], Null)
HlistForEachContinue(h, pos)  == Visit(h.next, h.next[pos], Null)
HlistForEachFrom(h, pos)      == Visit(h.next, pos, Null)
HlistForEachSafe(h, head, del) ==
    LET to(g, l) == IF l = Null THEN Null ELSE g.next[l]
        loop[i \in 0..Cardinality(Links)] ==
            IF i = 0 THEN [h |-> h, pos |-> h.next[head], n |-> to(h, h.next[head])]
            ELSE LET s == loop[i - 1]
                 IN IF s.pos = Null THEN s
                    ELSE LET g == IF s.pos \in del THEN HlistDel(s.h, s.pos) ELSE s.h
                         IN [h |-> g, pos |-> s.n, n |-> to(g, s.n)]
    IN loop[Cardinality(Links)].h

-----------------------------------------------------------------------------
(* What is asked, and what must hold of the answers.                       *)

In(s)      == {s[i] : i \in DOMAIN s}
Sequenced  == {s \in UNION {[1..n -> Entries] : n \in 0..Cardinality(Entries)} : Cardinality(In(s)) = Len(s)}
Held       == {l \in [ListHeads -> Sequenced] : In(l[1]) \cap In(l[2]) = {}}

\* The heap that holds these lists; the other entries are alone.
Next2(s, head, e, end) ==
    IF e = head THEN (IF s = <<>> THEN end ELSE s[1])
    ELSE LET i == CHOOSE i \in DOMAIN s : s[i] = e IN IF i = Len(s) THEN end ELSE s[i + 1]
Flip(s) == [i \in DOMAIN s |-> s[Len(s) + 1 - i]]
Of2(l, e) == IF e \in ListHeads THEN {e} ELSE {i \in ListHeads : e \in In(l[i])}
Ring(l) ==
    [next |-> [e \in Links |-> IF Of2(l, e) = {} THEN e ELSE LET i == CHOOSE i \in Of2(l, e) : TRUE IN Next2(l[i], i, e, i)],
     prev |-> [e \in Links |-> IF Of2(l, e) = {} THEN e ELSE LET i == CHOOSE i \in Of2(l, e) : TRUE IN Next2(Flip(l[i]), i, e, i)]]
Chain(l) ==
    [next  |-> [e \in Links |-> IF Of2(l, e) = {} THEN Null ELSE LET i == CHOOSE i \in Of2(l, e) : TRUE IN Next2(l[i], i, e, Null)],
     pprev |-> [e \in Entries |-> IF Of2(l, e) = {} THEN Null ELSE LET i == CHOOSE i \in Of2(l, e) : TRUE IN Next2(Flip(l[i]), i, e, i)]]

RingOps  == {"add", "tail", "del", "init", "move", "movetail", "replace", "rotate", "cut", "splice", "splicetail", "safe"}
ChainOps == {"head", "before", "after", "del", "init", "fake", "movelist", "safe"}

\* x: the entry, or the list that is given up; y: where to.
Loose(l)   == Entries \ (In(l[1]) \cup In(l[2]))
Placed2(l) == Entries \ Loose(l)
RingLegal(op, l, x, y) ==
    CASE op \in {"add", "tail"} -> x \in Loose(l) /\ y \in ListHeads
      [] op \in {"del", "init"} -> x \in Placed2(l) /\ y = 1
      [] op \in {"move", "movetail"} -> x \in Placed2(l) /\ y \in ListHeads
      [] op = "replace" -> x \in Placed2(l) \cup ListHeads /\ y \in Loose(l)
      [] op = "rotate"  -> x \in ListHeads /\ y = 1
      [] op = "cut"     -> x \in ListHeads /\ l[3 - x] = <<>> /\ y \in In(l[x]) \cup {x}
      [] op \in {"splice", "splicetail"} -> x \in ListHeads /\ y = 3 - x
      [] op = "safe"    -> x \in ListHeads /\ y \in Entries
ChainLegal(op, l, x, y) ==
    CASE op = "head" -> x \in Loose(l) /\ y \in ListHeads
      [] op \in {"before", "after"} -> x \in Loose(l) /\ y \in Placed2(l)
      [] op = "del" -> x \in Placed2(l) /\ y = 1
      [] op = "init" -> x \in Entries /\ y = 1
      [] op = "fake" -> x \in Loose(l) /\ y = 1
      [] op = "movelist" -> x \in ListHeads /\ y = 3 - x /\ l[y] = <<>>
      [] op = "safe" -> x \in ListHeads /\ y \in Entries
ListCalls ==
    {c \in [what : {"links"}, op : RingOps, lists : Held, x : Links, y : Links] : RingLegal(c.op, c.lists, c.x, c.y)}
    \cup {c \in [what : {"chain"}, op : ChainOps, lists : Held, x : Links, y : Links] : ChainLegal(c.op, c.lists, c.x, c.y)}

\* The heaps it leaves: the plain call, and the one that tidies up behind it.
RingDone(c) ==
    LET h == Ring(c.lists)
    IN CASE c.op = "add"        -> <<ListAdd(h, c.x, c.y)>>
         [] c.op = "tail"       -> <<ListAddTail(h, c.x, c.y)>>
         [] c.op = "del"        -> <<ListDel(h, c.x), ListDelInit(h, c.x)>>
         [] c.op = "init"       -> <<ListDelInit(h, c.x)>>
         [] c.op = "move"       -> <<ListMove(h, c.x, c.y)>>
         [] c.op = "movetail"   -> <<ListMoveTail(h, c.x, c.y)>>
         [] c.op = "replace"    -> <<ListReplace(h, c.x, c.y), ListReplaceInit(h, c.x, c.y)>>
         [] c.op = "rotate"     -> <<ListRotateLeft(h, c.x)>>
         [] c.op = "cut"        -> <<ListCutPosition(h, 3 - c.x, c.x, c.y)>>
         [] c.op = "splice"     -> <<ListSplice(h, c.x, c.y), ListSpliceInit(h, c.x, c.y)>>
         [] c.op = "splicetail" -> <<ListSpliceTail(h, c.x, c.y), ListSpliceTailInit(h, c.x, c.y)>>
         [] c.op = "safe"       -> <<ForEachSafe(h, c.x, {c.y}), ForEachPrevSafe(h, c.x, {c.y}),
                                     ForEachSafeContinue(h, c.x, c.x, {c.y}), ForEachSafeFrom(h, h.next[c.x], c.x, {c.y})>>
ChainDone(c) ==
    LET h == Chain(c.lists)
    IN CASE c.op = "head"     -> <<HlistAddHead(h, c.x, c.y)>>
         [] c.op = "before"   -> <<HlistAddBefore(h, c.x, c.y)>>
         [] c.op = "after"    -> <<HlistAddAfter(h, c.y, c.x)>>
         [] c.op = "del"      -> <<HlistDel(h, c.x)>>
         [] c.op = "init"     -> <<HlistDelInit(h, c.x)>>
         [] c.op = "fake"     -> <<HlistAddFake(h, c.x), HlistDel(HlistAddFake(h, c.x), c.x)>>
         [] c.op = "movelist" -> <<HlistMoveList(h, c.x, c.y)>>
         [] c.op = "safe"     -> <<HlistForEachSafe(h, c.x, {c.y})>>

\* The sequences the same call makes of sequences.
Without(s, e)    == SelectSeq(s, LAMBDA x : x # e)
At(s, e)         == CHOOSE i \in DOMAIN s : s[i] = e
Asked2(c) ==
    LET l == c.lists
        gone == [i \in ListHeads |-> Without(l[i], c.x)]
        x == c.x  y == c.y
    IN CASE c.op \in {"add", "head"} -> [l EXCEPT ![y] = <<x>> \o @]
         [] c.op = "tail" -> [l EXCEPT ![y] = Append(@, x)]
         [] c.op \in {"del", "init"} -> gone
         [] c.op = "move" -> [gone EXCEPT ![y] = <<x>> \o @]
         [] c.op = "movetail" -> [gone EXCEPT ![y] = Append(@, x)]
         [] c.op = "replace" -> [i \in ListHeads |-> [k \in DOMAIN l[i] |-> IF l[i][k] = x THEN y ELSE l[i][k]]]
         [] c.op = "rotate" -> [l EXCEPT ![x] = IF @ = <<>> THEN @ ELSE Append(Tail(@), Head(@))]
         [] c.op = "cut" -> LET n == IF x = y THEN 0 ELSE At(l[x], y)
                            IN [i \in ListHeads |-> IF i = x THEN SubSeq(l[x], n + 1, Len(l[x])) ELSE SubSeq(l[x], 1, n)]
         [] c.op = "splice" -> [i \in ListHeads |-> IF i = x THEN <<>> ELSE l[x] \o l[y]]
         [] c.op = "splicetail" -> [i \in ListHeads |-> IF i = x THEN <<>> ELSE l[y] \o l[x]]
         [] c.op = "safe" -> [l EXCEPT ![x] = Without(@, y)]
         [] c.op = "before" -> [i \in ListHeads |-> IF y \in In(l[i])
                                  THEN SubSeq(l[i], 1, At(l[i], y) - 1) \o <<x>> \o SubSeq(l[i], At(l[i], y), Len(l[i])) ELSE l[i]]
         [] c.op = "after" -> [i \in ListHeads |-> IF y \in In(l[i])
                                  THEN SubSeq(l[i], 1, At(l[i], y)) \o <<x>> \o SubSeq(l[i], At(l[i], y) + 1, Len(l[i])) ELSE l[i]]
         [] c.op = "movelist" -> [i \in ListHeads |-> IF i = x THEN <<>> ELSE l[x]]
         [] c.op = "fake" -> l

\* A ring is the same backwards; the tests say what the loops see, and a loop
\* that begins at an entry, or behind it, sees the rest.
RingHolds(h, head, s) ==
    /\ ForEach(h, head) = s /\ ForEachPrev(h, head) = Flip(s)
    /\ ListEmpty(h, head) <=> s = <<>>
    /\ ListEmptyCareful(h, head) <=> s = <<>>
    /\ ListIsSingular(h, head) <=> Len(s) = 1
    /\ \A i \in DOMAIN s :
          /\ ListIsLast(h, s[i], head) <=> i = Len(s)
          /\ ForEachFrom(h, s[i], head) = SubSeq(s, i, Len(s))
          /\ ForEachContinue(h, s[i], head) = SubSeq(s, i + 1, Len(s))
          /\ ForEachContinueReverse(h, s[i], head) = Flip(SubSeq(s, 1, i - 1))
ChainHolds(h, head, s) ==
    /\ HlistForEach(h, head) = s
    /\ HlistEmpty(h, head) <=> s = <<>>
    /\ \A i \in DOMAIN s :
          /\ h.next[h.pprev[s[i]]] = s[i] /\ ~HlistUnhashed(h, s[i])
          /\ HlistForEachFrom(h, s[i]) = SubSeq(s, i, Len(s))
          /\ HlistForEachContinue(h, s[i]) = SubSeq(s, i + 1, Len(s))

\* The lists are the sequences that are asked for.  A list that was spliced
\* is only fit for use if it was tidied up; a head that was replaced hands
\* its list on, and only the tidy call leaves it empty; what was deleted
\* is in no list, and in the tidy way may be deleted again.
ListsKept(c, heaps) ==
    LET want == Asked2(c)
        tidy == heaps[Len(heaps)]
        head == c.op = "replace" /\ c.x \in ListHeads
        left(i) == c.op \in {"splice", "splicetail"} /\ i = c.x
    IN IF c.what = "links"
       THEN /\ \A k \in DOMAIN heaps : \A i \in ListHeads :
                  IF head /\ i = c.x THEN RingHolds(heaps[k], c.y, c.lists[i])
                  ELSE (left(i) /\ k = 1) \/ RingHolds(heaps[k], i, want[i])
            /\ head => ForEach(tidy, c.x) = <<>>
            /\ c.op \in {"del", "init"} => RingHolds(tidy, c.x, <<>>) /\ ListDelInit(tidy, c.x) = tidy
       ELSE /\ \A k \in DOMAIN heaps : \A i \in ListHeads : ChainHolds(heaps[k], i, want[i])
            /\ c.op = "init" => HlistDelInit(tidy, c.x) = tidy /\ HlistUnhashed(tidy, c.x)
=============================================================================
