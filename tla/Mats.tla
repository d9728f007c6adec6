-------------------------------- MODULE Mats --------------------------------
(***************************************************************************)
(* ncnn/include/mat.h and allocator.h, as far as they are inline: where    *)
(* the elements of a Mat lie in its memory and in that of the views taken  *)
(* of it, and how many Mats share the memory.  Mats of yolov5.cpp hold the *)
(* three heads of the model, the padded picture and the one in YUV.        *)
(***************************************************************************)
EXTENDS Buffers, FiniteSets, Sequences

MallocAlign == 16                          \* NCNN_MALLOC_ALIGN
Overread    == 64                          \* NCNN_MALLOC_OVERREAD

\* Rounded up to a power of two; the memory behind a pointer is aligned, and
\* more than was asked for.
AlignSize(sz, n) == AlignUp(sz, n)
FastMalloc(size) == [align |-> MallocAlign, room |-> size + Overread]

-----------------------------------------------------------------------------
(* Layout.  "at" is where the data begin in the owner's memory.            *)

External(dims, shape, at, elemsize, elempack) ==
    LET plane == shape.w * shape.h * shape.d * elemsize
    IN [dims |-> dims, w |-> shape.w, h |-> shape.h, d |-> shape.d, c |-> shape.c, at |-> at,
        elemsize |-> elemsize, elempack |-> elempack,
        cstep |-> IF dims <= 2 THEN shape.w * shape.h ELSE AlignSize(plane, 16) \div elemsize]

\* What create, which is not in the header, makes of the same arguments.
Created(dims, shape, elemsize, elempack) == External(dims, shape, 0, elemsize, elempack)

Total(m)    == m.cstep * m.c
Elembits(m) == IF m.elempack = 0 THEN 0 ELSE (8 * m.elemsize) \div m.elempack
Empty(m)    == Total(m) = 0

Volume(w, h, d, c) == [w |-> w, h |-> h, d |-> d, c |-> c]

\* The same shape of single floats, without memory.
ShapeOf(m) ==
    LET p == m.elempack
    IN External(m.dims,
                CASE m.dims = 1 -> Volume(m.w * p, 1, 1, 1) [] m.dims = 2 -> Volume(m.w, m.h * p, 1, 1)
                  [] m.dims = 3 -> Volume(m.w, m.h, 1, m.c * p) [] m.dims = 4 -> Volume(m.w, m.h, m.d, m.c * p), 0, 4, 1)

\* A row of a plane; the first element of one is the row's address.
RowAt(m, y) == m.at + m.w * y * m.elemsize

\* A channel of a cube is a Mat of its planes, with nothing between them.
Channel(m, q) ==
    LET view == External(3, Volume(m.w, m.h, 1, m.d), m.at + m.cstep * q * m.elemsize, m.elemsize, m.elempack)
    IN [view EXCEPT !.dims = m.dims - 1, !.cstep = IF m.dims = 4 THEN m.w * m.h ELSE @]

Depth(m, z) == External(2, Volume(m.w, m.h, 1, 1), m.at + m.w * m.h * z * m.elemsize, m.elemsize, m.elempack)

ChannelRange(m, q, channels) ==
    [External(4, Volume(m.w, m.h, m.d, channels), m.at + m.cstep * q * m.elemsize, m.elemsize, m.elempack)
        EXCEPT !.dims = m.dims]

DepthRange(m, z, depths) ==
    [External(3, Volume(m.w, m.h, 1, depths), m.at + m.w * m.h * z * m.elemsize, m.elemsize, m.elempack)
        EXCEPT !.cstep = m.w * m.h]

RowRange(m, y, rows) == External(2, Volume(m.w, rows, 1, 1), RowAt(m, y), m.elemsize, m.elempack)
RangeOf(m, x, n)     == External(1, Volume(n, 1, 1, 1), m.at + x * m.elemsize, m.elemsize, m.elempack)

\* Four at a time as long as there are four, then one by one.
Fill(m) ==
    LET fours == Total(m) \div 4
    IN (0..(4 * fours - 1)) \cup ((4 * fours)..(Total(m) - 1))

\* A vector for each element, of so many lanes of so many bytes.
FillPacked(m, lanes, bytes) == m.at..(m.at + Total(m) * lanes * bytes - 1)

-----------------------------------------------------------------------------
(* Sharing.  A Mat knows the memory it points to ("data") and, unless it   *)
(* is a view, where its number of users is ("refcount").                   *)
Names   == 1..3
Memory  == 1..2
Nowhere == 0
NoMat   == [data |-> Nowhere, refcount |-> Nowhere]
MatHandles == {NoMat} \cup [data : Memory, refcount : {Nowhere}] \cup {[data |-> b, refcount |-> b] : b \in Memory}

\* What is alive is counted.
Users(mat, b) == Cardinality({n \in DOMAIN mat : mat[n].refcount = b})
Store(mat) ==
    LET used == {b \in Memory : Users(mat, b) > 0}
    IN [mat |-> mat, live |-> used, freed |-> <<>>, count |-> [b \in Memory |-> Users(mat, b)]]

\* The address is left alone, the number is what was there before.
Xadd(s, b, delta) == [s EXCEPT !.count[b] = @ + delta]

AddRef(s, m) == IF m.refcount = Nowhere THEN s ELSE Xadd(s, m.refcount, 1)

FastFree(live, b) == live \ {b}

\* The last user frees it, with the allocator it came from.
Release(s, n) ==
    LET b    == s.mat[n].refcount
        less == IF b = Nowhere THEN s ELSE Xadd(s, b, -1)
        last == b # Nowhere /\ s.count[b] = 1
    IN [less EXCEPT !.mat[n] = NoMat,
                    !.live = IF last THEN FastFree(@, b) ELSE @, !.freed = IF last THEN Append(@, b) ELSE @]

\* Itself assigned to itself changes nothing.  The right side is counted
\* before the left is given up.
Assign(s, n, k) ==
    IF n = k THEN s
    ELSE LET m == s.mat[k] IN [Release(AddRef(s, m), n) EXCEPT !.mat[n] = m]

\* A Mat that comes into being as a copy of another, and one that goes.
CopyOf(s, n, k)  == [AddRef(s, s.mat[k]) EXCEPT !.mat[n] = s.mat[k]]
Destroyed(s, n)  == Release(s, n)

\* A view is an external Mat: it counts for nothing.
ViewOf(s, n, k) == [Release(s, n) EXCEPT !.mat[n] = [data |-> s.mat[k].data, refcount |-> Nowhere]]

-----------------------------------------------------------------------------
(* What is asked, and what must hold of the answers.                       *)

\* The heads of the model, for pictures a multiple of 8, 16 and 32 wide.
Heads == {80, 40, 20}
Elements == {<<4, 1>>, <<2, 1>>, <<1, 1>>, <<16, 4>>, <<8, 4>>, <<32, 8>>}
MatCalls ==
    {[what |-> "mat", dims |-> dims, shape |-> Volume(w, h, IF dims = 4 THEN d ELSE 1, c), elem |-> e] :
       dims \in {3, 4}, w \in {1, 3, 5}, h \in {1, 2, 3}, d \in {1, 2}, c \in {1, 3}, e \in Elements}
    \cup {[what |-> "mat", dims |-> 4, shape |-> Volume(6, g, g, 3), elem |-> <<4, 1>>] : g \in Heads}
ShareCalls ==
    [what : {"share"}, mat : [Names -> MatHandles], op : {"assign", "copy", "destroy", "view"}, n : Names, k : Names]

ElementAt(m, x, y, z, q) == m.at + (m.cstep * q + m.w * m.h * z + m.w * y + x) * m.elemsize

Shared(c) ==
    LET s == Store(c.mat)
    IN CASE c.op = "assign"  -> Assign(s, c.n, c.k)
         [] c.op = "copy"    -> IF c.mat[c.n] = NoMat THEN CopyOf(s, c.n, c.k) ELSE s
         [] c.op = "destroy" -> Destroyed(s, c.n)
         [] c.op = "view"    -> IF c.n = c.k THEN s ELSE ViewOf(s, c.n, c.k)

\* An element is where it is in every view of it, elements do not overlap, a
\* view that is filled touches no other channel, and the floats of a head,
\* copied as one block, are found row by row.
MatPlaced(c, m) ==
    LET head  == c.shape.w = 6
        ends(n) == IF head THEN {0, 1, n - 1} ELSE 0..(n - 1)
        at(e) == ElementAt(m, e[1], e[2], e[3], e[4])
        elems == ends(m.w) \X ends(m.h) \X ends(m.d) \X ends(m.c)
        next  == m.at + m.cstep * m.elemsize
    IN /\ \A e, f \in elems : e # f => at(e) >= at(f) + m.elemsize \/ at(f) >= at(e) + m.elemsize
       /\ \A e \in elems : at(e) + m.elemsize <= m.at + Total(m) * m.elemsize
       /\ \A e \in elems :
             LET x == e[1]  y == e[2]  z == e[3]  q == e[4]
                 chn   == Channel(m, q)
                 plane == IF m.dims = 4 THEN Depth(chn, z) ELSE chn
             IN /\ ElementAt(chn, x, y, 0, IF m.dims = 4 THEN z ELSE 0) = at(e)
                /\ ElementAt(plane, x, y, 0, 0) = at(e)
                /\ ElementAt(RowRange(plane, y, m.h - y), x, 0, 0, 0) = at(e)
                /\ ElementAt(RangeOf(RowRange(plane, y, 1), x, m.w - x), 0, 0, 0, 0) = at(e)
                /\ ElementAt(ChannelRange(m, q, m.c - q), x, y, z, 0) = at(e)
                /\ m.dims = 4 => /\ RowAt(chn, z * m.h + y) + x * m.elemsize = at(e)
                                 /\ ElementAt(DepthRange(chn, z, m.d - z), x, y, 0, 0) = at(e)
       /\ ChannelRange(m, 0, m.c).cstep = m.cstep
       /\ ~head => FillPacked(Channel(m, 0), m.elempack, m.elemsize \div m.elempack) \subseteq m.at..(next - 1)
       /\ ~head => Fill(m) = 0..(Total(m) - 1)
       /\ LET s == ShapeOf(m) IN s.w * s.h * s.d * s.c = m.w * m.h * m.d * m.c * m.elempack /\ Elembits(s) = 32
       /\ head => /\ Total(m) = 3 * m.h * m.d * 6
                  /\ \A e \in elems : at(e) = 4 * (((e[4] * m.d + e[3]) * m.h + e[2]) * m.w + e[1])

\* Memory is freed by its last user, once, and is counted as often as it is
\* used; a Mat that has been assigned or copied has what the other has.
SharedFairly(c, s) ==
    LET before == Store(c.mat)
    IN /\ s.live = {b \in Memory : Users(s.mat, b) > 0}
       /\ \A b \in Memory : s.count[b] = Users(s.mat, b)
       /\ Len(s.freed) = Cardinality(before.live \ s.live) /\ {s.freed[i] : i \in DOMAIN s.freed} = before.live \ s.live
       /\ c.op = "assign" => s.mat[c.n] = c.mat[c.k]
       /\ c.op = "copy" => s.freed = <<>> /\ (c.mat[c.n] = NoMat => s.mat[c.n] = c.mat[c.k])
       /\ \A i \in Names \ {c.n} : s.mat[i] = c.mat[i]
=============================================================================
