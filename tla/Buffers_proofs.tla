--------------------------- MODULE Buffers_proofs ---------------------------
(***************************************************************************)
(* The sizes of Buffers fit what they are asked for, whatever the width,   *)
(* the height, the alignment and the bits: TLC meets them on both sides of *)
(* each step only.                                                         *)
(***************************************************************************)
EXTENDS Buffers, TLAPS

-----------------------------------------------------------------------------
(* Division and alignment.                                                 *)

\* A quotient is the last whose product is not above.
LEMMA DivBounds ==
    ASSUME NEW x \in Nat, NEW a \in Nat, a > 0
    PROVE  x \div a \in Nat /\ (x \div a) * a <= x /\ x < (x \div a) * a + a
    OBVIOUS

\* A quotient is known by its bounds.
LEMMA DivUnique ==
    ASSUME NEW x \in Nat, NEW a \in Nat, a > 0, NEW q \in Nat, q * a <= x, x < q * a + a
    PROVE  x \div a = q
    OBVIOUS

\* The quotient of the larger number is no smaller.
LEMMA DivMono ==
    ASSUME NEW x \in Nat, NEW y \in Nat, NEW a \in Nat, a > 0, x <= y
    PROVE  x \div a <= y \div a
    BY DivBounds

\* The product of larger numbers is no smaller.
LEMMA ProdMono ==
    ASSUME NEW a \in Nat, NEW b \in Nat, NEW c \in Nat, NEW d \in Nat, a <= c, b <= d
    PROVE  a * b <= c * d /\ a * b \in Nat
    OBVIOUS

\* What is aligned is a multiple, and the next one.
LEMMA AlignUpBounds ==
    ASSUME NEW x \in Nat, NEW a \in Nat, a > 0
    PROVE  /\ AlignUp(x, a) \in Nat /\ AlignUp(x, a) >= x /\ AlignUp(x, a) <= x + a - 1
           /\ AlignUp(x, a) % a = 0
<1>1. x + a - 1 \in Nat
    OBVIOUS
<1>2. AlignUp(x, a) \in Nat /\ AlignUp(x, a) >= x /\ AlignUp(x, a) <= x + a - 1
    BY <1>1, DivBounds DEF AlignUp
<1>3. AlignUp(x, a) % a = 0
    BY <1>1, DivBounds DEF AlignUp
<1> QED
    BY <1>2, <1>3

\* The larger number is aligned to no smaller one.
LEMMA AlignUpMono ==
    ASSUME NEW x \in Nat, NEW y \in Nat, NEW a \in Nat, a > 0, x <= y
    PROVE  AlignUp(x, a) <= AlignUp(y, a)
    BY DivMono, DivBounds DEF AlignUp

\* For the steps that name the alignment as a number.
LEMMA AlignUpNat ==
    \A x \in Nat : \A a \in Nat :
       a > 0 => AlignUp(x, a) \in Nat /\ AlignUp(x, a) >= x /\ AlignUp(x, a) <= x + a - 1
    BY AlignUpBounds

\* The same, for all numbers at once.
LEMMA AlignUpGrows ==
    \A x, y \in Nat : \A a \in Nat : a > 0 /\ x <= y => AlignUp(x, a) <= AlignUp(y, a)
    BY AlignUpMono

\* The same for 16.
LEMMA AlignedTo16 ==
    \A x \in Nat : AlignUp(x, 16) \in Nat /\ AlignUp(x, 16) >= x /\ AlignUp(x, 16) % 16 = 0
    BY AlignUpBounds

\* The multiples that are written as numbers in ot_buffer.h, each by itself: a
\* prover that has to pick the number out of a product does not find it.
LEMMA AlignedTo32 ==
    \A x \in Nat : AlignUp(x, 32) \in Nat /\ AlignUp(x, 32) >= x /\ AlignUp(x, 32) % 32 = 0
    BY AlignUpBounds

\* The same for 64.
LEMMA AlignedTo64 ==
    \A x \in Nat : AlignUp(x, 64) \in Nat /\ AlignUp(x, 64) >= x /\ AlignUp(x, 64) % 64 = 0
    BY AlignUpBounds

\* The same for 128.
LEMMA AlignedTo128 ==
    \A x \in Nat : AlignUp(x, 128) \in Nat /\ AlignUp(x, 128) >= x /\ AlignUp(x, 128) % 128 = 0
    BY AlignUpBounds

\* The same for 256.
LEMMA AlignedTo256 ==
    \A x \in Nat : AlignUp(x, 256) \in Nat /\ AlignUp(x, 256) >= x /\ AlignUp(x, 256) % 256 = 0
    BY AlignUpBounds

\* The same for 512.
LEMMA AlignedTo512 ==
    \A x \in Nat : AlignUp(x, 512) \in Nat /\ AlignUp(x, 512) >= x /\ AlignUp(x, 512) % 512 = 0
    BY AlignUpBounds

\* The same for 1024.
LEMMA AlignedTo1024 ==
    \A x \in Nat : AlignUp(x, 1024) \in Nat /\ AlignUp(x, 1024) >= x /\ AlignUp(x, 1024) % 1024 = 0
    BY AlignUpBounds

\* The same for 2048.
LEMMA AlignedTo2048 ==
    \A x \in Nat : AlignUp(x, 2048) \in Nat /\ AlignUp(x, 2048) >= x /\ AlignUp(x, 2048) % 2048 = 0
    BY AlignUpBounds

\* The same for 8192.
LEMMA AlignedTo8192 ==
    \A x \in Nat : AlignUp(x, 8192) \in Nat /\ AlignUp(x, 8192) >= x /\ AlignUp(x, 8192) % 8192 = 0
    BY AlignUpBounds

\* What is divided upwards covers what it divides.
LEMMA DivUpNat ==
    \A x \in Nat : \A a \in Nat : a > 0 => DivUp(x, a) \in Nat /\ DivUp(x, a) * a >= x
    BY DivBounds DEF DivUp

\* A multiple is its quotient times the divisor.
LEMMA Multiple ==
    ASSUME NEW x \in Nat, NEW a \in Nat, a > 0, x % a = 0
    PROVE  x \div a \in Nat /\ x = (x \div a) * a
    OBVIOUS

\* A product is a multiple, and its quotient the other factor.
LEMMA ProductMultiple ==
    ASSUME NEW m \in Nat, NEW a \in Nat, a > 0
    PROVE  (m * a) % a = 0 /\ (m * a) \div a = m
    OBVIOUS

\* An even number of rows, at least those of the picture.
LEMMA RowsEven ==
    ASSUME NEW h \in Nat
    PROVE  \E r \in Nat : AlignUp(h, 2) = 2 * r /\ 2 * r >= h
    BY AlignUpBounds DEF AlignUp

\* An even number of rows covers the picture, and grows with it.
LEMMA RowsNat ==
    \A h, more \in Nat : h <= more => /\ AlignUp(h, 2) \in Nat /\ AlignUp(h, 2) >= h /\ AlignUp(more, 2) \in Nat
                                      /\ AlignUp(h, 2) <= AlignUp(more, 2)
    BY AlignUpNat, AlignUpGrows

\* Twice a number, halved.
LEMMA Halved ==
    ASSUME NEW k \in Nat PROVE (2 * k) \div 2 = k
    OBVIOUS

\* What a caller asks for is replaced by a multiple of the least alignment.
LEMMA AlignmentMultiple ==
    ASSUME NEW a \in Nat
    PROVE  Alignment(a) \in Nat /\ Alignment(a) > 0 /\ Alignment(a) % 32 = 0
<1>1. CASE a = 0
    BY <1>1 DEF Alignment, DefaultAlign
<1>2. CASE a > 0 /\ a <= 1024
    <2>1. AlignUp(a, 32) \in Nat /\ AlignUp(a, 32) >= a /\ AlignUp(a, 32) % 32 = 0
        BY AlignUpBounds
    <2> QED
        BY <1>2, <2>1 DEF Alignment, DefaultAlign, MaxAlign
<1>3. CASE a > 1024
    BY <1>3 DEF Alignment, DefaultAlign, MaxAlign
<1> QED
    BY <1>1, <1>2, <1>3

-----------------------------------------------------------------------------
(* Pictures as they are.                                                   *)

\* What the entries hand on: sizes, and an alignment that Alignment gives.
Sized(attr) ==
    /\ attr.width \in Nat /\ attr.height \in Nat /\ attr.width > 0 /\ attr.height > 0
    /\ attr.align \in Nat /\ attr.align > 0 /\ attr.align % 32 = 0

\* A picture no smaller, of the same kind.
NotSmaller(attr, more) ==
    /\ attr.width <= more.width /\ attr.height <= more.height
    /\ attr.align = more.align /\ attr.format = more.format /\ attr.compress_mode = more.compress_mode

\* A picture of any format has two to six half planes.
LEMMA HalvesInRange ==
    ASSUME NEW format PROVE Halves(format) \in {2, 3, 4, 6}
    BY DEF Halves

NoneLine(attr, bits) == AlignUp((attr.width * bits + 7) \div 8, attr.align)
NoneMain(attr, bits) == IF attr.format = "package_422" THEN 2 * NoneLine(attr, bits) ELSE NoneLine(attr, bits)

\* A row that is not compressed holds its bits, on a multiple of 32.
LEMMA NoneLineHolds ==
    ASSUME NEW attr, Sized(attr), NEW bits \in Nat, bits > 0
    PROVE  /\ NoneLine(attr, bits) \in Nat /\ NoneLine(attr, bits) > 0
           /\ 8 * NoneLine(attr, bits) >= attr.width * bits /\ NoneLine(attr, bits) % 32 = 0
<1> DEFINE x == attr.width * bits
           q == (x + 7) \div 8
<1>1. x \in Nat /\ x > 0
    BY ProdMono DEF Sized
<1>2. q \in Nat /\ 8 * q >= x /\ q > 0
    BY <1>1
<1>3. AlignUp(q, attr.align) \in Nat /\ AlignUp(q, attr.align) >= q /\ AlignUp(q, attr.align) % attr.align = 0
    BY <1>2, AlignUpBounds DEF Sized
<1>4. AlignUp(q, attr.align) % 32 = 0
    <2> DEFINE m == AlignUp(q, attr.align) \div attr.align
               n == attr.align \div 32
    <2>1. m \in Nat /\ AlignUp(q, attr.align) = m * attr.align
        BY <1>3, Multiple DEF Sized
    <2>2. n \in Nat /\ attr.align = n * 32
        BY Multiple DEF Sized
    <2> HIDE DEF m, n
    <2>3. AlignUp(q, attr.align) = (m * n) * 32 /\ m * n \in Nat
        BY <2>1, <2>2
    <2> QED
        BY <2>3, ProductMultiple
<1>5. NoneLine(attr, bits) = AlignUp(q, attr.align)
    BY DEF NoneLine
<1> HIDE DEF x, q
<1>6. x = attr.width * bits
    BY DEF x
<1> QED
    BY <1>2, <1>3, <1>4, <1>5, <1>6

\* Rows are even, so that the halves are whole.
LEMMA NoneSizes ==
    ASSUME NEW attr, Sized(attr), NEW bits \in Nat, bits > 0
    PROVE  \E r \in Nat :
              /\ 2 * r >= attr.height /\ AlignUp(attr.height, 2) = 2 * r /\ r > 0
              /\ CompressNone(attr, bits)
                   = [NoBlock EXCEPT !.vb_size = NoneMain(attr, bits) * r * Halves(attr.format), !.main_stride = NoneMain(attr, bits),
                        !.main_size = NoneMain(attr, bits) * r * Halves(attr.format), !.main_y_size = NoneLine(attr, bits) * (2 * r)]
<1>1. PICK r \in Nat : AlignUp(attr.height, 2) = 2 * r /\ 2 * r >= attr.height
    BY RowsEven DEF Sized
<1> DEFINE m == NoneMain(attr, bits)
           f == Halves(attr.format)
<1>2. m \in Nat /\ f \in Nat
    BY NoneLineHolds, HalvesInRange DEF NoneMain
<1>3. (m * (2 * r) * f) \div 2 = m * r * f
    <2>1. m * (2 * r) * f = 2 * (m * r * f) /\ m * r * f \in Nat
        BY <1>2
    <2> QED
        BY <2>1, Halved
<1>4. CompressNone(attr, bits)
        = [NoBlock EXCEPT !.vb_size = (m * AlignUp(attr.height, 2) * f) \div 2, !.main_stride = m,
             !.main_size = (m * AlignUp(attr.height, 2) * f) \div 2, !.main_y_size = NoneLine(attr, bits) * AlignUp(attr.height, 2)]
    BY DEF CompressNone, NoneMain, NoneLine
<1>5. r > 0
    BY <1>1 DEF Sized
<1> HIDE DEF m, f
<1>6. CompressNone(attr, bits) = [NoBlock EXCEPT !.vb_size = m * r * f, !.main_stride = m,
                                    !.main_size = m * r * f, !.main_y_size = NoneLine(attr, bits) * (2 * r)]
    BY <1>1, <1>3, <1>4
<1> QED
    BY <1>1, <1>5, <1>6 DEF m, f

\* A picture that is not compressed: rows by half planes.
LEMMA NoneVbSize ==
    ASSUME NEW attr, Sized(attr), NEW bits \in Nat, bits > 0
    PROVE  \E r \in Nat : /\ AlignUp(attr.height, 2) = 2 * r
                          /\ CompressNone(attr, bits).vb_size = NoneMain(attr, bits) * r * Halves(attr.format)
<1>1. PICK r \in Nat :
              /\ AlignUp(attr.height, 2) = 2 * r
              /\ CompressNone(attr, bits)
                   = [NoBlock EXCEPT !.vb_size = NoneMain(attr, bits) * r * Halves(attr.format), !.main_stride = NoneMain(attr, bits),
                        !.main_size = NoneMain(attr, bits) * r * Halves(attr.format), !.main_y_size = NoneLine(attr, bits) * (2 * r)]
    BY NoneSizes
<1>2. CompressNone(attr, bits).vb_size = NoneMain(attr, bits) * r * Halves(attr.format)
    BY <1>1 DEF NoBlock
<1> QED
    BY <1>1, <1>2

\* The lines, and all planes, have room; and the first plane is a part.
LEMMA NoneFits ==
    ASSUME NEW attr, Sized(attr), NEW bits \in Nat, bits > 0, NEW b, b = CompressNone(attr, bits)
    PROVE  LET per == IF attr.format = "package_422" THEN 2 * bits ELSE bits
           IN /\ 8 * b.main_stride >= attr.width * per /\ b.main_stride % 32 = 0
              /\ 16 * b.vb_size >= attr.width * attr.height * per * Halves(attr.format)
              /\ b.vb_size \in Nat /\ b.vb_size > 0 /\ b.main_y_size <= b.main_size
              /\ b.head_size = 0 /\ b.head_y_size = 0 /\ b.main_size = b.vb_size
<1> DEFINE line == NoneLine(attr, bits)
           m == NoneMain(attr, bits)
           f == Halves(attr.format)
           per == IF attr.format = "package_422" THEN 2 * bits ELSE bits
<1>1. PICK r \in Nat :
              /\ 2 * r >= attr.height /\ r > 0
              /\ b = [NoBlock EXCEPT !.vb_size = m * r * f, !.main_stride = m, !.main_size = m * r * f, !.main_y_size = line * (2 * r)]
    BY NoneSizes
<1>2. b.vb_size = m * r * f /\ b.main_stride = m /\ b.main_size = m * r * f /\ b.main_y_size = line * (2 * r)
      /\ b.head_size = 0 /\ b.head_y_size = 0
    BY <1>1 DEF NoBlock
<1>3. line \in Nat /\ line > 0 /\ 8 * line >= attr.width * bits /\ line % 32 = 0
    BY NoneLineHolds
<1>4. m \in Nat /\ m >= line /\ 8 * m >= attr.width * per /\ m % 32 = 0
    BY <1>3 DEF NoneMain, Sized
<1>5. f \in {2, 3, 4, 6}
    BY HalvesInRange
<1>6. m * r \in Nat /\ m * r > 0 /\ line * r <= m * r /\ line * r \in Nat
    BY <1>1, <1>3, <1>4
<1>7. line * (2 * r) = 2 * (line * r) /\ 2 * (line * r) <= (m * r) * f /\ (m * r) * f \in Nat /\ (m * r) * f > 0
    BY <1>5, <1>6, <1>3
<1>8. (attr.width * per) * attr.height <= (8 * m) * (2 * r) /\ (attr.width * per) * attr.height \in Nat
    <2>1. attr.width * per \in Nat /\ 8 * m \in Nat /\ 2 * r \in Nat /\ attr.height \in Nat
        BY <1>1, <1>4 DEF Sized
    <2>2. attr.width * per <= 8 * m /\ attr.height <= 2 * r
        BY <1>1, <1>4
    <2> HIDE DEF per, m
    <2> QED
        BY <2>1, <2>2, ProdMono
<1>9. ((attr.width * per) * attr.height) * f <= ((8 * m) * (2 * r)) * f
    BY <1>8, <1>5, <1>4
<1>10. ((8 * m) * (2 * r)) * f = 16 * (m * r * f) /\ ((attr.width * per) * attr.height) * f = attr.width * attr.height * per * f
    BY <1>4, <1>5 DEF Sized
<1> QED
    BY <1>2, <1>4, <1>7, <1>9, <1>10

\* A larger picture has no smaller block.
LEMMA NoneGrows ==
    ASSUME NEW attr, Sized(attr), NEW more, Sized(more), NotSmaller(attr, more), NEW bits \in Nat, bits > 0
    PROVE  CompressNone(attr, bits).vb_size <= CompressNone(more, bits).vb_size
<1> DEFINE f == Halves(attr.format)
<1>1. PICK r \in Nat : /\ AlignUp(attr.height, 2) = 2 * r
                       /\ CompressNone(attr, bits).vb_size = NoneMain(attr, bits) * r * f
    BY NoneVbSize
<1>2. PICK q \in Nat : /\ AlignUp(more.height, 2) = 2 * q
                       /\ CompressNone(more, bits).vb_size = NoneMain(more, bits) * q * f
    BY NoneVbSize DEF NotSmaller
<1>3. r <= q
    BY <1>1, <1>2, AlignUpMono DEF Sized, NotSmaller
<1>4. NoneLine(attr, bits) <= NoneLine(more, bits)
    <2>1. attr.width * bits <= more.width * bits /\ attr.width * bits \in Nat /\ more.width * bits \in Nat
        BY ProdMono DEF Sized, NotSmaller
    <2>2. (attr.width * bits + 7) \div 8 <= (more.width * bits + 7) \div 8
          /\ (attr.width * bits + 7) \div 8 \in Nat /\ (more.width * bits + 7) \div 8 \in Nat
        BY <2>1
    <2> QED
        BY <2>2, AlignUpMono DEF NoneLine, Sized, NotSmaller
<1>5. NoneMain(attr, bits) <= NoneMain(more, bits) /\ NoneMain(attr, bits) \in Nat /\ NoneMain(more, bits) \in Nat
    BY <1>4, NoneLineHolds DEF NoneMain, NotSmaller
<1>6. NoneMain(attr, bits) * r <= NoneMain(more, bits) * q /\ NoneMain(attr, bits) * r \in Nat /\ NoneMain(more, bits) * q \in Nat
    BY <1>3, <1>5, ProdMono
<1>7. f \in Nat
    BY HalvesInRange
<1> QED
    BY <1>1, <1>2, <1>6, <1>7, ProdMono

-----------------------------------------------------------------------------
(* Compressed pictures.                                                    *)

\* A head and a body, of which the first plane's are a part.
InParts(cfg) ==
    /\ cfg.head_size \in Nat /\ cfg.main_size \in Nat /\ cfg.head_y_size \in Nat /\ cfg.main_y_size \in Nat
    /\ cfg.head_y_size <= cfg.head_size /\ cfg.main_y_size <= cfg.main_size

\* The parts of a picture that is compact, but not compressed by a ratio.
LEMMA CompactNoneSizes ==
    ASSUME NEW attr, Sized(attr), NEW hs \in Nat
    PROVE  \E r \in Nat : \E line \in Nat :
              /\ AlignUp(attr.height, 2) = 2 * r /\ r > 0 /\ line = AlignUp(attr.width, attr.align) /\ line > 0
              /\ CompactNone(attr, hs).head_y_size = hs * (2 * r)
              /\ CompactNone(attr, hs).head_size = hs * r * Samples(attr.format)
              /\ CompactNone(attr, hs).main_y_size = line * (2 * r)
              /\ CompactNone(attr, hs).main_size = line * r * Samples(attr.format)
<1>1. PICK r \in Nat : AlignUp(attr.height, 2) = 2 * r /\ 2 * r >= attr.height
    BY RowsEven DEF Sized
<1> DEFINE line == AlignUp(attr.width, attr.align)
           f == Samples(attr.format)
<1>2. line \in Nat /\ line > 0 /\ f \in Nat /\ r > 0
    <2>1. line \in Nat /\ line >= attr.width
        BY AlignUpBounds DEF Sized
    <2>2. f \in Nat
        BY HalvesInRange DEF Samples
    <2> HIDE DEF line, f
    <2> QED
        BY <1>1, <2>1, <2>2 DEF Sized
<1>3. ASSUME NEW k \in Nat PROVE (k * (2 * r) * f) \div 2 = k * r * f
    <2>1. k * (2 * r) * f = 2 * (k * r * f) /\ k * r * f \in Nat
        BY <1>2
    <2> QED
        BY <2>1, Halved
<1>4. CompactNone(attr, hs)
        = [NoBlock EXCEPT !.head_stride = hs, !.main_stride = line,
             !.head_y_size = hs * AlignUp(attr.height, 2), !.head_size = (hs * AlignUp(attr.height, 2) * f) \div 2,
             !.main_y_size = line * AlignUp(attr.height, 2), !.main_size = (line * AlignUp(attr.height, 2) * f) \div 2]
    BY DEF CompactNone, Samples
<1> HIDE DEF line, f
<1>5. /\ CompactNone(attr, hs).head_y_size = hs * (2 * r) /\ CompactNone(attr, hs).main_y_size = line * (2 * r)
      /\ CompactNone(attr, hs).head_size = (hs * (2 * r) * f) \div 2
      /\ CompactNone(attr, hs).main_size = (line * (2 * r) * f) \div 2
    BY <1>1, <1>4 DEF NoBlock
<1> QED
    BY <1>1, <1>2, <1>3, <1>5 DEF line, f

\* Its parts fill its block.
LEMMA CompactNoneParts ==
    ASSUME NEW attr, Sized(attr), NEW hs \in Nat, hs > 0
    PROVE  InParts(CompactNone(attr, hs)) /\ CompactNone(attr, hs).head_size > 0
<1> DEFINE f == Samples(attr.format)
<1>1. PICK r \in Nat, line \in Nat :
              /\ r > 0 /\ line > 0
              /\ CompactNone(attr, hs).head_y_size = hs * (2 * r) /\ CompactNone(attr, hs).head_size = hs * r * f
              /\ CompactNone(attr, hs).main_y_size = line * (2 * r) /\ CompactNone(attr, hs).main_size = line * r * f
    BY CompactNoneSizes
<1>2. f \in {2, 3, 4, 6}
    BY HalvesInRange DEF Samples
<1> HIDE DEF f
<1>3. ASSUME NEW k \in Nat, k > 0
      PROVE  k * (2 * r) \in Nat /\ k * r * f \in Nat /\ k * (2 * r) <= k * r * f /\ k * r * f > 0
    <2>1. k * r \in Nat /\ k * r > 0 /\ k * (2 * r) = 2 * (k * r)
        BY <1>1, <1>3
    <2> QED
        BY <2>1, <1>2
<1> QED
    BY <1>1, <1>3 DEF InParts

\* It holds every sample.
LEMMA CompactNoneHolds ==
    ASSUME NEW attr, Sized(attr), NEW hs \in Nat
    PROVE  2 * CompactNone(attr, hs).main_size >= attr.width * attr.height * Samples(attr.format)
<1> DEFINE f == Samples(attr.format)
<1>1. PICK r \in Nat, line \in Nat :
              /\ AlignUp(attr.height, 2) = 2 * r /\ line = AlignUp(attr.width, attr.align)
              /\ CompactNone(attr, hs).main_size = line * r * f
    BY CompactNoneSizes
<1>2. f \in Nat
    BY HalvesInRange DEF Samples
<1>3. attr.width <= line /\ attr.height <= 2 * r
    BY <1>1, AlignUpBounds, RowsNat DEF Sized
<1> HIDE DEF f
<1>4. attr.width * attr.height <= line * (2 * r)
    BY <1>3, ProdMono DEF Sized
<1>5. line * (2 * r) \in Nat /\ attr.width * attr.height \in Nat
    BY DEF Sized
<1>6. (attr.width * attr.height) * f <= (line * (2 * r)) * f
    BY <1>2, <1>4, <1>5, ProdMono
<1>7. (line * (2 * r)) * f = 2 * (line * r * f)
    BY <1>2
<1> QED
    BY <1>1, <1>6, <1>7 DEF f

\* It grows with the picture.
LEMMA CompactNoneGrows ==
    ASSUME NEW attr, Sized(attr), NEW more, Sized(more), NotSmaller(attr, more), NEW hs \in Nat, NEW hm \in Nat, hs <= hm
    PROVE  /\ CompactNone(attr, hs).head_size <= CompactNone(more, hm).head_size
           /\ CompactNone(attr, hs).main_size <= CompactNone(more, hm).main_size
<1> DEFINE f == Samples(attr.format)
<1>1. PICK r \in Nat, line \in Nat :
              /\ AlignUp(attr.height, 2) = 2 * r /\ line = AlignUp(attr.width, attr.align)
              /\ CompactNone(attr, hs).head_size = hs * r * f /\ CompactNone(attr, hs).main_size = line * r * f
    BY CompactNoneSizes
<1>2. PICK q \in Nat, longer \in Nat :
              /\ AlignUp(more.height, 2) = 2 * q /\ longer = AlignUp(more.width, more.align)
              /\ CompactNone(more, hm).head_size = hm * q * f /\ CompactNone(more, hm).main_size = longer * q * f
    <2>1. f = Samples(more.format)
        BY DEF NotSmaller
    <2>2. \E q \in Nat : \E longer \in Nat :
              /\ AlignUp(more.height, 2) = 2 * q /\ longer = AlignUp(more.width, more.align)
              /\ CompactNone(more, hm).head_size = hm * q * Samples(more.format)
              /\ CompactNone(more, hm).main_size = longer * q * Samples(more.format)
        BY CompactNoneSizes
    <2> HIDE DEF f
    <2> QED
        BY <2>1, <2>2
<1>3. r <= q /\ line <= longer
    BY <1>1, <1>2, AlignUpMono DEF Sized, NotSmaller
<1>4. f \in Nat
    BY HalvesInRange DEF Samples
<1>5. hs * r <= hm * q /\ line * r <= longer * q /\ hs * r \in Nat /\ line * r \in Nat /\ hm * q \in Nat /\ longer * q \in Nat
    BY <1>3, ProdMono
<1> QED
    BY <1>1, <1>2, <1>4, <1>5, ProdMono

ChromaRows(format, rows) ==
    CASE format = "420" -> rows \div 2 [] format = "422" -> rows [] format = "400" -> 0 [] OTHER -> 2 * rows

\* The rows of chroma grow with those of luma.
LEMMA ChromaRowsNat ==
    ASSUME NEW format, NEW rows \in Nat, NEW more \in Nat, rows <= more
    PROVE  ChromaRows(format, rows) \in Nat /\ ChromaRows(format, rows) <= ChromaRows(format, more)
<1>1. CASE format = "420"
    BY <1>1 DEF ChromaRows
<1>2. CASE format = "422"
    BY <1>2 DEF ChromaRows
<1>3. CASE format = "400"
    BY <1>3 DEF ChromaRows
<1>4. CASE format \notin {"420", "422", "400"}
    BY <1>4 DEF ChromaRows
<1> QED
    BY <1>1, <1>2, <1>3, <1>4

\* The bits of a row, by which what is left of it is counted.
RowBits(width) == AlignUp(width * 8, 128)
KeptSize(bits, rows, share) == AlignUp((bits * rows * 125) \div share, 32)

\* What is kept of the bits grows with them and with the rows.
LEMMA KeptNat ==
    ASSUME NEW bits \in Nat, NEW rows \in Nat, NEW wider \in Nat, NEW more \in Nat, bits <= wider, rows <= more,
           NEW share \in Nat, share > 0
    PROVE  KeptSize(bits, rows, share) \in Nat /\ KeptSize(bits, rows, share) <= KeptSize(wider, more, share)
<1>1. bits * rows \in Nat /\ wider * more \in Nat /\ bits * rows <= wider * more
    BY ProdMono
<1> DEFINE x == bits * rows
           y == wider * more
<1>2. /\ (x * 125) \div share \in Nat /\ (y * 125) \div share \in Nat /\ (x * 125) \div share <= (y * 125) \div share
    <2> HIDE DEF x, y
    <2>1. x * 125 \in Nat /\ y * 125 \in Nat /\ x * 125 <= y * 125
        BY <1>1 DEF x, y
    <2> QED
        BY <2>1, DivBounds, DivMono
<1> DEFINE p == (x * 125) \div share
           q == (y * 125) \div share
<1>3. KeptSize(bits, rows, share) = AlignUp(p, 32) /\ KeptSize(wider, more, share) = AlignUp(q, 32)
    BY DEF KeptSize
<1> HIDE DEF p, q
<1>4. p \in Nat /\ q \in Nat /\ p <= q
    BY <1>2 DEF p, q
<1>5. AlignUp(p, 32) \in Nat /\ AlignUp(p, 32) <= AlignUp(q, 32)
    BY <1>4, AlignUpNat, AlignUpGrows
<1> QED
    BY <1>3, <1>5

\* The parts of a picture that is compressed by a ratio.
LEMMA CompactPicSizes ==
    ASSUME NEW attr, Sized(attr), NEW user, NEW hs \in Nat
    PROVE  LET rows == AlignUp(attr.height, 2)
               chroma == ChromaRows(attr.format, rows)
               cfg == CompactPic(attr, user, hs)
           IN /\ cfg.head_y_size = hs * rows /\ cfg.head_size = hs * (rows + chroma)
              /\ cfg.main_y_size = KeptSize(RowBits(attr.width), rows, Luma(user))
              /\ cfg.main_size = KeptSize(RowBits(attr.width), rows, Luma(user)) + KeptSize(RowBits(attr.width), chroma, 2000)
    BY DEF CompactPic, NoBlock, ChromaRows, KeptSize, RowBits, Luma, DefaultAlign

\* The bits of a row grow with it and hold its pixels.
LEMMA RowBitsNat ==
    ASSUME NEW width \in Nat, NEW wider \in Nat, width <= wider
    PROVE  RowBits(width) \in Nat /\ RowBits(width) <= RowBits(wider) /\ RowBits(width) >= 8 * width
    BY AlignUpNat, AlignUpGrows DEF RowBits

\* Its parts fill its block.
LEMMA CompactPicParts ==
    ASSUME NEW attr, Sized(attr), NEW user, NEW hs \in Nat, hs > 0
    PROVE  InParts(CompactPic(attr, user, hs)) /\ CompactPic(attr, user, hs).head_size > 0
<1> DEFINE rows == AlignUp(attr.height, 2)
           chroma == ChromaRows(attr.format, rows)
           cfg == CompactPic(attr, user, hs)
<1>1. rows \in Nat /\ rows > 0
    BY RowsNat DEF Sized
<1>2. chroma \in Nat
    BY <1>1, ChromaRowsNat
<1>3. KeptSize(RowBits(attr.width), rows, Luma(user)) \in Nat /\ KeptSize(RowBits(attr.width), chroma, 2000) \in Nat
    <2>1. RowBits(attr.width) \in Nat
        BY RowBitsNat DEF Sized
    <2>2. Luma(user) \in Nat /\ Luma(user) > 0
        BY DEF Luma
    <2> HIDE DEF rows, chroma
    <2>3. KeptSize(RowBits(attr.width), rows, Luma(user)) \in Nat
        BY <1>1, <2>1, <2>2, KeptNat
    <2>4. KeptSize(RowBits(attr.width), chroma, 2000) \in Nat
        BY <1>2, <2>1, KeptNat
    <2> QED
        BY <2>3, <2>4
<1>4. hs * rows \in Nat /\ hs * (rows + chroma) \in Nat /\ hs * rows <= hs * (rows + chroma) /\ hs * rows > 0
    BY <1>1, <1>2
<1>5. /\ cfg.head_y_size = hs * rows /\ cfg.head_size = hs * (rows + chroma)
      /\ cfg.main_y_size = KeptSize(RowBits(attr.width), rows, Luma(user))
      /\ cfg.main_size = KeptSize(RowBits(attr.width), rows, Luma(user)) + KeptSize(RowBits(attr.width), chroma, 2000)
    BY CompactPicSizes
<1> HIDE DEF rows, chroma, cfg
<1> QED
    BY <1>3, <1>4, <1>5 DEF InParts, cfg

\* A share of some bits holds that share of their bytes.
LEMMA ShareHolds ==
    ASSUME NEW bits \in Nat, NEW rows \in Nat, NEW share \in Nat, share > 0
    PROVE  /\ KeptSize(bits, rows, share) \in Nat
           /\ share * (KeptSize(bits, rows, share) + 1) > bits * rows * 125
<1> DEFINE x == bits * rows * 125
           p == x \div share
<1>1. x \in Nat
    OBVIOUS
<1> HIDE DEF x
<1>2. p \in Nat /\ x < share * (p + 1)
    BY <1>1
<1> HIDE DEF p
<1>3. AlignUp(p, 32) \in Nat /\ AlignUp(p, 32) >= p
    BY <1>2, AlignUpNat
<1>4. KeptSize(bits, rows, share) = AlignUp(p, 32)
    BY DEF KeptSize, p, x
<1>5. share * (p + 1) <= share * (AlignUp(p, 32) + 1)
    BY <1>2, <1>3, ProdMono
<1>6. share * (p + 1) \in Nat /\ share * (AlignUp(p, 32) + 1) \in Nat
    BY <1>2, <1>3
<1> QED
    BY <1>1, <1>2, <1>3, <1>4, <1>5, <1>6 DEF x

\* Chroma has as many rows as the samples have planes beside the first.
LEMMA ChromaRowsOf ==
    ASSUME NEW format, NEW r \in Nat
    PROVE  /\ Samples(format) \in 2..6
           /\ 2 * ChromaRows(format, 2 * r) = (2 * r) * (Samples(format) - 2)
<1>1. CASE format = "420"
    BY <1>1 DEF ChromaRows, Samples, Halves
<1>2. CASE format = "422"
    BY <1>2 DEF ChromaRows, Samples, Halves
<1>3. CASE format = "400"
    BY <1>3 DEF ChromaRows, Samples, Halves
<1>4. CASE format \notin {"420", "422", "400"}
    BY <1>4 DEF ChromaRows, Samples, Halves
<1> QED
    BY <1>1, <1>2, <1>3, <1>4

\* It holds the shares of luma and chroma.
LEMMA CompactPicHolds ==
    ASSUME NEW attr, Sized(attr), NEW user, NEW hs \in Nat, NEW cfg, cfg = CompactPic(attr, user, hs)
    PROVE  /\ Luma(user) * (cfg.main_y_size + 1) > 1000 * (attr.width * attr.height)
           /\ 4 * (cfg.main_size - cfg.main_y_size + 1) > attr.width * attr.height * (Samples(attr.format) - 2)
<1> DEFINE w == attr.width
           h == attr.height
           bits == RowBits(w)
           k == Samples(attr.format) - 2
<1>1. PICK r \in Nat : AlignUp(h, 2) = 2 * r /\ 2 * r >= h
    BY RowsEven DEF Sized
<1> DEFINE chroma == ChromaRows(attr.format, 2 * r)
           luma_kept == KeptSize(bits, 2 * r, Luma(user))
           chroma_kept == KeptSize(bits, chroma, 2000)
<1>2. /\ cfg.main_y_size = luma_kept /\ cfg.main_size = luma_kept + chroma_kept
    BY <1>1, CompactPicSizes
<1>3. bits \in Nat /\ bits >= 8 * w /\ w \in Nat /\ h \in Nat
    BY RowBitsNat DEF Sized
<1>4. k \in Nat /\ chroma \in Nat /\ 2 * chroma = (2 * r) * k
  <2>1. chroma \in Nat
    BY ChromaRowsNat
  <2> QED
    BY <2>1, ChromaRowsOf
<1>5. Luma(user) \in Nat /\ Luma(user) > 0
    BY DEF Luma
<1> HIDE DEF bits, k, chroma
<1>6. luma_kept \in Nat /\ Luma(user) * (luma_kept + 1) > 1000 * (w * (2 * r))
  <2> DEFINE rows == 2 * r
  <2>1. rows \in Nat
    OBVIOUS
  <2> HIDE DEF w, rows
  <2>2. /\ KeptSize(bits, rows, Luma(user)) \in Nat
        /\ Luma(user) * (KeptSize(bits, rows, Luma(user)) + 1) > bits * rows * 125
    BY <1>3, <1>5, <2>1, ShareHolds
  <2>3. bits * rows >= (8 * w) * rows
    BY <1>3, <2>1, ProdMono
  <2> DEFINE kept == KeptSize(bits, rows, Luma(user))
  <2>4. luma_kept = kept
    BY DEF rows
  <2> HIDE DEF kept, luma_kept
  <2>5. Luma(user) * (kept + 1) \in Nat /\ Luma(user) * (kept + 1) > 1000 * (w * rows)
    BY <1>3, <1>5, <2>1, <2>2, <2>3 DEF kept
  <2> QED
    BY <2>2, <2>4, <2>5 DEF kept, rows
<1>7. chroma_kept \in Nat /\ 2000 * (chroma_kept + 1) > 1000 * (w * chroma)
  <2> HIDE DEF w
  <2>1. chroma_kept \in Nat /\ 2000 * (chroma_kept + 1) > bits * chroma * 125
    BY <1>3, <1>4, ShareHolds
  <2>2. bits * chroma >= (8 * w) * chroma
    BY <1>3, <1>4, ProdMono
  <2> HIDE DEF chroma_kept
  <2> QED
    BY <1>3, <1>4, <2>1, <2>2
<1> HIDE DEF luma_kept, chroma_kept, w, h
<1>8. w * h <= w * (2 * r) /\ w * h \in Nat /\ w * (2 * r) \in Nat
    BY <1>1, <1>3, ProdMono
<1>9. Luma(user) * (luma_kept + 1) > 1000 * (w * h)
  <2>1. Luma(user) * (luma_kept + 1) \in Nat
    BY <1>5, <1>6
  <2> QED
    BY <1>6, <1>8, <2>1
<1>10. 4 * (chroma_kept + 1) > w * h * k
  <2>1. w * chroma \in Nat /\ 2 * (w * chroma) = (w * (2 * r)) * k
    BY <1>3, <1>4
  <2>2. (w * h) * k <= (w * (2 * r)) * k /\ (w * h) * k \in Nat
    BY <1>4, <1>8, ProdMono
  <2>3. 2 * (chroma_kept + 1) > w * chroma
    BY <1>7, <2>1
  <2> QED
    BY <1>7, <2>1, <2>2, <2>3
<1>11. cfg.main_size - cfg.main_y_size = chroma_kept
    BY <1>2, <1>6, <1>7
<1> QED
    BY <1>2, <1>9, <1>10, <1>11 DEF w, h, k

\* It grows with the picture.
LEMMA CompactPicGrows ==
    ASSUME NEW attr, Sized(attr), NEW more, Sized(more), NotSmaller(attr, more), NEW user, NEW hs \in Nat
    PROVE  /\ CompactPic(attr, user, hs).head_size <= CompactPic(more, user, hs).head_size
           /\ CompactPic(attr, user, hs).main_size <= CompactPic(more, user, hs).main_size
<1> DEFINE rows == AlignUp(attr.height, 2)
           higher == AlignUp(more.height, 2)
           chroma == ChromaRows(attr.format, rows)
           richer == ChromaRows(attr.format, higher)
           bits == RowBits(attr.width)
           wider == RowBits(more.width)
<1>1. rows \in Nat /\ higher \in Nat /\ rows <= higher
    BY RowsNat DEF Sized, NotSmaller
<1>2. chroma \in Nat /\ richer \in Nat /\ chroma <= richer
    BY <1>1, ChromaRowsNat
<1>3. bits \in Nat /\ wider \in Nat /\ bits <= wider
    BY RowBitsNat DEF Sized, NotSmaller
<1>4. /\ CompactPic(attr, user, hs).head_size = hs * (rows + chroma)
      /\ CompactPic(attr, user, hs).main_size = KeptSize(bits, rows, Luma(user)) + KeptSize(bits, chroma, 2000)
    BY CompactPicSizes
<1>5. /\ CompactPic(more, user, hs).head_size = hs * (higher + richer)
      /\ CompactPic(more, user, hs).main_size = KeptSize(wider, higher, Luma(user)) + KeptSize(wider, richer, 2000)
    BY CompactPicSizes DEF NotSmaller
<1> HIDE DEF rows, higher, chroma, richer, bits, wider
<1>6. hs * (rows + chroma) <= hs * (higher + richer)
    BY <1>1, <1>2
<1>7. /\ KeptSize(bits, rows, Luma(user)) <= KeptSize(wider, higher, Luma(user)) /\ KeptSize(bits, chroma, 2000) <= KeptSize(wider, richer, 2000)
      /\ KeptSize(bits, rows, Luma(user)) \in Nat /\ KeptSize(bits, chroma, 2000) \in Nat
      /\ KeptSize(wider, higher, Luma(user)) \in Nat /\ KeptSize(wider, richer, 2000) \in Nat
    <2>1. Luma(user) \in Nat /\ Luma(user) > 0
        BY DEF Luma
    <2>2. KeptSize(bits, rows, Luma(user)) \in Nat /\ KeptSize(bits, rows, Luma(user)) <= KeptSize(wider, higher, Luma(user))
        BY <1>1, <1>3, <2>1, KeptNat
    <2>3. KeptSize(bits, chroma, 2000) \in Nat /\ KeptSize(bits, chroma, 2000) <= KeptSize(wider, richer, 2000)
        BY <1>2, <1>3, KeptNat
    <2>4. KeptSize(wider, higher, Luma(user)) \in Nat
        BY <1>1, <1>3, <2>1, KeptNat
    <2>5. KeptSize(wider, richer, 2000) \in Nat
        BY <1>2, <1>3, KeptNat
    <2> QED
        BY <2>2, <2>3, <2>4, <2>5
<1> QED
    BY <1>4, <1>5, <1>6, <1>7

HeadStride(attr) ==
    IF attr.compress_mode = "compact" THEN 32
    ELSE IF attr.width <= 4096 THEN 16 ELSE IF attr.width <= 8192 THEN 32 ELSE 64
ByRatio(attr) == attr.compress_mode = "compact" /\ attr.width > 256

\* There is a head to every row.
LEMMA HeadStrideNat ==
    ASSUME NEW attr PROVE HeadStride(attr) \in Nat /\ HeadStride(attr) > 0
    BY DEF HeadStride

\* What is compressed: its parts, aligned.
Compressed(attr, user) ==
    IF ByRatio(attr) THEN CompactPic(attr, user, HeadStride(attr)) ELSE CompactNone(attr, HeadStride(attr))

\* Either way, the parts fill the block.
LEMMA CompressedParts ==
    ASSUME NEW attr, Sized(attr), NEW user
    PROVE  InParts(Compressed(attr, user)) /\ Compressed(attr, user).head_size > 0
    BY CompactNoneParts, CompactPicParts, HeadStrideNat DEF Compressed

\* The block is the head, aligned, and what is compressed.
LEMMA CompressPicSizes ==
    ASSUME NEW attr, Sized(attr), NEW user, NEW cfg, cfg = CompressPic(attr, user, 8)
    PROVE  /\ cfg.head_size = AlignUp(Compressed(attr, user).head_size, attr.align)
           /\ cfg.main_size = Compressed(attr, user).main_size
           /\ cfg.head_y_size = Compressed(attr, user).head_y_size
           /\ cfg.main_y_size = Compressed(attr, user).main_y_size
           /\ cfg.vb_size = AlignUp(Compressed(attr, user).head_size, attr.align) + Compressed(attr, user).main_size
<1> DEFINE made == Compressed(attr, user)
<1>1. CompressPic(attr, user, 8)
        = [made EXCEPT !.head_size = AlignUp(made.head_size, attr.align), !.vb_size = AlignUp(made.head_size, attr.align) + made.main_size]
    BY DEF CompressPic, Compressed, HeadStride, ByRatio
<1>2. DOMAIN made = DOMAIN NoBlock
    BY DEF Compressed, CompactPic, CompactNone
<1>3. DOMAIN NoBlock = {"vb_size", "head_stride", "head_size", "head_y_size", "main_stride", "main_size", "main_y_size"}
    BY DEF NoBlock
<1> HIDE DEF made
<1> QED
    BY <1>1, <1>2, <1>3 DEF made

\* Only pictures of eight bits are given a block.
LEMMA CompressPicParts ==
    ASSUME NEW attr, Sized(attr), NEW user, NEW bits, NEW cfg, cfg = CompressPic(attr, user, bits)
    PROVE  /\ cfg.vb_size \in Nat /\ (cfg.vb_size > 0 <=> bits = 8)
           /\ cfg.main_y_size <= cfg.main_size /\ cfg.head_y_size <= cfg.head_size
           /\ cfg.head_size + cfg.main_size = cfg.vb_size
<1>1. CASE bits = 8
    <2>1. /\ cfg.head_size = AlignUp(Compressed(attr, user).head_size, attr.align)
          /\ cfg.main_size = Compressed(attr, user).main_size
          /\ cfg.head_y_size = Compressed(attr, user).head_y_size
          /\ cfg.main_y_size = Compressed(attr, user).main_y_size
          /\ cfg.vb_size = AlignUp(Compressed(attr, user).head_size, attr.align) + Compressed(attr, user).main_size
        BY <1>1, CompressPicSizes
    <2>2. InParts(Compressed(attr, user)) /\ Compressed(attr, user).head_size > 0
        BY CompressedParts
    <2>3. /\ AlignUp(Compressed(attr, user).head_size, attr.align) \in Nat
          /\ AlignUp(Compressed(attr, user).head_size, attr.align) >= Compressed(attr, user).head_size
        BY <2>2, AlignUpBounds DEF InParts, Sized
    <2> QED
        BY <1>1, <2>1, <2>2, <2>3 DEF InParts
<1>2. CASE bits # 8
    <2>1. AlignUp(0, attr.align) = 0
        BY DivUnique DEF AlignUp, Sized
    <2> DEFINE bare == [NoBlock EXCEPT !.head_stride = HeadStride(attr)]
    <2>2. cfg = [bare EXCEPT !.head_size = AlignUp(bare.head_size, attr.align),
                             !.vb_size = AlignUp(bare.head_size, attr.align) + bare.main_size]
        BY <1>2 DEF CompressPic, HeadStride
    <2>3. bare.head_size = 0 /\ bare.main_size = 0
        BY DEF NoBlock
    <2>4. DOMAIN bare = {"vb_size", "head_stride", "head_size", "head_y_size", "main_stride", "main_size", "main_y_size"}
        BY DEF NoBlock
    <2>5. bare.head_y_size = 0 /\ bare.main_y_size = 0
        BY DEF NoBlock
    <2> HIDE DEF bare
    <2>6. cfg.head_size = 0 /\ cfg.vb_size = 0 /\ cfg.main_size = 0 /\ cfg.head_y_size = 0 /\ cfg.main_y_size = 0
        BY <2>1, <2>2, <2>3, <2>4, <2>5
    <2> QED
        BY <1>2, <2>6
<1> QED
    BY <1>1, <1>2

\* Its block holds what is left of a picture of eight bits.
LEMMA CompressPicHolds ==
    ASSUME NEW attr, Sized(attr), NEW user, NEW cfg, cfg = CompressPic(attr, user, 8)
    PROVE  IF ByRatio(attr)
           THEN /\ Luma(user) * (cfg.main_y_size + 1) > 1000 * (attr.width * attr.height)
                /\ 4 * (cfg.main_size - cfg.main_y_size + 1) > attr.width * attr.height * (Samples(attr.format) - 2)
           ELSE 2 * cfg.main_size >= attr.width * attr.height * Samples(attr.format)
<1> DEFINE made == Compressed(attr, user)
<1>1. cfg.main_size = made.main_size /\ cfg.main_y_size = made.main_y_size
    BY CompressPicSizes
<1>2. CASE ByRatio(attr)
    <2>1. made = CompactPic(attr, user, HeadStride(attr))
        BY <1>2 DEF Compressed
    <2> HIDE DEF made
    <2> QED
        BY <1>1, <1>2, <2>1, CompactPicHolds, HeadStrideNat
<1>3. CASE ~ByRatio(attr)
    <2>1. made = CompactNone(attr, HeadStride(attr))
        BY <1>3 DEF Compressed
    <2> HIDE DEF made
    <2> QED
        BY <1>1, <1>3, <2>1, CompactNoneHolds, HeadStrideNat
<1> QED
    BY <1>2, <1>3

\* A compressed picture's block grows with the picture, as long as both are
\* compressed the same way.
LEMMA CompressPicGrows ==
    ASSUME NEW attr, Sized(attr), NEW more, Sized(more), NotSmaller(attr, more), NEW user, NEW bits,
           ByRatio(more) = ByRatio(attr)
    PROVE  CompressPic(attr, user, bits).vb_size <= CompressPic(more, user, bits).vb_size
<1>1. CASE bits = 8
    <2>1. HeadStride(attr) <= HeadStride(more) /\ (ByRatio(attr) => HeadStride(attr) = HeadStride(more))
        BY DEF HeadStride, ByRatio, Sized, NotSmaller
    <2>2. /\ Compressed(attr, user).head_size <= Compressed(more, user).head_size
          /\ Compressed(attr, user).main_size <= Compressed(more, user).main_size
        <3>1. CASE ByRatio(attr)
            <4>1. /\ Compressed(attr, user) = CompactPic(attr, user, HeadStride(attr))
                  /\ Compressed(more, user) = CompactPic(more, user, HeadStride(attr))
                BY <2>1, <3>1 DEF Compressed
            <4> QED
                BY <4>1, CompactPicGrows, HeadStrideNat
        <3>2. CASE ~ByRatio(attr)
            <4>1. /\ Compressed(attr, user) = CompactNone(attr, HeadStride(attr))
                  /\ Compressed(more, user) = CompactNone(more, HeadStride(more))
                BY <3>2 DEF Compressed
            <4> QED
                BY <2>1, <4>1, CompactNoneGrows, HeadStrideNat
        <3> QED
            BY <3>1, <3>2
    <2>3. InParts(Compressed(attr, user)) /\ InParts(Compressed(more, user))
        BY CompressedParts
    <2>4. /\ AlignUp(Compressed(attr, user).head_size, attr.align) \in Nat
          /\ AlignUp(Compressed(more, user).head_size, more.align) \in Nat
          /\ AlignUp(Compressed(attr, user).head_size, attr.align) <= AlignUp(Compressed(more, user).head_size, more.align)
        BY <2>2, <2>3, AlignUpBounds, AlignUpMono DEF InParts, Sized, NotSmaller
    <2>5. CompressPic(attr, user, 8).vb_size
            = AlignUp(Compressed(attr, user).head_size, attr.align) + Compressed(attr, user).main_size
        BY CompressPicSizes
    <2>6. CompressPic(more, user, 8).vb_size
            = AlignUp(Compressed(more, user).head_size, more.align) + Compressed(more, user).main_size
        BY CompressPicSizes
    <2> QED
        BY <1>1, <2>2, <2>3, <2>4, <2>5, <2>6 DEF InParts
<1>2. CASE bits # 8
    <2>1. CompressPic(attr, user, bits).vb_size = 0 /\ CompressPic(more, user, bits).vb_size = 0
        <3>1. CompressPic(attr, user, bits).vb_size \in Nat /\ ~(CompressPic(attr, user, bits).vb_size > 0)
            BY <1>2, CompressPicParts
        <3>2. CompressPic(more, user, bits).vb_size \in Nat /\ ~(CompressPic(more, user, bits).vb_size > 0)
            BY <1>2, CompressPicParts
        <3> QED
            BY <3>1, <3>2
    <2> QED
        BY <2>1
<1> QED
    BY <1>1, <1>2

-----------------------------------------------------------------------------
(* Frames of a sensor.                                                     *)

RawNone(attr, bits) == AlignUp(AlignUp(attr.width * bits, 8) \div 8, attr.align)
RawLine(attr, bits) == AlignUp(16 * AlignUp((16 + (attr.width * bits * 1000) \div 1538 + 8192 + 127) \div 128, 2), attr.align)
RawSmall(attr, bits) ==
    AlignUp((((attr.height * attr.width * bits * 3) \div 2 + ((attr.width + 31) \div 32) * attr.height + 255) \div 256) * 2 * 16,
            attr.align)
RawLarge(attr, bits) == AlignUp((attr.height * attr.width * bits * 1000) \div (2000 * 8), attr.align)
IsSmall(attr) == DivUp(attr.width, 32) * attr.height <= 4096

RawBlock(size, stride) ==
    [NoBlock EXCEPT !.vb_size = size, !.main_stride = stride, !.main_size = size, !.main_y_size = size]

\* The block of a raw frame, for each way of compressing it.
LEMMA RawSizes ==
    ASSUME NEW attr, Sized(attr), NEW bits
    PROVE  /\ attr.compress_mode = "none" =>
                 ViRawBuf(attr, bits) = RawBlock(RawNone(attr, bits) * attr.height, RawNone(attr, bits))
           /\ attr.compress_mode = "line" =>
                 ViRawBuf(attr, bits) = RawBlock(RawLine(attr, bits) * attr.height, RawLine(attr, bits))
           /\ attr.compress_mode = "frame" =>
                 ViRawBuf(attr, bits) = RawBlock(IF IsSmall(attr) THEN RawSmall(attr, bits) ELSE RawLarge(attr, bits), 0)
<1>1. CASE attr.compress_mode = "none"
    BY <1>1 DEF ViRawBuf, RawBuf, RawBlock, RawNone
<1>2. CASE attr.compress_mode = "line"
    BY <1>2 DEF ViRawBuf, RawBuf, RawBlock, RawLine
<1>3. CASE attr.compress_mode = "frame"
    <2>1. CASE IsSmall(attr)
        BY <1>3, <2>1 DEF ViRawBuf, RawBuf, RawBlock, IsSmall, RawSmall
    <2>2. CASE ~IsSmall(attr)
        BY <1>3, <2>2 DEF ViRawBuf, RawBuf, RawBlock, IsSmall, RawLarge
    <2> QED
        BY <2>1, <2>2
<1> QED
    BY <1>1, <1>2, <1>3

\* The fields of a raw block: no head, everything luma.
LEMMA RawBlockFields ==
    ASSUME NEW size, NEW stride
    PROVE  /\ RawBlock(size, stride).vb_size = size /\ RawBlock(size, stride).main_stride = stride
           /\ RawBlock(size, stride).main_size = size /\ RawBlock(size, stride).main_y_size = size
           /\ RawBlock(size, stride).head_size = 0 /\ RawBlock(size, stride).head_y_size = 0
    BY DEF RawBlock, NoBlock

\* What is aligned to a multiple of 32 is one.
LEMMA MultipleOf32 ==
    ASSUME NEW x \in Nat, NEW a \in Nat, a > 0, a % 32 = 0
    PROVE  AlignUp(x, a) % 32 = 0
<1> DEFINE m == AlignUp(x, a) \div a
           n == a \div 32
<1>1. m \in Nat /\ AlignUp(x, a) = m * a
    BY AlignUpBounds, Multiple
<1>2. n \in Nat /\ a = n * 32
    BY Multiple
<1> HIDE DEF m, n
<1>3. AlignUp(x, a) = (m * n) * 32 /\ m * n \in Nat
    BY <1>1, <1>2
<1> QED
    BY <1>3, ProductMultiple

\* The size of that block alone.
LEMMA RawVbSize ==
    ASSUME NEW attr, Sized(attr), NEW bits
    PROVE  /\ attr.compress_mode = "none" => ViRawBuf(attr, bits).vb_size = RawNone(attr, bits) * attr.height
           /\ attr.compress_mode = "line" => ViRawBuf(attr, bits).vb_size = RawLine(attr, bits) * attr.height
           /\ attr.compress_mode = "frame" =>
                 ViRawBuf(attr, bits).vb_size = IF IsSmall(attr) THEN RawSmall(attr, bits) ELSE RawLarge(attr, bits)
<1>1. CASE attr.compress_mode = "none"
    BY <1>1, RawSizes, RawBlockFields
<1>2. CASE attr.compress_mode = "line"
    BY <1>2, RawSizes, RawBlockFields
<1>3. CASE attr.compress_mode = "frame"
    BY <1>3, RawSizes, RawBlockFields
<1> QED
    BY <1>1, <1>2, <1>3

\* A row of a raw frame holds its bits.
LEMMA RawNoneHolds ==
    ASSUME NEW attr, Sized(attr), NEW bits \in Nat, bits > 0
    PROVE  /\ RawNone(attr, bits) \in Nat /\ RawNone(attr, bits) > 0
           /\ 8 * RawNone(attr, bits) >= attr.width * bits /\ RawNone(attr, bits) % 32 = 0
<1> DEFINE x == attr.width * bits
           y == AlignUp(x, 8)
           q == y \div 8
<1>1. x \in Nat /\ x > 0
    BY ProdMono DEF Sized
<1> HIDE DEF x
<1>2. y \in Nat /\ y >= x
    BY <1>1, AlignUpNat
<1>3. y % 8 = 0
    BY <1>1, AlignUpBounds
<1> HIDE DEF y
<1>4. q \in Nat /\ 8 * q = y
    BY <1>2, <1>3
<1> HIDE DEF q
<1>5. RawNone(attr, bits) = AlignUp(q, attr.align)
    BY DEF RawNone, q, y, x
<1>6. AlignUp(q, attr.align) \in Nat /\ AlignUp(q, attr.align) >= q
    BY <1>4, AlignUpBounds DEF Sized
<1>7. AlignUp(q, attr.align) % 32 = 0
    BY <1>4, MultipleOf32 DEF Sized
<1> QED
    BY <1>1, <1>2, <1>4, <1>5, <1>6, <1>7 DEF x

\* A row that is compressed by lines has a size, that holds its share.
LEMMA RawLineHolds ==
    ASSUME NEW attr, Sized(attr), NEW bits \in Nat
    PROVE  /\ RawLine(attr, bits) \in Nat /\ RawLine(attr, bits) > 0
           /\ 8 * 1538 * RawLine(attr, bits) >= 1000 * attr.width * bits
<1> DEFINE x == (attr.width * bits * 1000) \div 1538
           y == (16 + x + 8192 + 127) \div 128
           z == 16 * AlignUp(y, 2)
<1>1. x \in Nat /\ 1538 * (x + 1) > attr.width * bits * 1000 /\ attr.width * bits * 1000 \in Nat
    <2> DEFINE v == attr.width * bits * 1000
    <2>1. v \in Nat
        BY ProdMono DEF Sized
    <2> HIDE DEF v
    <2>2. v \div 1538 \in Nat /\ 1538 * (v \div 1538 + 1) > v
        BY <2>1
    <2> QED
        BY <2>1, <2>2 DEF v
<1> HIDE DEF x
<1>2. y \in Nat /\ y > 0 /\ 128 * y >= x + 8208
    BY <1>1
<1> HIDE DEF y
<1>3. z \in Nat /\ z > 0 /\ z >= 16 * y
    <2>1. AlignUp(y, 2) \in Nat /\ AlignUp(y, 2) >= y
        BY <1>2, RowsNat
    <2> QED
        BY <1>2, <2>1
<1> HIDE DEF z
<1>4. AlignUp(z, attr.align) \in Nat /\ AlignUp(z, attr.align) >= z
    BY <1>3, AlignUpBounds DEF Sized
<1>5. RawLine(attr, bits) = AlignUp(z, attr.align)
    BY DEF RawLine, z, y, x
<1>6. 8 * AlignUp(z, attr.align) >= x + 1
    BY <1>1, <1>2, <1>3, <1>4
<1>7. 1000 * attr.width * bits = attr.width * bits * 1000
    BY DEF Sized
<1> QED
    BY <1>1, <1>3, <1>4, <1>5, <1>6, <1>7

\* So has a small frame that is compressed as a whole.
LEMMA RawSmallHolds ==
    ASSUME NEW attr, Sized(attr), NEW bits \in Nat
    PROVE  /\ RawSmall(attr, bits) \in Nat /\ (bits > 0 => RawSmall(attr, bits) > 0)
           /\ 16 * RawSmall(attr, bits) >= attr.height * attr.width * bits * 3
<1> DEFINE p == attr.height * attr.width * bits * 3
           u == (attr.width + 31) \div 32
           x == p \div 2 + u * attr.height
           y == (x + 255) \div 256
           z == y * 2 * 16
<1>1. p \in Nat
    BY ProdMono DEF Sized
<1>2. u \in Nat /\ u > 0
    BY DEF Sized
<1> HIDE DEF p, u
<1>3. x \in Nat /\ x > 0 /\ 2 * x >= p
    <2>1. u * attr.height \in Nat /\ u * attr.height > 0
        BY <1>2 DEF Sized
    <2>2. p \div 2 \in Nat /\ 2 * (p \div 2) + 1 >= p
        BY <1>1
    <2> QED
        BY <1>1, <2>1, <2>2
<1> HIDE DEF x
<1>4. y \in Nat /\ y > 0 /\ 256 * y >= x
    BY <1>3
<1> HIDE DEF y
<1>5. z \in Nat /\ z > 0 /\ 8 * z >= x
    BY <1>4
<1> HIDE DEF z
<1>6. AlignUp(z, attr.align) \in Nat /\ AlignUp(z, attr.align) >= z
    BY <1>5, AlignUpBounds DEF Sized
<1>7. RawSmall(attr, bits) = AlignUp(z, attr.align)
    BY DEF RawSmall, z, y, x, u, p
<1>8. 16 * AlignUp(z, attr.align) >= p
    BY <1>1, <1>3, <1>5, <1>6
<1> QED
    BY <1>5, <1>6, <1>7, <1>8 DEF p

\* A frame that is not small has more than 4096 pixels.
LEMMA RawLargeHolds ==
    ASSUME NEW attr, Sized(attr), NEW bits \in Nat
    PROVE  /\ RawLarge(attr, bits) \in Nat /\ (bits > 0 /\ ~IsSmall(attr) => RawLarge(attr, bits) > 0)
           /\ 16 * (RawLarge(attr, bits) + 1) > attr.height * attr.width * bits
<1> DEFINE a == attr.height * attr.width
           p == a * bits * 1000
           z == p \div (2000 * 8)
<1>1. a \in Nat
    BY ProdMono DEF Sized
<1>2. ASSUME ~IsSmall(attr) PROVE a > 4096
    <2> DEFINE d == DivUp(attr.width, 32)
    <2>1. d \in Nat /\ d <= attr.width
        BY DivBounds DEF DivUp, Sized
    <2>2. d * attr.height \in Nat /\ d * attr.height > 4096
        BY <1>2, <2>1 DEF IsSmall, Sized
    <2> HIDE DEF d
    <2>3. d * attr.height <= attr.width * attr.height
        BY <2>1, ProdMono DEF Sized
    <2>4. attr.width * attr.height = a
        BY DEF Sized
    <2> QED
        BY <1>1, <2>2, <2>3, <2>4
<1> HIDE DEF a
<1>3. p \in Nat /\ (a > 4096 /\ bits > 0 => p >= 16000) /\ p = 1000 * (a * bits) /\ a * bits \in Nat
    <2>1. a * bits \in Nat /\ (a > 4096 /\ bits > 0 => a * bits > 4096)
        BY <1>1
    <2> QED
        BY <2>1
<1> HIDE DEF p
<1>4. z \in Nat /\ (p >= 16000 => z > 0) /\ 16000 * (z + 1) > p
    BY <1>3
<1> HIDE DEF z
<1>5. AlignUp(z, attr.align) \in Nat /\ AlignUp(z, attr.align) >= z
    <2>1. z \in Nat
        BY <1>4
    <2> QED
        BY <2>1, AlignUpBounds DEF Sized
<1>6. RawLarge(attr, bits) = AlignUp(z, attr.align)
    BY DEF RawLarge, z, p, a
<1>7. 16 * (z + 1) > a * bits
    BY <1>3, <1>4
<1>8. 16 * (AlignUp(z, attr.align) + 1) > a * bits
    BY <1>3, <1>4, <1>5, <1>7
<1> QED
    BY <1>2, <1>3, <1>4, <1>5, <1>6, <1>8 DEF a

\* A raw frame fits its block.
LEMMA RawFits ==
    ASSUME NEW attr, Sized(attr), NEW bits \in Nat, bits > 0, attr.compress_mode \in {"none", "line", "frame"},
           NEW b, b = ViRawBuf(attr, bits)
    PROVE  /\ attr.compress_mode = "none" =>
                 /\ 8 * b.main_stride >= attr.width * bits /\ b.main_stride % 32 = 0
                 /\ 16 * b.vb_size >= attr.width * attr.height * bits * 2
           /\ attr.compress_mode = "line" => 8 * 1538 * b.main_stride >= 1000 * attr.width * bits
           /\ attr.compress_mode = "frame" =>
                 IF IsSmall(attr) THEN 16 * b.main_size >= attr.height * attr.width * bits * 3
                 ELSE 16 * (b.main_size + 1) > attr.height * attr.width * bits
           /\ b.vb_size \in Nat /\ b.vb_size > 0 /\ b.main_y_size = b.main_size
           /\ b.head_size = 0 /\ b.head_y_size = 0 /\ b.main_size = b.vb_size
<1>1. CASE attr.compress_mode = "none"
    <2> DEFINE s == RawNone(attr, bits)
    <2>1. b = RawBlock(s * attr.height, s)
        BY <1>1, RawSizes
    <2>2. s \in Nat /\ s > 0 /\ 8 * s >= attr.width * bits /\ s % 32 = 0
        BY RawNoneHolds
    <2> HIDE DEF s
    <2>3. /\ b.vb_size = s * attr.height /\ b.main_size = s * attr.height /\ b.main_y_size = s * attr.height
          /\ b.main_stride = s /\ b.head_size = 0 /\ b.head_y_size = 0
        BY <2>1, RawBlockFields
    <2>4. s * attr.height \in Nat /\ s * attr.height > 0
        BY <2>2 DEF Sized
    <2>5. (attr.width * bits) * attr.height <= (8 * s) * attr.height
        BY <2>2, ProdMono DEF Sized
    <2>6. 2 * ((attr.width * bits) * attr.height) = attr.width * attr.height * bits * 2
          /\ 2 * ((8 * s) * attr.height) = 16 * (s * attr.height)
          /\ (attr.width * bits) * attr.height \in Nat /\ (8 * s) * attr.height \in Nat
        BY <2>2 DEF Sized
    <2> QED
        BY <1>1, <2>2, <2>3, <2>4, <2>5, <2>6
<1>2. CASE attr.compress_mode = "line"
    <2> DEFINE s == RawLine(attr, bits)
    <2>1. b = RawBlock(s * attr.height, s)
        BY <1>2, RawSizes
    <2>2. s \in Nat /\ s > 0 /\ 8 * 1538 * s >= 1000 * attr.width * bits
        BY RawLineHolds
    <2> HIDE DEF s
    <2>3. /\ b.vb_size = s * attr.height /\ b.main_size = s * attr.height /\ b.main_y_size = s * attr.height
          /\ b.main_stride = s /\ b.head_size = 0 /\ b.head_y_size = 0
        BY <2>1, RawBlockFields
    <2>4. s * attr.height \in Nat /\ s * attr.height > 0
        BY <2>2 DEF Sized
    <2> QED
        BY <1>2, <2>2, <2>3, <2>4
<1>3. CASE attr.compress_mode = "frame"
    <2> DEFINE s == IF IsSmall(attr) THEN RawSmall(attr, bits) ELSE RawLarge(attr, bits)
    <2>1. b = RawBlock(s, 0)
        BY <1>3, RawSizes
    <2>2. /\ s \in Nat /\ s > 0
          /\ IF IsSmall(attr) THEN 16 * s >= attr.height * attr.width * bits * 3
             ELSE 16 * (s + 1) > attr.height * attr.width * bits
        BY RawSmallHolds, RawLargeHolds
    <2> HIDE DEF s
    <2>3. b.vb_size = s /\ b.main_size = s /\ b.main_y_size = s /\ b.head_size = 0 /\ b.head_y_size = 0
        BY <2>1, RawBlockFields
    <2> QED
        BY <1>3, <2>2, <2>3
<1> QED
    BY <1>1, <1>2, <1>3

\* Rows of raw frames grow with the width.
LEMMA RawLineGrows ==
    ASSUME NEW attr, Sized(attr), NEW more, Sized(more), NotSmaller(attr, more), NEW bits \in Nat
    PROVE  RawNone(attr, bits) <= RawNone(more, bits) /\ RawLine(attr, bits) <= RawLine(more, bits)
<1> DEFINE x == attr.width * bits
           y == more.width * bits
<1>1. x \in Nat /\ y \in Nat /\ x <= y
    BY ProdMono DEF Sized, NotSmaller
<1>2. RawNone(attr, bits) = AlignUp(AlignUp(x, 8) \div 8, attr.align) /\ RawNone(more, bits) = AlignUp(AlignUp(y, 8) \div 8, attr.align)
    BY DEF RawNone, NotSmaller
<1>3. /\ RawLine(attr, bits) = AlignUp(16 * AlignUp((16 + (x * 1000) \div 1538 + 8192 + 127) \div 128, 2), attr.align)
      /\ RawLine(more, bits) = AlignUp(16 * AlignUp((16 + (y * 1000) \div 1538 + 8192 + 127) \div 128, 2), attr.align)
    BY DEF RawLine, NotSmaller
<1> HIDE DEF x, y
<1>4. /\ AlignUp(x, 8) \div 8 \in Nat /\ AlignUp(y, 8) \div 8 \in Nat /\ AlignUp(x, 8) \div 8 <= AlignUp(y, 8) \div 8
    <2>1. AlignUp(x, 8) \in Nat /\ AlignUp(y, 8) \in Nat /\ AlignUp(x, 8) <= AlignUp(y, 8)
        BY <1>1, AlignUpNat, AlignUpGrows
    <2> QED
        BY <2>1
<1> DEFINE u == (x * 1000) \div 1538
           v == (y * 1000) \div 1538
           p == (16 + u + 8192 + 127) \div 128
           q == (16 + v + 8192 + 127) \div 128
<1>5. p \in Nat /\ q \in Nat /\ p <= q
    <2>1. u \in Nat /\ v \in Nat /\ u <= v
        BY <1>1
    <2> HIDE DEF u, v
    <2> QED
        BY <2>1
<1>6. 16 * AlignUp(p, 2) \in Nat /\ 16 * AlignUp(q, 2) \in Nat /\ 16 * AlignUp(p, 2) <= 16 * AlignUp(q, 2)
    <2> HIDE DEF p, q
    <2>1. AlignUp(p, 2) \in Nat /\ AlignUp(q, 2) \in Nat /\ AlignUp(p, 2) <= AlignUp(q, 2)
        BY <1>5, RowsNat
    <2> QED
        BY <2>1
<1>7. attr.align \in Nat /\ attr.align > 0
    BY DEF Sized
<1>8. RawNone(attr, bits) <= RawNone(more, bits)
    BY <1>2, <1>4, <1>7, AlignUpMono
<1>9. RawLine(attr, bits) <= RawLine(more, bits)
    <2> DEFINE m == 16 * AlignUp(p, 2)
               n == 16 * AlignUp(q, 2)
    <2>1. RawLine(attr, bits) = AlignUp(m, attr.align) /\ RawLine(more, bits) = AlignUp(n, attr.align)
        BY <1>3
    <2>2. m \in Nat /\ n \in Nat /\ m <= n
        BY <1>6
    <2> HIDE DEF m, n
    <2> QED
        BY <2>1, <2>2, <1>7, AlignUpMono
<1> QED
    BY <1>8, <1>9

\* So do large frames, and no frame larger than a large one is small.
LEMMA RawLargeGrows ==
    ASSUME NEW attr, Sized(attr), NEW more, Sized(more), NotSmaller(attr, more), NEW bits \in Nat
    PROVE  /\ RawLarge(attr, bits) <= RawLarge(more, bits)
           /\ ~IsSmall(attr) => ~IsSmall(more)
<1> DEFINE x == attr.height * attr.width
           y == more.height * more.width
           p == x * bits * 1000
           q == y * bits * 1000
           d == DivUp(attr.width, 32)
           e == DivUp(more.width, 32)
<1>1. x \in Nat /\ y \in Nat /\ x <= y
    BY ProdMono DEF Sized, NotSmaller
<1> HIDE DEF x, y
<1>2. p \in Nat /\ q \in Nat /\ p <= q
    <2>1. x * bits \in Nat /\ y * bits \in Nat /\ x * bits <= y * bits
        BY <1>1, ProdMono
    <2> QED
        BY <2>1
<1>3. RawLarge(attr, bits) = AlignUp(p \div (2000 * 8), attr.align) /\ RawLarge(more, bits) = AlignUp(q \div (2000 * 8), attr.align)
    BY DEF RawLarge, NotSmaller, x, y
<1> HIDE DEF p, q
<1>4. p \div (2000 * 8) \in Nat /\ q \div (2000 * 8) \in Nat /\ p \div (2000 * 8) <= q \div (2000 * 8)
    BY <1>2
<1>5. RawLarge(attr, bits) <= RawLarge(more, bits)
    BY <1>3, <1>4, AlignUpMono DEF Sized
<1>6. d \in Nat /\ e \in Nat /\ d <= e
    BY DivBounds, DivMono DEF DivUp, Sized, NotSmaller
<1>7. d * attr.height <= e * more.height /\ d * attr.height \in Nat /\ e * more.height \in Nat
    <2> HIDE DEF d, e
    <2> QED
        BY <1>6, ProdMono DEF Sized, NotSmaller
<1> QED
    BY <1>5, <1>7 DEF IsSmall

\* The block of a raw frame grows with it, unless compressed small ones stand
\* against large ones.
LEMMA RawGrows ==
    ASSUME NEW attr, Sized(attr), NEW more, Sized(more), NotSmaller(attr, more), NEW bits \in Nat, bits > 0,
           attr.compress_mode \in {"none", "line", "frame"}, attr.compress_mode = "frame" => ~IsSmall(attr)
    PROVE  ViRawBuf(attr, bits).vb_size <= ViRawBuf(more, bits).vb_size
<1>1. CASE attr.compress_mode = "none"
    <2>1. ViRawBuf(attr, bits).vb_size = RawNone(attr, bits) * attr.height /\ ViRawBuf(more, bits).vb_size = RawNone(more, bits) * more.height
        BY <1>1, RawVbSize DEF NotSmaller
    <2>2. RawNone(attr, bits) \in Nat /\ RawNone(more, bits) \in Nat /\ RawNone(attr, bits) <= RawNone(more, bits)
        BY RawNoneHolds, RawLineGrows
    <2> QED
        BY <2>1, <2>2, ProdMono DEF Sized, NotSmaller
<1>2. CASE attr.compress_mode = "line"
    <2>1. ViRawBuf(attr, bits).vb_size = RawLine(attr, bits) * attr.height /\ ViRawBuf(more, bits).vb_size = RawLine(more, bits) * more.height
        BY <1>2, RawVbSize DEF NotSmaller
    <2>2. RawLine(attr, bits) \in Nat /\ RawLine(more, bits) \in Nat /\ RawLine(attr, bits) <= RawLine(more, bits)
        BY RawLineHolds, RawLineGrows
    <2> QED
        BY <2>1, <2>2, ProdMono DEF Sized, NotSmaller
<1>3. CASE attr.compress_mode = "frame"
    <2>1. ~IsSmall(attr) /\ ~IsSmall(more) /\ RawLarge(attr, bits) <= RawLarge(more, bits)
        BY <1>3, RawLargeGrows
    <2>2. ViRawBuf(attr, bits).vb_size = RawLarge(attr, bits) /\ ViRawBuf(more, bits).vb_size = RawLarge(more, bits)
        BY <1>3, <2>1, RawVbSize DEF NotSmaller
    <2> QED
        BY <2>1, <2>2
<1> QED
    BY <1>1, <1>2, <1>3

-----------------------------------------------------------------------------
(* The block of any picture.                                               *)

\* Whatever may be asked for: any size, alignment and depth.  A frame of a
\* sensor is asked for by anyone but VPSS, and is not compressed by segments.
Askable ==
    {c \in [what : {"block"}, user : {"common", "vi", "vpss"}, width : Nat \ {0}, height : Nat \ {0}, align : Nat,
            bit_width : {8, 10, 12, 14, 16}, format : {"420", "422", "400", "package_422", "444", "raw"},
            compress_mode : {"none", "line", "frame", "seg", "compact"}] :
       c.format = "raw" => c.user # "vpss" /\ c.compress_mode \in {"none", "line", "frame"}}

Aligned(c) == [c EXCEPT !.align = Alignment(@)]

\* What is asked, once its alignment is clamped, is a picture with a size.
LEMMA AlignedSized ==
    ASSUME NEW c \in Askable
    PROVE  /\ Sized(Aligned(c)) /\ Aligned(c).width = c.width /\ Aligned(c).height = c.height
           /\ Aligned(c).format = c.format /\ Aligned(c).compress_mode = c.compress_mode
           /\ Aligned(c).bit_width = c.bit_width /\ Aligned(c).align = Alignment(c.align)
<1>1. Alignment(c.align) \in Nat /\ Alignment(c.align) > 0 /\ Alignment(c.align) % 32 = 0
    BY AlignmentMultiple DEF Askable
<1>2. /\ Aligned(c).width = c.width /\ Aligned(c).height = c.height
      /\ Aligned(c).format = c.format /\ Aligned(c).compress_mode = c.compress_mode
      /\ Aligned(c).bit_width = c.bit_width /\ Aligned(c).align = Alignment(c.align)
    BY DEF Aligned, Askable
<1> QED
    BY <1>1, <1>2 DEF Sized, Askable

\* Each entry leads to one of three.
LEMMA EntriesAgree ==
    ASSUME NEW c \in Askable
    PROVE  /\ TooLarge(c.width, c.height) => Block(c) = NoBlock
           /\ ~TooLarge(c.width, c.height) =>
                 /\ c.format = "raw" => Block(c) = ViRawBuf(Aligned(c), c.bit_width)
                 /\ c.format # "raw" /\ c.compress_mode = "none" => Block(c) = CompressNone(Aligned(c), c.bit_width)
                 /\ c.format # "raw" /\ c.compress_mode # "none" => Block(c) = CompressPic(Aligned(c), c.user, c.bit_width)
<1> DEFINE attr == Aligned(c)
<1>1. /\ attr.width = c.width /\ attr.height = c.height /\ attr.format = c.format
      /\ attr.compress_mode = c.compress_mode /\ attr.bit_width = c.bit_width
    BY AlignedSized
<1>2. CASE c.user = "common"
    BY <1>1, <1>2 DEF Block, GetPicBufCfg, Aligned
<1>3. CASE c.user = "vi"
    BY <1>1, <1>3 DEF Block, ViCompactSegBuf, Aligned
<1>4. CASE c.user = "vpss"
    BY <1>1, <1>4 DEF Block, VpssCompactSegBuf, Aligned, Askable
<1> QED
    BY <1>2, <1>3, <1>4 DEF Askable

\* A larger picture of the same kind has no smaller block, unless it is
\* compressed by a ratio the smaller one is not.
LEMMA BlockGrows ==
    ASSUME NEW c \in Askable, NEW d \in Askable, ~TooLarge(d.width, d.height), c.width <= d.width, c.height <= d.height,
           d.user = c.user, d.align = c.align, d.bit_width = c.bit_width, d.format = c.format, d.compress_mode = c.compress_mode,
           ByRatio(d) = ByRatio(c), c.compress_mode = "frame" => ~IsSmall(c)
    PROVE  Block(c).vb_size <= Block(d).vb_size
<1> DEFINE attr == Aligned(c)
           more == Aligned(d)
<1>1. /\ Sized(attr) /\ Sized(more) /\ NotSmaller(attr, more) /\ attr.compress_mode = c.compress_mode
      /\ attr.width = c.width /\ attr.height = c.height /\ more.width = d.width /\ more.compress_mode = c.compress_mode
    BY AlignedSized DEF NotSmaller
<1>2. ~TooLarge(c.width, c.height)
    BY DEF TooLarge, MaxiNumLimit, Askable
<1>3. c.bit_width \in Nat /\ c.bit_width > 0
    BY DEF Askable
<1>4. CASE c.format = "raw"
    <2>1. Block(c) = ViRawBuf(attr, c.bit_width) /\ Block(d) = ViRawBuf(more, c.bit_width)
        BY <1>2, <1>4, EntriesAgree
    <2>2. attr.compress_mode \in {"none", "line", "frame"} /\ (attr.compress_mode = "frame" => ~IsSmall(attr))
        BY <1>1, <1>4 DEF Askable, IsSmall
    <2> HIDE DEF attr, more
    <2> QED
        BY <1>1, <1>3, <2>1, <2>2, RawGrows
<1>5. CASE c.format # "raw" /\ c.compress_mode = "none"
    <2>1. Block(c) = CompressNone(attr, c.bit_width) /\ Block(d) = CompressNone(more, c.bit_width)
        BY <1>2, <1>5, EntriesAgree
    <2> HIDE DEF attr, more
    <2> QED
        BY <1>1, <1>3, <2>1, NoneGrows
<1>6. CASE c.format # "raw" /\ c.compress_mode # "none"
    <2>1. Block(c) = CompressPic(attr, c.user, c.bit_width) /\ Block(d) = CompressPic(more, c.user, c.bit_width)
        BY <1>2, <1>6, EntriesAgree
    <2>2. ByRatio(more) = ByRatio(attr)
        BY <1>1 DEF ByRatio
    <2> HIDE DEF attr, more
    <2> QED
        BY <1>1, <2>1, <2>2, CompressPicGrows
<1> QED
    BY <1>4, <1>5, <1>6

\* Of whatever picture, the block is what it is needed for: lines and planes
\* that are not compressed fit, and what is left of compressed ones (of eight
\* bits; the others get no block); its parts add up, and a larger picture has no
\* smaller one, unless it is the first to be compressed by a ratio.
THEOREM EveryBlockFits ==
    ASSUME NEW c \in Askable PROVE BlockFits(c, Block(c))
<1> DEFINE b == Block(c)
           attr == Aligned(c)
<1>1. CASE TooLarge(c.width, c.height)
    BY <1>1, EntriesAgree DEF BlockFits
<1>2. CASE ~TooLarge(c.width, c.height)
    <2>1. /\ Sized(attr) /\ attr.width = c.width /\ attr.height = c.height /\ attr.format = c.format
          /\ attr.compress_mode = c.compress_mode
        BY AlignedSized
    <2>2. c.bit_width \in Nat /\ c.bit_width > 0 /\ c.width \in Nat /\ c.height \in Nat /\ c.width > 0 /\ c.height > 0
        BY DEF Askable
    <2>3. /\ c.compress_mode = "none" =>
                /\ 8 * b.main_stride >= c.width * Bits(c) /\ b.main_stride % DefaultAlign = 0
                /\ 16 * b.vb_size >= c.width * c.height * Bits(c) * (IF c.format = "raw" THEN 2 ELSE Halves(c.format))
          /\ c.compress_mode # "none" /\ (c.format = "raw" \/ c.bit_width = 8) => HoldsShare(c, b)
          /\ b.vb_size > 0 <=> (c.bit_width = 8 \/ c.compress_mode = "none" \/ c.format = "raw")
          /\ b.main_y_size <= b.main_size /\ b.head_y_size <= b.head_size /\ b.head_size + b.main_size = b.vb_size
        <3>1. CASE c.format = "raw"
            <4>1. b = ViRawBuf(attr, c.bit_width) /\ attr.compress_mode \in {"none", "line", "frame"}
                BY <1>2, <3>1, <2>1, EntriesAgree DEF Askable
            <4> HIDE DEF attr, b
            <4>2. /\ attr.compress_mode = "none" =>
                        /\ 8 * b.main_stride >= attr.width * c.bit_width /\ b.main_stride % 32 = 0
                        /\ 16 * b.vb_size >= attr.width * attr.height * c.bit_width * 2
                  /\ attr.compress_mode = "line" => 8 * 1538 * b.main_stride >= 1000 * attr.width * c.bit_width
                  /\ attr.compress_mode = "frame" =>
                        IF IsSmall(attr) THEN 16 * b.main_size >= attr.height * attr.width * c.bit_width * 3
                        ELSE 16 * (b.main_size + 1) > attr.height * attr.width * c.bit_width
                  /\ b.vb_size \in Nat /\ b.vb_size > 0 /\ b.main_y_size = b.main_size
                  /\ b.head_size = 0 /\ b.head_y_size = 0 /\ b.main_size = b.vb_size
                BY <2>1, <2>2, <4>1, RawFits
            <4>3. Bits(c) = c.bit_width
                BY <3>1 DEF Bits
            <4>4. IsSmall(attr) <=> DivUp(c.width, 32) * c.height <= 4096
                BY <2>1 DEF IsSmall
            <4>5. c.height * c.width * c.bit_width * 3 = 3 * (c.width * c.height) * c.bit_width
                  /\ c.height * c.width * c.bit_width = (c.width * c.height) * c.bit_width
                BY <2>2
            <4>6. c.compress_mode # "none" => HoldsShare(c, b)
                <5>1. CASE c.compress_mode = "line"
                    <6>1. 8 * 1538 * b.main_stride >= 1000 * c.width * c.bit_width
                        BY <2>1, <4>2, <5>1
                    <6> QED
                        BY <3>1, <5>1, <6>1 DEF HoldsShare
                <5>2. CASE c.compress_mode = "frame"
                    <6>1. CASE IsSmall(attr)
                        <7>1. 16 * b.main_size >= 3 * (c.width * c.height) * c.bit_width
                            BY <2>1, <4>2, <4>5, <5>2, <6>1
                        <7> QED
                            BY <3>1, <4>4, <5>2, <6>1, <7>1 DEF HoldsShare
                    <6>2. CASE ~IsSmall(attr)
                        <7>1. 16 * (b.main_size + 1) > (c.width * c.height) * c.bit_width
                            BY <2>1, <4>2, <4>5, <5>2, <6>2
                        <7> QED
                            BY <3>1, <4>4, <5>2, <6>2, <7>1 DEF HoldsShare
                    <6> QED
                        BY <6>1, <6>2
                <5> QED
                    BY <2>1, <4>1, <5>1, <5>2
            <4> QED
                BY <2>1, <3>1, <4>2, <4>3, <4>6 DEF DefaultAlign
        <3>2. CASE c.format # "raw" /\ c.compress_mode = "none"
            <4>1. b = CompressNone(attr, c.bit_width)
                BY <1>2, <3>2, EntriesAgree
            <4>2. (IF attr.format = "package_422" THEN 2 * c.bit_width ELSE c.bit_width) = Bits(c)
                BY <2>1 DEF Bits
            <4> HIDE DEF attr, b
            <4>3. /\ 8 * b.main_stride >= attr.width * Bits(c) /\ b.main_stride % 32 = 0
                  /\ 16 * b.vb_size >= attr.width * attr.height * Bits(c) * Halves(attr.format)
                  /\ b.vb_size \in Nat /\ b.vb_size > 0 /\ b.main_y_size <= b.main_size
                  /\ b.head_size = 0 /\ b.head_y_size = 0 /\ b.main_size = b.vb_size
                BY <2>1, <2>2, <4>1, <4>2, NoneFits
            <4> QED
                BY <2>1, <3>2, <4>3 DEF DefaultAlign
        <3>3. CASE c.format # "raw" /\ c.compress_mode # "none"
            <4>1. b = CompressPic(attr, c.user, c.bit_width)
                BY <1>2, <3>3, EntriesAgree
            <4> HIDE DEF attr, b
            <4>2. ASSUME c.bit_width = 8 PROVE HoldsShare(c, b)
                <5>1. IF ByRatio(attr)
                      THEN /\ Luma(c.user) * (b.main_y_size + 1) > 1000 * (c.width * c.height)
                           /\ 4 * (b.main_size - b.main_y_size + 1) > c.width * c.height * (Samples(c.format) - 2)
                      ELSE 2 * b.main_size >= c.width * c.height * Samples(c.format)
                    BY <2>1, <4>1, <4>2, CompressPicHolds
                <5>2. ByRatio(attr) <=> c.compress_mode = "compact" /\ c.width > 256
                    BY <2>1 DEF ByRatio
                <5> QED
                    BY <3>3, <5>1, <5>2 DEF HoldsShare
            <4> QED
                BY <2>1, <3>3, <4>1, <4>2, CompressPicParts
        <3> QED
            BY <3>1, <3>2, <3>3
    <2>4. ASSUME ~Ratio(c), c.height < MaxiNumLimit PROVE b.vb_size <= Block([c EXCEPT !.height = @ + 1]).vb_size
        <3> DEFINE d == [c EXCEPT !.height = @ + 1]
        <3>1. /\ d \in Askable /\ d.width = c.width /\ d.height = c.height + 1 /\ d.user = c.user /\ d.align = c.align
              /\ d.bit_width = c.bit_width /\ d.format = c.format /\ d.compress_mode = c.compress_mode
            BY DEF Askable
        <3>2. ~TooLarge(d.width, d.height) /\ c.height <= d.height /\ c.width <= d.width
            BY <1>2, <2>2, <2>4, <3>1 DEF TooLarge, MaxiNumLimit
        <3>3. ByRatio(d) = ByRatio(c) /\ (c.compress_mode = "frame" => ~IsSmall(c))
            BY <2>4, <3>1 DEF ByRatio, Ratio, IsSmall
        <3> HIDE DEF d
        <3>4. Block(c).vb_size <= Block(d).vb_size
            BY <3>1, <3>2, <3>3, BlockGrows
        <3> QED
            BY <3>4 DEF d
    <2>5. ASSUME ~Ratio(c), c.width < MaxiNumLimit PROVE b.vb_size <= Block([c EXCEPT !.width = @ + 1]).vb_size
        <3> DEFINE d == [c EXCEPT !.width = @ + 1]
        <3>1. /\ d \in Askable /\ d.width = c.width + 1 /\ d.height = c.height /\ d.user = c.user /\ d.align = c.align
              /\ d.bit_width = c.bit_width /\ d.format = c.format /\ d.compress_mode = c.compress_mode
            BY DEF Askable
        <3>2. ~TooLarge(d.width, d.height) /\ c.height <= d.height /\ c.width <= d.width
            BY <1>2, <2>2, <2>5, <3>1 DEF TooLarge, MaxiNumLimit
        <3>3. ByRatio(d) = ByRatio(c) /\ (c.compress_mode = "frame" => ~IsSmall(c))
            BY <2>2, <2>5, <3>1 DEF ByRatio, Ratio, IsSmall
        <3> HIDE DEF d
        <3>4. Block(c).vb_size <= Block(d).vb_size
            BY <3>1, <3>2, <3>3, BlockGrows
        <3> QED
            BY <3>4 DEF d
    <2> QED
        BY <1>2, <2>3, <2>4, <2>5 DEF BlockFits
<1> QED
    BY <1>1, <1>2

-----------------------------------------------------------------------------
(* What coders keep.                                                       *)

AskableCoder ==
    [what : {"coder"}, type : {"h264", "h265", "mpeg4", "jpeg"}, width : Nat \ {0}, height : Nat \ {0},
     format : {"420", "422"}, bit_width : {8, 10}, share_buf_en : BOOLEAN, frame_buf_ratio : Nat]

DecoderHeight(type, height) == AlignUp(height, IF type = "h265" THEN 64 ELSE 16)
DecoderHeader(width, w, h) == (AlignUp(w, IF width <= 8192 THEN 2048 ELSE 8192) \div 64) * (h \div 4)
DecoderExtra(c, w, h) ==
    IF c.type = "h265" /\ c.bit_width = 10 THEN AlignUp((w * 2) \div 8, 16) * AlignUp(h, 32) ELSE 0

\* The block of a decoder's picture, by the type of the stream.
LEMMA DecoderSizes ==
    ASSUME NEW c \in AskableCoder
    PROVE  LET w == AlignUp(c.width, 64)
               h == DecoderHeight(c.type, c.height)
               size == VdecPicBufSize(c.type, c)
           IN /\ ~CheckPicSize(c.type, c.width, c.height) => size = 0
              /\ CheckPicSize(c.type, c.width, c.height) /\ c.type = "jpeg" /\ c.format = "422" => size = w * h * 2
              /\ CheckPicSize(c.type, c.width, c.height) /\ c.type = "jpeg" /\ c.format # "422" => size = (w * h * 3) \div 2
              /\ CheckPicSize(c.type, c.width, c.height) /\ c.type # "jpeg" =>
                    size = ((DecoderHeader(c.width, w, h) + w * h + DecoderExtra(c, w, h)) * 3) \div 2
    BY DEF VdecPicBufSize, DecoderHeight, DecoderHeader, DecoderExtra

\* All planes fit into what a decoder keeps of a picture, in ten bits, too.
LEMMA DecoderFitsPicture ==
    ASSUME NEW c \in AskableCoder, NEW size, size = VdecPicBufSize(c.type, c)
    PROVE  /\ size \in Nat /\ (size > 0 <=> CheckPicSize(c.type, c.width, c.height))
           /\ size > 0 => 2 * size >= c.width * c.height * (IF c.type = "jpeg" /\ c.format = "422" THEN 4 ELSE 3)
           /\ size > 0 /\ c.type = "h265" => 2 * 8 * size >= (c.width * c.height * 3) * c.bit_width
<1> DEFINE w == AlignUp(c.width, 64)
           h == DecoderHeight(c.type, c.height)
           header == DecoderHeader(c.width, w, h)
           extra == DecoderExtra(c, w, h)
           all == c.width * c.height
<1>1. c.width \in Nat /\ c.width > 0 /\ c.height \in Nat /\ c.height > 0
    BY DEF AskableCoder
<1>2. PICK n \in Nat : w = n * 64 /\ n * 64 >= c.width /\ n > 0
    <2>1. w \in Nat /\ w >= c.width /\ w % 64 = 0
        BY <1>1, AlignedTo64
    <2> HIDE DEF w
    <2>3. w \div 64 \in Nat /\ w = (w \div 64) * 64
        BY <2>1
    <2> QED
        BY <1>1, <2>1, <2>3
<1>3. PICK m \in Nat : h = m * 16 /\ h >= c.height /\ m > 0
    <2>1. AlignUp(c.height, 64) \in Nat /\ AlignUp(c.height, 64) >= c.height /\ AlignUp(c.height, 64) % 64 = 0
        BY <1>1, AlignedTo64
    <2>2. AlignUp(c.height, 16) \in Nat /\ AlignUp(c.height, 16) >= c.height /\ AlignUp(c.height, 16) % 16 = 0
        BY <1>1, AlignedTo16
    <2>3. h \in Nat /\ h >= c.height /\ h % 16 = 0
        BY <2>1, <2>2 DEF DecoderHeight
    <2> HIDE DEF h
    <2>4. h \div 16 \in Nat /\ h = (h \div 16) * 16
        BY <2>3
    <2> QED
        BY <1>1, <2>3, <2>4
<1> HIDE DEF w, h
<1>4. w * h \in Nat /\ w * h >= all /\ all \in Nat /\ w * h > 0
    BY <1>1, <1>2, <1>3, ProdMono
<1>5. CASE ~CheckPicSize(c.type, c.width, c.height)
    BY <1>5, DecoderSizes
<1>6. CASE CheckPicSize(c.type, c.width, c.height) /\ c.type = "jpeg" /\ c.format = "422"
    <2>1. size = w * h * 2
        BY <1>6, DecoderSizes DEF w, h
    <2>2. w * h * 2 >= all * 2 /\ w * h * 2 > 0 /\ w * h * 2 \in Nat
        BY <1>4
    <2> HIDE DEF all
    <2>3. 2 * size >= all * 4 /\ size > 0 /\ size \in Nat
        BY <2>1, <2>2, <1>4
    <2> QED
        BY <1>6, <2>3 DEF all
<1>7. CASE CheckPicSize(c.type, c.width, c.height) /\ c.type = "jpeg" /\ c.format # "422"
    <2>1. size = (w * h * 3) \div 2
        BY <1>7, DecoderSizes DEF w, h
    <2>2. w * h = 2 * (32 * n * h) /\ 32 * n * h \in Nat
        BY <1>2, <1>3
    <2>3. (w * h * 3) \div 2 = (32 * n * h) * 3
        BY <2>2
    <2> HIDE DEF all
    <2>4. 2 * size >= all * 3 /\ size > 0 /\ size \in Nat
        BY <2>1, <2>2, <2>3, <1>4
    <2> QED
        BY <1>7, <2>4 DEF all
<1>8. CASE CheckPicSize(c.type, c.width, c.height) /\ c.type # "jpeg"
    <2>1. size = ((header + w * h + extra) * 3) \div 2
        BY <1>8, DecoderSizes DEF w, h
    <2>2. header \in Nat /\ header > 0
        <3>1. PICK k \in Nat : AlignUp(w, IF c.width <= 8192 THEN 2048 ELSE 8192) \div 64 = k /\ k > 0
            <4>1. w \in Nat /\ w > 0
                BY <1>2
            <4>2. AlignUp(w, 2048) \in Nat /\ AlignUp(w, 2048) >= w /\ AlignUp(w, 2048) % 2048 = 0
                BY <4>1, AlignedTo2048
            <4>3. AlignUp(w, 8192) \in Nat /\ AlignUp(w, 8192) >= w /\ AlignUp(w, 8192) % 8192 = 0
                BY <4>1, AlignedTo8192
            <4>4. AlignUp(w, 2048) \div 64 \in Nat /\ AlignUp(w, 2048) \div 64 > 0
                BY <4>1, <4>2
            <4>5. AlignUp(w, 8192) \div 64 \in Nat /\ AlignUp(w, 8192) \div 64 > 0
                BY <4>1, <4>3
            <4> QED
                BY <4>4, <4>5
        <3>2. h \div 4 \in Nat /\ h \div 4 > 0
            BY <1>3
        <3> QED
            BY <3>1, <3>2 DEF DecoderHeader
    <2>3. extra \in Nat /\ (c.type = "h265" /\ c.bit_width = 10 => 4 * extra >= w * h)
        <3>1. CASE c.type = "h265" /\ c.bit_width = 10
            <4>1. (w * 2) \div 8 = 16 * n /\ 16 * n \in Nat
                BY <1>2
            <4>2. AlignUp(16 * n, 16) \in Nat /\ AlignUp(16 * n, 16) >= 16 * n
                BY <4>1, AlignUpNat
            <4>3. AlignUp(h, 32) \in Nat /\ AlignUp(h, 32) >= h /\ h \in Nat
                <5>1. h \in Nat
                    BY <1>3
                <5> QED
                    BY <5>1, AlignedTo32
            <4>4. extra = AlignUp(16 * n, 16) * AlignUp(h, 32)
                BY <3>1, <4>1 DEF DecoderExtra
            <4>5. (16 * n) * h <= AlignUp(16 * n, 16) * AlignUp(h, 32) /\ (16 * n) * h \in Nat
                BY <4>1, <4>2, <4>3, ProdMono
            <4>6. extra \in Nat
                BY <4>2, <4>3, <4>4
            <4>7. 4 * ((16 * n) * h) = w * h
                BY <1>2, <4>3
            <4> HIDE DEF extra
            <4> QED
                BY <4>4, <4>5, <4>6, <4>7
        <3>2. CASE ~(c.type = "h265" /\ c.bit_width = 10)
            BY <3>2 DEF DecoderExtra
        <3> QED
            BY <3>1, <3>2
    <2> DEFINE x == header + w * h + extra
    <2> HIDE DEF header, extra
    <2>4. x \in Nat /\ x >= w * h + 1 /\ (c.type = "h265" /\ c.bit_width = 10 => 4 * x >= 5 * (w * h) + 4)
        BY <1>4, <2>2, <2>3
    <2>5. size = (x * 3) \div 2
        BY <2>1
    <2> HIDE DEF x
    <2>6. size \in Nat /\ 2 * size >= 3 * x - 1
        BY <2>4, <2>5
    <2> HIDE DEF all
    <2>7. 2 * size >= all * 3 /\ size > 0
        BY <1>4, <2>4, <2>6
    <2>8. c.type = "h265" => 2 * 8 * size >= (all * 3) * c.bit_width
        <3>1. CASE c.bit_width = 8
            BY <3>1, <2>6, <2>7, <1>4
        <3>2. CASE c.bit_width = 10 /\ c.type = "h265"
            BY <3>2, <2>6, <2>4, <1>4
        <3> QED
            BY <3>1, <3>2 DEF AskableCoder
    <2> QED
        BY <1>8, <2>6, <2>7, <2>8 DEF all
<1> QED
    BY <1>5, <1>6, <1>7, <1>8

\* Every 16 x 16 block of the picture has its motion.
LEMMA MotionFits ==
    ASSUME NEW c \in AskableCoder, NEW size, size = VdecTmvBufSize(c.type, c.width, c.height)
    PROVE  /\ size > 0 <=> CheckPicSize(c.type, c.width, c.height) /\ c.type # "jpeg"
           /\ size > 0 => 256 * size >= 16 * c.width * c.height
<1> SUFFICES ASSUME CheckPicSize(c.type, c.width, c.height) /\ c.type # "jpeg"
             PROVE  size > 0 /\ 256 * size >= 16 * c.width * c.height
    BY DEF VdecTmvBufSize
<1> DEFINE unit == IF c.type = "h265" THEN 64 ELSE 16
           a == AlignUp(c.width, unit) \div 16
           b == AlignUp(c.height, unit) \div 16
           all == c.width * c.height
<1>1. c.width \in Nat /\ c.height \in Nat /\ c.width > 0 /\ c.height > 0
    BY DEF AskableCoder
<1>2. a \in Nat /\ a * 16 >= c.width /\ b \in Nat /\ b * 16 >= c.height
    <2>1. unit \in Nat /\ unit > 0
        OBVIOUS
    <2>2. unit % 16 = 0 /\ (unit = 16 \/ unit = 64)
        OBVIOUS
    <2> HIDE DEF unit
    <2>3. AlignUp(c.width, unit) \in Nat /\ AlignUp(c.width, unit) >= c.width /\ AlignUp(c.width, unit) % unit = 0
        BY <1>1, <2>1, AlignUpBounds
    <2>4. AlignUp(c.height, unit) \in Nat /\ AlignUp(c.height, unit) >= c.height /\ AlignUp(c.height, unit) % unit = 0
        BY <1>1, <2>1, AlignUpBounds
    <2>5. a \in Nat /\ a * 16 >= c.width
        BY <1>1, <2>2, <2>3
    <2>6. b \in Nat /\ b * 16 >= c.height
        BY <1>1, <2>2, <2>4
    <2> QED
        BY <2>5, <2>6
<1>3. size = AlignUp((IF c.type = "h265" THEN 16 ELSE 64) * (a * b), 128)
    BY DEF VdecTmvBufSize
<1> HIDE DEF a, b, unit
<1>4. a * b \in Nat /\ 256 * (a * b) >= all /\ all \in Nat
    <2>1. c.width * c.height <= (a * 16) * (b * 16) /\ c.width * c.height \in Nat
        BY <1>1, <1>2, ProdMono
    <2> QED
        BY <1>2, <2>1
<1> HIDE DEF all
<1>5. size >= 16 * (a * b) /\ size \in Nat
    <2> DEFINE p == (IF c.type = "h265" THEN 16 ELSE 64) * (a * b)
    <2>1. p \in Nat /\ p >= 16 * (a * b)
        BY <1>4
    <2>2. size = AlignUp(p, 128)
        BY <1>3
    <2> HIDE DEF p
    <2>3. AlignUp(p, 128) \in Nat /\ AlignUp(p, 128) >= p
        <3>1. p \in Nat
            BY <2>1
        <3> QED
            BY <3>1, AlignedTo128
    <2> QED
        BY <2>1, <2>2, <2>3, <1>4
<1>6. 256 * size >= 16 * all /\ size > 0
    <2>1. all > 0
        <3>1. c.width * c.height > 0
            BY <1>1
        <3> QED
            BY <3>1 DEF all
    <2> QED
        BY <1>4, <1>5, <2>1
<1>7. 16 * all = 16 * c.width * c.height
    BY <1>1 DEF all
<1> QED
    BY <1>6, <1>7

\* The part of a picture that an encoder keeps.
KeptPart(attr, h) == AlignUp((attr.width * h * attr.frame_buf_ratio) \div 100, 256)

\* What an encoder keeps of a plane, rounded, covers the ratio it is told.
LEMMA KeptPartHolds ==
    ASSUME NEW attr, attr.width \in Nat, attr.frame_buf_ratio \in Nat, NEW h \in Nat, NEW higher \in Nat, h <= higher
    PROVE  /\ KeptPart(attr, h) \in Nat /\ KeptPart(attr, h) <= KeptPart(attr, higher)
           /\ 100 * KeptPart(attr, h) >= attr.width * h * attr.frame_buf_ratio - 99
<1> DEFINE x == attr.width * h * attr.frame_buf_ratio
           y == attr.width * higher * attr.frame_buf_ratio
<1>1. x \in Nat /\ y \in Nat /\ x <= y
    <2>1. attr.width * h \in Nat /\ attr.width * higher \in Nat /\ attr.width * h <= attr.width * higher
        BY ProdMono
    <2> QED
        BY <2>1, ProdMono
<1> DEFINE p == x \div 100
           q == y \div 100
<1>2. KeptPart(attr, h) = AlignUp(p, 256) /\ KeptPart(attr, higher) = AlignUp(q, 256)
    BY DEF KeptPart
<1> HIDE DEF x, y
<1>3. p \in Nat /\ q \in Nat /\ p <= q /\ 100 * p >= x - 99
    BY <1>1
<1> HIDE DEF p, q
<1>4. p \in Nat /\ q \in Nat /\ p <= q
    BY <1>3
<1>5. AlignUp(p, 256) \in Nat /\ AlignUp(p, 256) >= p
    BY <1>4, AlignedTo256
<1>6. AlignUp(p, 256) <= AlignUp(q, 256)
    BY <1>4, AlignUpGrows
<1>7. 100 * AlignUp(p, 256) >= x - 99
    BY <1>1, <1>3, <1>5
<1> QED
    BY <1>2, <1>5, <1>6, <1>7 DEF x

\* Alone, a head and parts of both planes; what sharing adds is two heads, more
\* rows, and the motion search.
HeadSize(attr, header) == header * HeaderStride(attr.width) + (header * HeaderStride(attr.width)) \div 2

\* The block of an encoder's picture that shares no buffer.
LEMMA PicSizeAlone ==
    ASSUME NEW attr, NEW header, NEW more, NEW pme, attr.share_buf_en = FALSE
    PROVE  PicSize(attr, header, more, pme)
             = HeadSize(attr, header) + (KeptPart(attr, attr.height + 0) + KeptPart(attr, attr.height \div 2 + 0 \div 2))
    BY DEF PicSize, KeptPart, HeadSize

\* Sharing adds to it, and what is kept covers the ratio.
LEMMA PicSizeHolds ==
    ASSUME NEW attr, NEW unshared, unshared.share_buf_en = FALSE,
           attr.share_buf_en \in BOOLEAN, attr.width \in Nat, attr.height \in Nat, attr.frame_buf_ratio \in Nat,
           unshared.width = attr.width, unshared.height = attr.height, unshared.frame_buf_ratio = attr.frame_buf_ratio,
           NEW header \in Nat, header >= 3, NEW more \in Nat, NEW pme \in Nat
    PROVE  LET size == PicSize(attr, header, more, pme)
               alone == PicSize(unshared, header, more, pme)
           IN /\ size \in Nat /\ alone \in Nat
              /\ attr.share_buf_en = FALSE => size = alone
              /\ attr.share_buf_en = TRUE => size >= alone + pme
              /\ attr.height % 2 = 0 => 2 * size * 100 >= 3 * attr.width * attr.height * attr.frame_buf_ratio
<1> DEFINE y == header * HeaderStride(attr.width)
           head == HeadSize(attr, header)
           p == KeptPart(attr, attr.height)
           q == KeptPart(attr, attr.height \div 2)
           pp == KeptPart(attr, attr.height + more)
           qq == KeptPart(attr, attr.height \div 2 + more \div 2)
           size == PicSize(attr, header, more, pme)
           alone == PicSize(unshared, header, more, pme)
<1>1. head \in Nat /\ head >= 4
    <2>1. HeaderStride(attr.width) \in {1, 2, 3, 4}
        BY DEF HeaderStride
    <2>2. y \in Nat /\ y >= 3
        BY <2>1
    <2>3. head = y + y \div 2
        BY DEF HeadSize
    <2> HIDE DEF y, head
    <2> QED
        BY <2>2, <2>3
<1>2. attr.height \div 2 \in Nat /\ more \div 2 \in Nat
    OBVIOUS
<1>3. p \in Nat /\ p <= pp /\ 100 * p >= attr.width * attr.height * attr.frame_buf_ratio - 99
    BY KeptPartHolds
<1>4. q \in Nat /\ q <= qq /\ 100 * q >= attr.width * (attr.height \div 2) * attr.frame_buf_ratio - 99
    <2>1. attr.height \div 2 + more \div 2 \in Nat /\ attr.height \div 2 <= attr.height \div 2 + more \div 2
        BY <1>2
    <2> QED
        BY <1>2, <2>1, KeptPartHolds
<1>5. pp \in Nat
    BY KeptPartHolds
<1>6. qq \in Nat
    <2>1. attr.height \div 2 + more \div 2 \in Nat
        BY <1>2
    <2> QED
        BY <2>1, KeptPartHolds
<1>7. alone = head + (p + q)
    <2>1. attr.height + 0 = attr.height /\ attr.height \div 2 + 0 \div 2 = attr.height \div 2
        BY <1>2
    <2>2. KeptPart(unshared, attr.height) = p /\ KeptPart(unshared, attr.height \div 2) = q /\ HeadSize(unshared, header) = head
        BY DEF KeptPart, HeadSize
    <2>3. alone = HeadSize(unshared, header)
                  + (KeptPart(unshared, unshared.height + 0) + KeptPart(unshared, unshared.height \div 2 + 0 \div 2))
        BY PicSizeAlone
    <2> HIDE DEF head, alone, p, q
    <2> QED
        BY <2>1, <2>2, <2>3
<1>8. attr.share_buf_en = FALSE => size = head + (p + q)
    <2>1. attr.height + 0 = attr.height /\ attr.height \div 2 + 0 \div 2 = attr.height \div 2
        BY <1>2
    <2>2. ASSUME attr.share_buf_en = FALSE
          PROVE  size = head + (KeptPart(attr, attr.height + 0) + KeptPart(attr, attr.height \div 2 + 0 \div 2))
        BY <2>2, PicSizeAlone
    <2> HIDE DEF head, size
    <2> QED
        BY <2>1, <2>2
<1>9. attr.share_buf_en = TRUE => size = 2 * head + (pp + qq) + pme
    <2> SUFFICES ASSUME attr.share_buf_en = TRUE PROVE size = 2 * head + (pp + qq) + pme
        OBVIOUS
    <2>1. PicSize(attr, header, more, pme)
            = 2 * HeadSize(attr, header)
              + (KeptPart(attr, attr.height + more) + KeptPart(attr, attr.height \div 2 + more \div 2)) + pme
        BY DEF PicSize, KeptPart, HeadSize
    <2> QED
        BY <2>1, Zenon
<1>10. attr.share_buf_en = TRUE \/ attr.share_buf_en = FALSE
    OBVIOUS
<1>11. attr.height % 2 = 0 =>
          2 * (attr.width * (attr.height \div 2) * attr.frame_buf_ratio) = attr.width * attr.height * attr.frame_buf_ratio
    <2> SUFFICES ASSUME attr.height % 2 = 0
                 PROVE 2 * (attr.width * (attr.height \div 2) * attr.frame_buf_ratio) = attr.width * attr.height * attr.frame_buf_ratio
        OBVIOUS
    <2> DEFINE n == attr.height \div 2
    <2>1. n \in Nat /\ attr.height = 2 * n
        OBVIOUS
    <2> HIDE DEF n
    <2>2. 2 * (attr.width * n * attr.frame_buf_ratio) = attr.width * (2 * n) * attr.frame_buf_ratio
        BY <2>1
    <2> QED
        BY <2>1, <2>2 DEF n
<1> DEFINE all == attr.width * attr.height * attr.frame_buf_ratio
           half == attr.width * (attr.height \div 2) * attr.frame_buf_ratio
<1>12. all \in Nat /\ half \in Nat
    <2>1. attr.width * attr.height \in Nat /\ attr.width * (attr.height \div 2) \in Nat
        BY <1>2, ProdMono
    <2> QED
        BY <2>1, ProdMono
<1>13. 3 * attr.width * attr.height * attr.frame_buf_ratio = 3 * all
    BY <1>12
<1> HIDE DEF head, p, q, pp, qq, size, alone, all, half
<1>14. size \in Nat /\ alone \in Nat
    BY <1>1, <1>3, <1>4, <1>5, <1>6, <1>7, <1>8, <1>9, <1>10
<1>15. attr.share_buf_en = TRUE => size >= alone + pme
    BY <1>1, <1>3, <1>4, <1>5, <1>6, <1>7, <1>9
<1>16. attr.height % 2 = 0 => 2 * alone * 100 >= 3 * all
    <2>1. 100 * p >= all - 99 /\ 100 * q >= half - 99
        BY <1>3, <1>4 DEF all, half
    <2>2. attr.height % 2 = 0 => 2 * half = all
        BY <1>11 DEF all, half
    <2> QED
        BY <2>1, <2>2, <1>1, <1>3, <1>4, <1>7, <1>12
<1>17. size >= alone
    BY <1>7, <1>8, <1>10, <1>14, <1>15
<1>18. attr.height % 2 = 0 => 2 * size * 100 >= 3 * all
    BY <1>12, <1>14, <1>16, <1>17
<1> QED
    BY <1>7, <1>8, <1>13, <1>14, <1>15, <1>18 DEF size, alone

\* What the picture information holds of the search, besides the motion.
Search(type, w, h) == IF type = "h264" THEN DivUp(w, 64) * DivUp(h, 16) * 64 ELSE DivUp(w, 32) * DivUp(h, 32) * 64

\* The search of motion has a size.
LEMMA SearchNat ==
    ASSUME NEW w \in Nat, NEW h \in Nat, NEW type PROVE Search(type, w, h) \in Nat
<1>1. DivUp(w, 64) \in Nat /\ DivUp(h, 16) \in Nat
    BY DivBounds DEF DivUp
<1>2. DivUp(w, 32) \in Nat /\ DivUp(h, 32) \in Nat
    BY DivBounds DEF DivUp
<1>3. DivUp(w, 64) * DivUp(h, 16) * 64 \in Nat
    BY <1>1
<1>4. DivUp(w, 32) * DivUp(h, 32) * 64 \in Nat
    BY <1>2
<1> QED
    BY <1>3, <1>4 DEF Search

\* Sharing takes from the information what it adds to the picture.
LEMMA InfoSizes ==
    ASSUME NEW type \in {"h264", "h265"}, NEW attr, attr.width \in Nat, attr.height \in Nat,
           CheckPicSize(type, attr.width, attr.height),
           NEW unshared, unshared.width = attr.width, unshared.height = attr.height,
           unshared.share_buf_en = FALSE, attr.share_buf_en \in BOOLEAN
    PROVE  \E rest \in Nat :
              /\ VencPicInfoBufSize(type, unshared) = rest + Search(type, attr.width, attr.height)
              /\ attr.share_buf_en = TRUE => VencPicInfoBufSize(type, attr) = rest
              /\ attr.share_buf_en = FALSE => VencPicInfoBufSize(type, attr) = rest + Search(type, attr.width, attr.height)
<1> DEFINE w == attr.width
           h == attr.height
           info == IF type = "h264" THEN (AlignUp(w, 1024) \div 16) * DivUp(h, 16) * 2
                   ELSE (AlignUp(w, 512) \div 32) * DivUp(h, 32) * 2
           tmv  == IF type = "h264" THEN 0 ELSE ((DivUp(w, 32) * DivUp(h, 32) + 1) \div 2) * 2 * 16
           pme  == Search(type, w, h)
<1>1. info \in Nat
    <2>1. AlignUp(w, 1024) \in Nat
        BY AlignedTo1024
    <2>2. AlignUp(w, 512) \in Nat
        BY AlignedTo512
    <2>3. DivUp(h, 16) \in Nat /\ DivUp(h, 32) \in Nat
        BY DivBounds DEF DivUp
    <2>4. (AlignUp(w, 1024) \div 16) * DivUp(h, 16) * 2 \in Nat
        BY <2>1, <2>3
    <2>5. (AlignUp(w, 512) \div 32) * DivUp(h, 32) * 2 \in Nat
        BY <2>2, <2>3
    <2> QED
        BY <2>4, <2>5
<1>2. tmv \in Nat
    <2>1. DivUp(w, 32) \in Nat /\ DivUp(h, 32) \in Nat
        BY DivBounds DEF DivUp
    <2>2. DivUp(w, 32) * DivUp(h, 32) \in Nat
        BY <2>1
    <2> DEFINE p == DivUp(w, 32) * DivUp(h, 32)
    <2>3. ((p + 1) \div 2) * 2 * 16 \in Nat
        <3> HIDE DEF p
        <3>1. p \in Nat
            BY <2>2 DEF p
        <3> QED
            BY <3>1
    <2> QED
        BY <2>3
<1>3. pme \in Nat
    BY SearchNat
<1>4. VencPicInfoBufSize(type, unshared) = tmv + pme + info
    BY DEF VencPicInfoBufSize, Search
<1>5. attr.share_buf_en = TRUE => VencPicInfoBufSize(type, attr) = tmv + info
    BY DEF VencPicInfoBufSize, Search
<1>6. attr.share_buf_en = FALSE => VencPicInfoBufSize(type, attr) = tmv + pme + info
    BY DEF VencPicInfoBufSize, Search
<1> HIDE DEF tmv, info, pme
<1>7. tmv + info \in Nat /\ tmv + pme + info = (tmv + info) + pme
    BY <1>1, <1>2, <1>3
<1> QED
    BY <1>4, <1>5, <1>6, <1>7 DEF pme

\* An encoder's picture has room for the part it is told to keep; sharing
\* moves the search, and costs.
LEMMA EncoderFitsPicture ==
    ASSUME NEW c \in AskableCoder, VencPicBufSize(c.type, c) > 0
    PROVE  LET pic  == VencPicBufSize(c.type, c)
               info == VencPicInfoBufSize(c.type, c)
               unshared == [c EXCEPT !.share_buf_en = FALSE]
               alone == VencPicBufSize(c.type, unshared)
               also  == VencPicInfoBufSize(c.type, unshared)
           IN /\ c.height % 2 = 0 => 2 * pic * 100 >= 3 * c.width * c.height * c.frame_buf_ratio
              /\ pic >= alone /\ info <= also /\ pic + info >= alone + also
<1> DEFINE pic  == VencPicBufSize(c.type, c)
           info == VencPicInfoBufSize(c.type, c)
           unshared == [c EXCEPT !.share_buf_en = FALSE]
           alone == VencPicBufSize(c.type, unshared)
           also  == VencPicInfoBufSize(c.type, unshared)
           search == Search(c.type, c.width, c.height)
<1>1. VencCheck(c.type, c) /\ c.type \in {"h264", "h265"}
    BY DEF VencPicBufSize, VencCheck
<1>2. /\ unshared.share_buf_en = FALSE /\ unshared.width = c.width /\ unshared.height = c.height
      /\ unshared.frame_buf_ratio = c.frame_buf_ratio /\ unshared.bit_width = c.bit_width
    BY DEF AskableCoder
<1>3. c.width \in Nat /\ c.height \in Nat /\ c.height > 0 /\ c.frame_buf_ratio \in Nat /\ c.share_buf_en \in BOOLEAN
    BY DEF AskableCoder
<1>4. VencCheck(c.type, unshared) /\ CheckPicSize(c.type, c.width, c.height)
    BY <1>1, <1>2 DEF VencCheck, CheckPicSize
<1>5. search \in Nat
    BY <1>3, SearchNat
<1>6. PICK rest \in Nat :
         /\ also = rest + search
         /\ c.share_buf_en = TRUE => info = rest
         /\ c.share_buf_en = FALSE => info = rest + search
    <2> HIDE DEF unshared
    <2> QED
        BY <1>1, <1>2, <1>3, <1>4, InfoSizes
<1>7. /\ pic \in Nat /\ alone \in Nat
      /\ c.share_buf_en = FALSE => pic = alone
      /\ c.share_buf_en = TRUE => pic >= alone + search
      /\ c.height % 2 = 0 => 2 * pic * 100 >= 3 * c.width * c.height * c.frame_buf_ratio
    <2>1. CASE c.type = "h264"
        <3> DEFINE header == 128 * DivUp(c.height, 16)
                   more == ((16 * 4 + 16 + 16 + 15) \div 16) * 16
                   pme == DivUp(c.width, 64) * DivUp(c.height, 16) * 64 + AlignUp(c.width, 64)
        <3>1. pic = PicSize(c, header, more, pme)
            BY <1>1, <2>1 DEF VencPicBufSize, VencH264PicBufSize
        <3>2. alone = PicSize(unshared, header, more, pme)
            BY <1>2, <1>4, <2>1 DEF VencPicBufSize, VencH264PicBufSize
        <3>3. header \in Nat /\ header >= 3
            <4>1. DivUp(c.height, 16) \in Nat /\ DivUp(c.height, 16) > 0
                BY <1>3, DivBounds DEF DivUp
            <4> QED
                BY <4>1
        <3>4. more \in Nat
            OBVIOUS
        <3>5. pme \in Nat /\ pme >= search
            <4>1. AlignUp(c.width, 64) \in Nat
                BY <1>3, AlignedTo64
            <4>2. search = DivUp(c.width, 64) * DivUp(c.height, 16) * 64
                BY <2>1 DEF Search
            <4> HIDE DEF search
            <4> QED
                BY <4>1, <4>2, <1>5
        <3> HIDE DEF header, more, pme, unshared, pic, alone, search
        <3>6. /\ PicSize(c, header, more, pme) \in Nat /\ PicSize(unshared, header, more, pme) \in Nat
              /\ c.share_buf_en = FALSE => PicSize(c, header, more, pme) = PicSize(unshared, header, more, pme)
              /\ c.share_buf_en = TRUE => PicSize(c, header, more, pme) >= PicSize(unshared, header, more, pme) + pme
              /\ c.height % 2 = 0 => 2 * PicSize(c, header, more, pme) * 100 >= 3 * c.width * c.height * c.frame_buf_ratio
            <4>1. pme \in Nat
                BY <3>5
            <4> QED
                BY <1>2, <1>3, <3>3, <3>4, <4>1, PicSizeHolds
        <3> QED
            BY <3>1, <3>2, <3>5, <3>6, <1>5
    <2>2. CASE c.type = "h265"
        <3> DEFINE header == 256 * DivUp(c.height, 32)
                   more == ((20 * 4 + 16 + 32 + 15) \div 16) * 16
                   pme == DivUp(c.width, 32) * DivUp(c.height, 32) * 64 + 2 * AlignUp(c.width, 32)
        <3>1. pic = PicSize(c, header, more, pme)
            BY <1>1, <2>2 DEF VencPicBufSize, VencH265PicBufSize
        <3>2. alone = PicSize(unshared, header, more, pme)
            BY <1>2, <1>4, <2>2 DEF VencPicBufSize, VencH265PicBufSize
        <3>3. header \in Nat /\ header >= 3
            <4>1. DivUp(c.height, 32) \in Nat /\ DivUp(c.height, 32) > 0
                BY <1>3, DivBounds DEF DivUp
            <4> QED
                BY <4>1
        <3>4. more \in Nat
            OBVIOUS
        <3>5. pme \in Nat /\ pme >= search
            <4>1. AlignUp(c.width, 32) \in Nat
                BY <1>3, AlignedTo32
            <4>2. search = DivUp(c.width, 32) * DivUp(c.height, 32) * 64
                BY <2>2 DEF Search
            <4> HIDE DEF search
            <4> QED
                BY <4>1, <4>2, <1>5
        <3> HIDE DEF header, more, pme, unshared, pic, alone, search
        <3>6. /\ PicSize(c, header, more, pme) \in Nat /\ PicSize(unshared, header, more, pme) \in Nat
              /\ c.share_buf_en = FALSE => PicSize(c, header, more, pme) = PicSize(unshared, header, more, pme)
              /\ c.share_buf_en = TRUE => PicSize(c, header, more, pme) >= PicSize(unshared, header, more, pme) + pme
              /\ c.height % 2 = 0 => 2 * PicSize(c, header, more, pme) * 100 >= 3 * c.width * c.height * c.frame_buf_ratio
            <4>1. pme \in Nat
                BY <3>5
            <4> QED
                BY <1>2, <1>3, <3>3, <3>4, <4>1, PicSizeHolds
        <3> QED
            BY <3>1, <3>2, <3>5, <3>6, <1>5
    <2> QED
        BY <1>1, <2>1, <2>2
<1> HIDE DEF pic, info, alone, also, search, unshared
<1>8. pic >= alone /\ info <= also /\ pic + info >= alone + also
    BY <1>3, <1>5, <1>6, <1>7
<1> QED
    BY <1>7, <1>8 DEF pic, info, alone, also, unshared

\* What a coder keeps of any picture fits what is kept there.
THEOREM EveryCoderFits ==
    ASSUME NEW c \in AskableCoder PROVE CoderFits(c, CoderBlocks(c))
<1> DEFINE kept == CoderBlocks(c)
           unshared == [c EXCEPT !.share_buf_en = FALSE]
           alone == CoderBlocks(unshared)
<1>1. /\ kept.vdec = VdecPicBufSize(c.type, c) /\ kept.tmv = VdecTmvBufSize(c.type, c.width, c.height)
      /\ kept.pic = VencPicBufSize(c.type, c) /\ kept.info = VencPicInfoBufSize(c.type, c)
    BY DEF CoderBlocks
<1>2. unshared.type = c.type
    BY DEF AskableCoder
<1>3. alone.pic = VencPicBufSize(c.type, unshared) /\ alone.info = VencPicInfoBufSize(c.type, unshared)
    BY <1>2 DEF CoderBlocks
<1>4. /\ kept.vdec > 0 <=> CheckPicSize(c.type, c.width, c.height)
      /\ kept.vdec > 0 => 2 * kept.vdec >= c.width * c.height * (IF c.type = "jpeg" /\ c.format = "422" THEN 4 ELSE 3)
      /\ kept.vdec > 0 /\ c.type = "h265" => 2 * 8 * kept.vdec >= (c.width * c.height * 3) * c.bit_width
    BY <1>1, DecoderFitsPicture
<1>5. kept.tmv > 0 => 256 * kept.tmv >= 16 * c.width * c.height
    BY <1>1, MotionFits
<1>6. kept.pic > 0 => /\ c.height % 2 = 0 => 2 * kept.pic * 100 >= 3 * c.width * c.height * c.frame_buf_ratio
                      /\ kept.pic >= alone.pic /\ kept.info <= alone.info /\ kept.pic + kept.info >= alone.pic + alone.info
    BY <1>1, <1>3, EncoderFitsPicture
<1>7. c.type = "h265" => (IF c.type = "jpeg" /\ c.format = "422" THEN 4 ELSE 3) = 3
    OBVIOUS
<1> HIDE DEF kept, alone, unshared
<1>8. CoderFits(c, kept)
    BY <1>4, <1>5, <1>6, <1>7 DEF CoderFits, alone, unshared
<1> QED
    BY <1>8 DEF kept

-----------------------------------------------------------------------------
(* Maps.                                                                   *)

AskableMap == [what : {"map"}, type : {"h264", "h265", "jpeg"}, width : Nat \ {0}, height : Nat \ {0}, blk : Nat]

\* A side aligned up for a map has the blocks of the picture's side: in blocks
\* of 16, and four times or twice as many as in larger ones.
LEMMA SideOf16 ==
    ASSUME NEW x \in Nat
    PROVE  /\ AlignUp(x, 16) \div 16 >= DivUp(x, 16) /\ AlignUp(x, 16) \div 16 \in Nat
           /\ AlignUp(x, 32) \div 16 >= DivUp(x, 16) /\ AlignUp(x, 32) \div 16 \in Nat
           /\ AlignUp(x, 256) \div 16 >= DivUp(x, 16) /\ AlignUp(x, 256) \div 16 \in Nat
           /\ 2 * (AlignUp(x, 512) \div 32) >= DivUp(x, 16) /\ AlignUp(x, 512) \div 32 \in Nat
           /\ 4 * (AlignUp(x, 1024) \div 64) >= DivUp(x, 16) /\ AlignUp(x, 1024) \div 64 \in Nat
           /\ 2 * (AlignUp(x, 1024) \div 64) >= DivUp(x, 32)
           /\ DivUp(x, 16) \in Nat /\ DivUp(x, 32) \in Nat
<1>1. DivUp(x, 16) \in Nat /\ 16 * DivUp(x, 16) <= x + 15 /\ DivUp(x, 32) \in Nat /\ 32 * DivUp(x, 32) <= x + 31
    BY DivBounds DEF DivUp
<1>2. AlignUp(x, 16) \div 16 >= DivUp(x, 16) /\ AlignUp(x, 16) \div 16 \in Nat
    <2>1. AlignUp(x, 16) \in Nat /\ AlignUp(x, 16) >= x /\ AlignUp(x, 16) % 16 = 0
        BY AlignedTo16
    <2> QED
        BY <1>1, <2>1
<1>3. AlignUp(x, 32) \div 16 >= DivUp(x, 16) /\ AlignUp(x, 32) \div 16 \in Nat
    <2>1. AlignUp(x, 32) \in Nat /\ AlignUp(x, 32) >= x /\ AlignUp(x, 32) % 32 = 0
        BY AlignedTo32
    <2> QED
        BY <1>1, <2>1
<1>4. AlignUp(x, 256) \div 16 >= DivUp(x, 16) /\ AlignUp(x, 256) \div 16 \in Nat
    <2>1. AlignUp(x, 256) \in Nat /\ AlignUp(x, 256) >= x /\ AlignUp(x, 256) % 256 = 0
        BY AlignedTo256
    <2> QED
        BY <1>1, <2>1
<1>5. 2 * (AlignUp(x, 512) \div 32) >= DivUp(x, 16) /\ AlignUp(x, 512) \div 32 \in Nat
    <2>1. AlignUp(x, 512) \in Nat /\ AlignUp(x, 512) >= x /\ AlignUp(x, 512) % 512 = 0
        BY AlignedTo512
    <2> QED
        BY <1>1, <2>1
<1>6. /\ 4 * (AlignUp(x, 1024) \div 64) >= DivUp(x, 16) /\ AlignUp(x, 1024) \div 64 \in Nat
      /\ 2 * (AlignUp(x, 1024) \div 64) >= DivUp(x, 32)
    <2>1. AlignUp(x, 1024) \in Nat /\ AlignUp(x, 1024) >= x /\ AlignUp(x, 1024) % 1024 = 0
        BY AlignedTo1024
    <2> QED
        BY <1>1, <2>1
<1> QED
    BY <1>1, <1>2, <1>3, <1>4, <1>5, <1>6

\* The maps of an encoder have a place for every block of the picture.
LEMMA EncoderMapsFit ==
    ASSUME NEW w \in Nat, NEW h \in Nat, ~TooLarge(w, h)
    PROVE  /\ QpmapSize("h264", w, h) >= DivUp(w, 16) * DivUp(h, 16) /\ QpmapSize("h265", w, h) >= DivUp(w, 16) * DivUp(h, 16)
           /\ QpmapSize("jpeg", w, h) = 0
           /\ 2 * SkipWeightSize("h264", w, h) >= DivUp(w, 16) * DivUp(h, 16)
           /\ 2 * SkipWeightSize("h265", w, h) >= DivUp(w, 32) * DivUp(h, 32)
           /\ 4 * RoimapSize("jpeg", w, h) >= DivUp(w, 16) * DivUp(h, 16)
<1> DEFINE b16 == DivUp(h, 16)
           b32 == DivUp(h, 32)
           a16 == DivUp(w, 16)
           a32 == DivUp(w, 32)
           q == AlignUp(w, 256) \div 16
           s4 == AlignUp(w, 512) \div 32
           s5 == AlignUp(w, 1024) \div 64
           r4 == AlignUp(h, 16) \div 16
           r5 == AlignUp(h, 32) \div 16
<1>1. /\ b16 \in Nat /\ b32 \in Nat /\ r4 \in Nat /\ r5 \in Nat /\ r4 >= b16 /\ r5 >= b16
    BY SideOf16
<1>2. /\ a16 \in Nat /\ a32 \in Nat /\ q \in Nat /\ s4 \in Nat /\ s5 \in Nat
      /\ q >= a16 /\ 2 * s4 >= a16 /\ 4 * s5 >= a16 /\ 2 * s5 >= a32
    BY SideOf16
<1>3. w <= MaxiNumLimit /\ h <= MaxiNumLimit
    BY DEF TooLarge, MaxiNumLimit
<1>4. /\ QpmapSize("h264", w, h) = q * r4 /\ QpmapSize("h265", w, h) = q * r5 /\ QpmapSize("jpeg", w, h) = q * 0
    <2>1. QpmapStride(w) = q
        BY <1>3 DEF QpmapStride, MaxiNumLimit
    <2> HIDE DEF q
    <2> QED
        BY <2>1 DEF QpmapSize
<1>5. /\ SkipWeightSize("h264", w, h) = s4 * b16 /\ SkipWeightSize("h265", w, h) = s5 * b32
    <2>1. SkipWeightStride("h264", w) = s4 /\ SkipWeightStride("h265", w) = s5
        BY <1>3 DEF SkipWeightStride, MaxiNumLimit
    <2> HIDE DEF s4, s5
    <2> QED
        BY <2>1 DEF SkipWeightSize
<1>6. RoimapSize("jpeg", w, h) = s5 * b16
    <2>1. RoimapStride("jpeg", w) = s5
        BY <1>3 DEF RoimapStride, MaxiNumLimit
    <2> HIDE DEF s5
    <2> QED
        BY <2>1 DEF RoimapSize
<1> HIDE DEF a16, a32, b16, b32, q, s4, s5, r4, r5
<1>7. a16 * b16 <= q * r4 /\ a16 * b16 <= q * r5
    BY <1>1, <1>2, ProdMono
<1>8. a16 * b16 <= (2 * s4) * b16 /\ a16 * b16 <= (4 * s5) * b16
    <2>1. 2 * s4 \in Nat /\ 4 * s5 \in Nat
        BY <1>2
    <2> QED
        BY <1>1, <1>2, <2>1, ProdMono
<1>9. a32 * b32 <= (2 * s5) * b32
    <2>1. 2 * s5 \in Nat
        BY <1>2
    <2> QED
        BY <1>1, <1>2, <2>1, ProdMono
<1>10. (2 * s4) * b16 = 2 * (s4 * b16) /\ (4 * s5) * b16 = 4 * (s5 * b16) /\ (2 * s5) * b32 = 2 * (s5 * b32) /\ q * 0 = 0
    BY <1>1, <1>2
<1> QED
    BY <1>4, <1>5, <1>6, <1>7, <1>8, <1>9, <1>10 DEF a16, a32, b16, b32

\* The map of a mosaic has a bit for every block.
LEMMA MosaicFits ==
    ASSUME NEW w \in Nat, NEW h \in Nat, NEW blk \in MosaicBlocks, w <= BlockLimits.h265, h <= BlockLimits.h265
    PROVE  8 * MosaicMapSize(w, h, blk) >= DivUp(w, blk) * DivUp(h, blk)
<1> DEFINE a == DivUp(w, blk)
           b == DivUp(h, blk)
           s == AlignUp(a, 128) \div 8
<1>1. blk \in Nat /\ blk > 0
    BY DEF MosaicBlocks
<1>2. a \in Nat /\ b \in Nat
    BY <1>1, DivUpNat
<1>3. MosaicMapSize(w, h, blk) = s * b
    <2>1. ~(w > BlockLimits.h265) /\ ~(h > BlockLimits.h265)
        BY DEF BlockLimits
    <2> HIDE DEF s
    <2>2. MosaicMapStride(w, blk) = s
        BY <2>1 DEF MosaicMapStride, s
    <2> QED
        BY <2>1, <2>2 DEF MosaicMapSize
<1> HIDE DEF a, b
<1>4. s \in Nat /\ 8 * s >= a
    <2>1. AlignUp(a, 128) \in Nat /\ AlignUp(a, 128) >= a /\ AlignUp(a, 128) % 128 = 0
        BY <1>2, AlignedTo128
    <2> QED
        BY <1>2, <2>1
<1> HIDE DEF s
<1>5. a * b <= (8 * s) * b /\ (8 * s) * b = 8 * (s * b)
    <2>1. 8 * s \in Nat
        BY <1>4
    <2>2. a * b <= (8 * s) * b
        BY <1>2, <1>4, <2>1, ProdMono
    <2> QED
        BY <1>2, <1>4, <2>2
<1> QED
    BY <1>3, <1>5 DEF a, b

\* The frame noise reduction looks at, in twelve bits; left out if it is too
\* large.
LEMMA HnrFits ==
    ASSUME NEW w \in Nat, NEW h \in Nat, ~TooLarge(w, h)
    PROVE  IF TooLarge(HnrWidth(w), HnrHeight(h)) THEN HnrPicBufSize(w, h) = 4
           ELSE 8 * HnrPicBufSize(w, h) >= 12 * (w + 6) * (h + 7)
<1> DEFINE ww == HnrWidth(w)
           hh == HnrHeight(h)
           asked(mode) == [width |-> ww, height |-> hh, align |-> 0, bit_width |-> 12, format |-> "raw", compress_mode |-> mode]
           aligned(mode) == [width |-> ww, height |-> hh, align |-> 32, bit_width |-> 12, format |-> "raw", compress_mode |-> mode]
           none == GetPicBufCfg(asked("none")).vb_size + 4
           line == GetPicBufCfg(asked("line")).vb_size + 4
<1>1. HnrVbSize(w, h, "none") = none /\ HnrVbSize(w, h, "line") = line
    BY DEF HnrVbSize
<1>2. HnrPicBufSize(w, h) = Larger(none, line)
    BY <1>1 DEF HnrPicBufSize
<1>3. ww \in Nat /\ ww >= w + 6 /\ ww > 0
    <2>1. w + 6 \in Nat
        OBVIOUS
    <2>2. AlignUp(w + 6, 32) \in Nat /\ AlignUp(w + 6, 32) >= w + 6
        BY <2>1, AlignedTo32
    <2> QED
        BY <2>2 DEF HnrWidth
<1>4. hh \in Nat /\ hh >= h + 7 /\ hh > 0
    <2>1. h + 7 \in Nat
        OBVIOUS
    <2>2. AlignUp(h + 7, 32) \in Nat /\ AlignUp(h + 7, 32) >= h + 7
        BY <2>1, AlignedTo32
    <2> QED
        BY <2>2 DEF HnrHeight
<1> HIDE DEF ww, hh
<1>5. CASE TooLarge(ww, hh)
    <2>1. GetPicBufCfg(asked("none")) = NoBlock /\ GetPicBufCfg(asked("line")) = NoBlock
        BY <1>5 DEF GetPicBufCfg
    <2>2. none = 4 /\ line = 4
        BY <2>1 DEF NoBlock
    <2> HIDE DEF none, line
    <2> QED
        BY <1>2, <1>5, <2>2 DEF Larger, ww, hh
<1>6. CASE ~TooLarge(ww, hh)
    <2>1. [asked("none") EXCEPT !.align = Alignment(@)] = aligned("none") /\ [asked("line") EXCEPT !.align = Alignment(@)] = aligned("line")
        BY DEF Alignment, DefaultAlign
    <2>2. GetPicBufCfg(asked("none")) = ViRawBuf(aligned("none"), 12) /\ GetPicBufCfg(asked("line")) = ViRawBuf(aligned("line"), 12)
        BY <1>6, <2>1 DEF GetPicBufCfg
    <2>3. Sized(aligned("none")) /\ Sized(aligned("line"))
        BY <1>3, <1>4 DEF Sized
    <2>4. /\ aligned("none").compress_mode = "none" /\ aligned("line").compress_mode = "line"
          /\ aligned("none").width = ww /\ aligned("none").height = hh
        OBVIOUS
    <2> DEFINE n == ViRawBuf(aligned("none"), 12).vb_size
               l == ViRawBuf(aligned("line"), 12).vb_size
    <2> HIDE DEF asked, aligned
    <2>5. n \in Nat /\ 16 * n >= ww * hh * 12 * 2
        BY <2>3, <2>4, RawFits
    <2>6. l \in Nat
        BY <2>3, <2>4, RawFits
    <2>7. none = n + 4 /\ line = l + 4
        BY <2>2
    <2> HIDE DEF n, l, none, line
    <2>8. HnrPicBufSize(w, h) >= n
        BY <1>2, <2>5, <2>6, <2>7 DEF Larger
    <2>9. HnrPicBufSize(w, h) \in Nat
        BY <1>2, <2>5, <2>6, <2>7 DEF Larger
    <2>10. (w + 6) * (h + 7) <= ww * hh /\ (w + 6) * (h + 7) \in Nat /\ ww * hh \in Nat
        <3>1. w + 6 \in Nat /\ h + 7 \in Nat
            OBVIOUS
        <3> QED
            BY <3>1, <1>3, <1>4, ProdMono
    <2> DEFINE e == (w + 6) * (h + 7)
               f == ww * hh
    <2>11. e \in Nat /\ f \in Nat /\ e <= f /\ 16 * n >= f * 12 * 2
        BY <2>5, <2>10
    <2>12. 12 * (w + 6) * (h + 7) = 12 * e
        OBVIOUS
    <2> HIDE DEF e, f
    <2>13. 8 * HnrPicBufSize(w, h) >= 12 * e
        BY <2>5, <2>8, <2>9, <2>11
    <2> QED
        BY <1>6, <2>12, <2>13 DEF ww, hh
<1> QED
    BY <1>5, <1>6

\* Beside the pictures: AVS, and the frames of colour and luma.
LEMMA BesideFits ==
    ASSUME NEW w \in Nat, NEW h \in Nat
    PROVE  /\ AvsBufSize(w, h) >= 2 * w * h
           /\ 32 * McfColorBufSize(w, h) >= 59 * w * h - 32 /\ McfMonoBufSize(w, h) <= McfColorBufSize(w, h)
<1> DEFINE a == AlignUp(w, 32)
           e == a + (IF w > 4096 THEN 64 ELSE 0)
<1>1. AvsBufSize(w, h) >= 2 * w * h
    <2>1. AlignUp(w, 128) \in Nat /\ AlignUp(w, 128) >= w
        BY AlignedTo128
    <2>2. AlignUp(h, 64) \in Nat /\ AlignUp(h, 64) >= h
        BY AlignedTo64
    <2>3. w * h <= AlignUp(w, 128) * AlignUp(h, 64)
        BY <2>1, <2>2, ProdMono
    <2> QED
        BY <2>1, <2>2, <2>3 DEF AvsBufSize
<1>2. a \in Nat /\ a >= w
    BY AlignedTo32
<1>3. McfColorBufSize(w, h) = (a * h * 59) \div 32 /\ McfMonoBufSize(w, h) = (e * h * 43) \div 32
    BY DEF McfColorBufSize, McfMonoBufSize, DefaultAlign
<1> HIDE DEF a
<1>4. e \in Nat /\ 43 * e <= 59 * a
    BY <1>2
<1> HIDE DEF e
<1>5. w * h <= a * h /\ w * h \in Nat /\ a * h \in Nat
    BY <1>2, ProdMono
<1>6. (43 * e) * h <= (59 * a) * h /\ (43 * e) * h \in Nat
    BY <1>2, <1>4, ProdMono
<1>7. (43 * e) * h = e * h * 43 /\ (59 * a) * h = a * h * 59 /\ a * h * 59 = 59 * (a * h) /\ 59 * w * h = 59 * (w * h)
    BY <1>2, <1>4
<1> DEFINE p == a * h * 59
           q == e * h * 43
           r == 59 * w * h
<1>8. p \in Nat /\ q \in Nat /\ q <= p /\ r \in Nat /\ r <= p
    BY <1>5, <1>6, <1>7
<1> HIDE DEF p, q, r
<1>9. 32 * (p \div 32) >= r - 32 /\ q \div 32 <= p \div 32
    BY <1>8
<1> QED
    BY <1>1, <1>3, <1>9 DEF p, q, r

\* Every block of any picture has its place in a map.
THEOREM EveryMapFits ==
    ASSUME NEW c \in AskableMap PROVE MapsFit(c, Maps(c))
<1> DEFINE maps == Maps(c)
           w == c.width
           h == c.height
<1>1. w \in Nat /\ h \in Nat /\ c.type \in {"h264", "h265", "jpeg"}
    BY DEF AskableMap
<1>2. /\ maps.qpmap = QpmapSize(c.type, w, h) /\ maps.skip_weight = SkipWeightSize(c.type, w, h)
      /\ maps.roimap = RoimapSize(c.type, w, h) /\ maps.mosaic = MosaicMapSize(w, h, c.blk)
      /\ maps.hnr = HnrPicBufSize(w, h) /\ maps.avs = AvsBufSize(w, h)
      /\ maps.color = McfColorBufSize(w, h) /\ maps.mono = McfMonoBufSize(w, h)
    BY DEF Maps
<1> HIDE DEF maps
<1>3. ASSUME ~TooLarge(w, h)
      PROVE  /\ c.type = "h264" => maps.qpmap >= DivUp(w, 16) * DivUp(h, 16) /\ 2 * maps.skip_weight >= DivUp(w, 16) * DivUp(h, 16)
             /\ c.type = "h265" => maps.qpmap >= DivUp(w, 16) * DivUp(h, 16) /\ 2 * maps.skip_weight >= DivUp(w, 32) * DivUp(h, 32)
             /\ c.type = "jpeg" => 4 * maps.roimap >= DivUp(w, 16) * DivUp(h, 16) /\ maps.qpmap = 0
    BY <1>1, <1>2, <1>3, EncoderMapsFit
<1>4. ASSUME c.blk \in MosaicBlocks, w <= BlockLimits.h265, h <= BlockLimits.h265
      PROVE  8 * maps.mosaic >= DivUp(w, c.blk) * DivUp(h, c.blk)
    BY <1>1, <1>2, <1>4, MosaicFits
<1>5. ASSUME ~TooLarge(w, h)
      PROVE  IF TooLarge(HnrWidth(w), HnrHeight(h)) THEN maps.hnr = 4 ELSE 8 * maps.hnr >= 12 * (w + 6) * (h + 7)
    BY <1>1, <1>2, <1>5, HnrFits
<1>6. maps.avs >= 2 * w * h /\ 32 * maps.color >= 59 * w * h - 32 /\ maps.mono <= maps.color
    BY <1>1, <1>2, BesideFits
<1>7. MapsFit(c, maps)
    BY <1>3, <1>4, <1>5, <1>6 DEF MapsFit
<1> QED
    BY <1>7 DEF maps

-----------------------------------------------------------------------------
(* Words.  ot_buffer.h counts in 32 bits: what its functions multiply and   *)
(* add on the way to a size is less than a word holds.                      *)

Two32 == 4294967296

NoneCounted(attr, bits) ==
    attr.width * bits + 7 + attr.align < Two32 /\ 3 * (NoneMain(attr, bits) * AlignUp(attr.height, 2)) < Two32

\* Products with a ratio are counted in 64 bits, and kept in 32.
PicCounted(attr, user) ==
    LET rows == AlignUp(attr.height, 2)
    IN /\ 3 * (HeadStride(attr) * rows) < Two32 /\ 3 * (AlignUp(attr.width, attr.align) * rows) < Two32
       /\ ByRatio(attr) => 2 * (RowBits(attr.width) * rows) < Two32
       /\ CompressPic(attr, user, 8).vb_size < Two32

RawCounted(attr, bits) ==
    /\ attr.width * bits + 8 + attr.align < Two32
    /\ RawNone(attr, bits) * attr.height < Two32 /\ RawLine(attr, bits) * attr.height < Two32
    /\ IsSmall(attr) => attr.height * attr.width * bits * 3 + ((attr.width + 31) \div 32) * attr.height + 255 < Two32
    /\ attr.height * attr.width * bits < Two32
    /\ (IF IsSmall(attr) THEN RawSmall(attr, bits) ELSE RawLarge(attr, bits)) < Two32

\* What BlockCounted is about: sizes up to twice the limit, so that the next
\* larger picture is counted, too.
Sides(attr) ==
    /\ attr.width \in Nat /\ attr.height \in Nat /\ attr.align \in Nat
    /\ 0 < attr.width /\ attr.width <= MaxiNumLimit /\ 0 < attr.height /\ attr.height <= MaxiNumLimit
    /\ 0 < attr.align /\ attr.align <= MaxAlign
Countable(attr) == Sides(attr) /\ attr.width * attr.height <= 2 * MaxPixels

\* A line of a countable picture, by its rows.
LEMMA StrideCounted ==
    ASSUME NEW w \in Nat, NEW h \in Nat, w <= 30000, h <= 30000, w * h <= 67108864,
           NEW stride \in Nat, stride <= 4 * w + 3072, NEW rows \in Nat, rows <= h + 1
    PROVE  stride * rows < 400000000
<1>1. stride * rows <= (4 * w + 3072) * (h + 1)
    BY ProdMono
<1>2. (4 * w + 3072) * (h + 1) = 4 * (w * h) + 4 * w + 3072 * h + 3072
    OBVIOUS
<1> QED
    BY <1>1, <1>2

\* Its rows, made even.
LEMMA RowsCounted ==
    ASSUME NEW attr, Countable(attr)
    PROVE  AlignUp(attr.height, 2) \in Nat /\ AlignUp(attr.height, 2) <= attr.height + 1
<1>1. attr.height \in Nat
    BY DEF Countable, Sides
<1> QED
    BY <1>1, AlignUpNat

\* A picture that is not compressed is counted without wrapping.
LEMMA NoneWords ==
    ASSUME NEW attr, Countable(attr), NEW bits \in 8..16
    PROVE  NoneCounted(attr, bits)
<1> DEFINE w == attr.width
           h == attr.height
           q == (w * bits + 7) \div 8
           rows == AlignUp(h, 2)
<1>1. /\ w \in Nat /\ h \in Nat /\ w <= 30000 /\ h <= 30000 /\ w * h <= 67108864 /\ w > 0
      /\ attr.align \in Nat /\ attr.align > 0 /\ attr.align <= 1024
    BY DEF Countable, Sides, MaxiNumLimit, MaxAlign, MaxPixels
<1>2. w * bits \in Nat /\ w * bits <= 16 * w
    BY <1>1
<1>3. q \in Nat /\ q <= 2 * w
    BY <1>1, <1>2
<1>4. AlignUp(q, attr.align) \in Nat /\ AlignUp(q, attr.align) <= 2 * w + 1023
    <2>1. attr.align \in Nat /\ attr.align > 0
        BY <1>1
    <2> HIDE DEF q
    <2>2. AlignUp(q, attr.align) \in Nat /\ AlignUp(q, attr.align) <= q + attr.align - 1
        BY <1>3, <2>1, AlignUpBounds
    <2> QED
        BY <1>1, <1>3, <2>2
<1>5. NoneMain(attr, bits) \in Nat /\ NoneMain(attr, bits) <= 4 * w + 2048
    BY <1>1, <1>4 DEF NoneMain, NoneLine
<1>6. rows \in Nat /\ rows <= h + 1
    BY RowsCounted
<1> HIDE DEF w, h, rows
<1>7. NoneMain(attr, bits) * rows < 400000000
    BY <1>1, <1>5, <1>6, StrideCounted
<1>8. NoneMain(attr, bits) * rows \in Nat
    BY <1>5, <1>6
<1> QED
    BY <1>1, <1>2, <1>7, <1>8 DEF NoneCounted, Two32, w, h, rows

\* What is aligned is less than a step higher; for each step by itself.
LEMMA StepTo2 == \A x \in Nat : AlignUp(x, 2) \in Nat /\ AlignUp(x, 2) <= x + 1
    BY DEF AlignUp

\* The same for 8.
LEMMA StepTo8 == \A x \in Nat : AlignUp(x, 8) \in Nat /\ AlignUp(x, 8) <= x + 7
    BY DEF AlignUp

\* The same for 32.
LEMMA StepTo32 == \A x \in Nat : AlignUp(x, 32) \in Nat /\ AlignUp(x, 32) <= x + 31
    BY DEF AlignUp

\* The same for 128.
LEMMA StepTo128 == \A x \in Nat : AlignUp(x, 128) \in Nat /\ AlignUp(x, 128) <= x + 127
    BY DEF AlignUp

\* A line of a raw frame, as it is or compressed, is not much longer than four
\* bytes for each pixel.
LEMMA RawStrides ==
    ASSUME NEW attr, Sides(attr), NEW bits \in 8..16
    PROVE  /\ RawNone(attr, bits) \in Nat /\ RawNone(attr, bits) <= 4 * attr.width + 2048
           /\ RawLine(attr, bits) \in Nat /\ RawLine(attr, bits) <= 4 * attr.width + 3072
<1> DEFINE w == attr.width
           bytes == AlignUp(w * bits, 8)
           kept == (w * bits * 1000) \div 1538
           units == (16 + kept + 8192 + 127) \div 128
<1>1. w \in Nat /\ w > 0 /\ attr.align \in Nat /\ attr.align > 0 /\ attr.align <= 1024
    BY DEF Sides, MaxiNumLimit, MaxAlign
<1>2. w * bits \in Nat /\ w * bits <= 16 * w
    BY <1>1
<1>3. bytes \in Nat /\ bytes <= 16 * w + 7
    BY <1>1, <1>2, StepTo8
<1>4. bytes \div 8 \in Nat /\ bytes \div 8 <= 2 * w
    <2> HIDE DEF bytes
    <2> QED
        BY <1>1, <1>3
<1>5. kept \in Nat /\ kept <= 16 * w
    <2>1. w * bits * 1000 \in Nat /\ w * bits * 1000 <= 16000 * w
        <3>1. \A x, y \in Nat : x <= y => x * 1000 \in Nat /\ x * 1000 <= y * 1000
            OBVIOUS
        <3> QED
            BY <1>1, <1>2, <3>1
    <2> QED
        BY <1>1, <2>1
<1>6. units \in Nat /\ 128 * units <= 16 * w + 8335
    <2> HIDE DEF kept
    <2> QED
        BY <1>1, <1>5
<1>7. AlignUp(units, 2) \in Nat /\ AlignUp(units, 2) <= units + 1
    <2> HIDE DEF units
    <2> QED
        BY <1>6, StepTo2
<1>8. 16 * AlignUp(units, 2) \in Nat /\ 16 * AlignUp(units, 2) <= 2 * w + 1042 + 16
    <2> HIDE DEF units
    <2> QED
        BY <1>1, <1>6, <1>7
<1>9. RawNone(attr, bits) = AlignUp(bytes \div 8, attr.align) /\ RawLine(attr, bits) = AlignUp(16 * AlignUp(units, 2), attr.align)
    BY DEF RawNone, RawLine
<1> HIDE DEF w, bytes, units
<1>10. /\ RawNone(attr, bits) \in Nat /\ RawNone(attr, bits) <= bytes \div 8 + attr.align - 1
       /\ RawLine(attr, bits) \in Nat /\ RawLine(attr, bits) <= 16 * AlignUp(units, 2) + attr.align - 1
    <2>1. \A x \in Nat : AlignUp(x, attr.align) \in Nat /\ AlignUp(x, attr.align) <= x + attr.align - 1
        BY <1>1, AlignUpBounds
    <2> QED
        BY <1>4, <1>8, <1>9, <2>1
<1> QED
    BY <1>1, <1>4, <1>8, <1>10 DEF w

\* A raw frame is counted without wrapping, however it is compressed.
LEMMA RawWords ==
    ASSUME NEW attr, Countable(attr), NEW bits \in 8..16
    PROVE  RawCounted(attr, bits)
<1> DEFINE w == attr.width
           h == attr.height
           none == RawNone(attr, bits)
           line == RawLine(attr, bits)
           all == h * w * bits
           heads == (w + 31) \div 32
<1>1. /\ w \in Nat /\ h \in Nat /\ w <= 30000 /\ h <= 30000 /\ w * h <= 67108864 /\ w > 0 /\ h > 0
      /\ attr.align \in Nat /\ attr.align > 0 /\ attr.align <= 1024
    BY DEF Countable, Sides, MaxiNumLimit, MaxAlign, MaxPixels
<1>2. w * bits \in Nat /\ w * bits <= 16 * w
    BY SMT, <1>1
<1>3. none \in Nat /\ none <= 4 * w + 3072 /\ line \in Nat /\ line <= 4 * w + 3072
    <2>1. Sides(attr)
        BY DEF Countable
    <2>2. /\ RawNone(attr, bits) \in Nat /\ RawNone(attr, bits) <= 4 * attr.width + 2048
          /\ RawLine(attr, bits) \in Nat /\ RawLine(attr, bits) <= 4 * attr.width + 3072
        BY <2>1, RawStrides
    <2> QED
        BY SMT, <1>1, <2>2
<1>4. none * h \in Nat /\ none * h < 400000000 /\ line * h \in Nat /\ line * h < 400000000
    <2>1. \A stride \in Nat : stride <= 4 * w + 3072 => stride * h \in Nat /\ stride * h < 400000000
        BY SMT, <1>1, StrideCounted
    <2> HIDE DEF w, h, none, line
    <2> QED
        BY SMT, <1>3, <2>1
<1>5. all \in Nat /\ all <= 1073741824
    <2>1. h * w \in Nat /\ h * w = w * h
        BY SMT, <1>1
    <2>2. \A x \in Nat : x <= 67108864 => x * bits \in Nat /\ x * bits <= 1073741824
        BY SMT
    <2> QED
        BY SMT, <1>1, <2>1, <2>2
<1>6. heads \in Nat /\ heads <= 938 /\ heads * h \in Nat /\ heads * h <= 28140000
    <2>1. heads \in Nat /\ heads <= 938
        BY SMT, <1>1
    <2> HIDE DEF heads
    <2>2. heads * h \in Nat /\ heads * h <= 938 * 30000
        BY SMT, <1>1, <2>1, ProdMono
    <2> QED
        BY SMT, <2>1, <2>2
<1>7. all * 3 \in Nat /\ all * 3 <= 3221225472
    <2> HIDE DEF all
    <2> QED
        BY SMT, <1>5
<1>13. \A x \in Nat : AlignUp(x, attr.align) <= x + attr.align - 1 /\ AlignUp(x, attr.align) \in Nat
    <2>1. attr.align \in Nat /\ attr.align > 0
        BY <1>1
    <2> QED
        BY <2>1, AlignUpBounds
<1>8. RawSmall(attr, bits) < 500000000 /\ RawSmall(attr, bits) \in Nat
    <2> DEFINE units == ((all * 3) \div 2 + heads * h + 255) \div 256
    <2>1. RawSmall(attr, bits) = AlignUp(units * 2 * 16, attr.align)
        BY DEF RawSmall
    <2>2. units \in Nat /\ 256 * units <= 1700000000
        <3> DEFINE half == (all * 3) \div 2
        <3>1. half \in Nat /\ 2 * half <= 3221225472
            <4> HIDE DEF all
            <4> QED
                BY SMT, <1>7
        <3> HIDE DEF half, all, heads, h
        <3>2. ((half + heads * h + 255) \div 256) \in Nat /\ 256 * ((half + heads * h + 255) \div 256) <= 1700000000
            <4> DEFINE x == half + heads * h + 255
            <4>1. x \in Nat /\ x <= 1700000000
                BY SMT, <1>6, <3>1
            <4> HIDE DEF x
            <4> QED
                BY SMT, <4>1 DEF x
        <3> QED
            BY SMT, <3>2 DEF half
    <2> HIDE DEF units
    <2>3. units * 2 * 16 \in Nat /\ units * 2 * 16 <= 250000000
        BY SMT, <2>2
    <2> QED
        BY SMT, <1>1, <1>13, <2>1, <2>3
<1>9. RawLarge(attr, bits) < 500000000 /\ RawLarge(attr, bits) \in Nat
    <2> DEFINE kept == (all * 1000) \div (2000 * 8)
    <2>1. RawLarge(attr, bits) = AlignUp(kept, attr.align)
        BY DEF RawLarge
    <2>2. kept \in Nat /\ kept <= 1073741824 \div 16
        <3> HIDE DEF all
        <3> QED
            BY SMT, <1>5
    <2> HIDE DEF kept
    <2> QED
        BY SMT, <1>1, <1>13, <2>1, <2>2
<1> HIDE DEF none, line, all, heads
<1>10. attr.width * bits + 8 + attr.align < Two32
    BY SMT, <1>1, <1>2 DEF Two32
<1>11. none * h < Two32 /\ line * h < Two32 /\ all < Two32 /\ all * 3 + heads * h + 255 < Two32
    BY SMT, <1>4, <1>5, <1>6, <1>7 DEF Two32
<1>12. (IF IsSmall(attr) THEN RawSmall(attr, bits) ELSE RawLarge(attr, bits)) < Two32
    BY SMT, <1>8, <1>9 DEF Two32
<1> QED
    BY SMT, <1>10, <1>11, <1>12 DEF RawCounted, none, line, all, heads

\* The block of a compressed picture.
LEMMA CompressPicVb ==
    ASSUME NEW attr, NEW user
    PROVE  CompressPic(attr, user, 8).vb_size = AlignUp(Compressed(attr, user).head_size, attr.align) + Compressed(attr, user).main_size
<1> DEFINE made == Compressed(attr, user)
<1>1. CompressPic(attr, user, 8)
        = [made EXCEPT !.head_size = AlignUp(made.head_size, attr.align), !.vb_size = AlignUp(made.head_size, attr.align) + made.main_size]
    BY DEF CompressPic, Compressed, HeadStride, ByRatio
<1>2. DOMAIN made = DOMAIN NoBlock
    BY DEF Compressed, CompactPic, CompactNone
<1>3. DOMAIN NoBlock = {"vb_size", "head_stride", "head_size", "head_y_size", "main_stride", "main_size", "main_y_size"}
    BY DEF NoBlock
<1> HIDE DEF made
<1> QED
    BY <1>1, <1>2, <1>3 DEF made

\* A compressed picture is counted without wrapping.
LEMMA PicWords ==
    ASSUME NEW attr, Countable(attr), NEW user
    PROVE  PicCounted(attr, user)
<1> DEFINE w == attr.width
           h == attr.height
           rows == AlignUp(h, 2)
           hs == HeadStride(attr)
           line == AlignUp(w, attr.align)
           bits == RowBits(w)
           made == Compressed(attr, user)
<1>1. /\ w \in Nat /\ h \in Nat /\ w <= 30000 /\ h <= 30000 /\ w * h <= 67108864 /\ w > 0 /\ h > 0
      /\ attr.align \in Nat /\ attr.align > 0 /\ attr.align <= 1024
    BY SMT DEF Countable, Sides, MaxiNumLimit, MaxAlign, MaxPixels
<1>2. rows \in Nat /\ rows <= h + 1
    BY RowsCounted
<1>3. hs \in Nat /\ hs <= 64
    BY DEF HeadStride
<1>4. line \in Nat /\ line <= w + 1023
    <2>1. attr.align \in Nat /\ attr.align > 0 /\ w \in Nat
        BY <1>1
    <2>2. line \in Nat /\ line <= w + attr.align - 1
        BY <2>1, AlignUpBounds
    <2> HIDE DEF line, w
    <2> QED
        BY SMT, <1>1, <2>1, <2>2
<1>5. bits \in Nat /\ bits <= 8 * w + 127
    <2> DEFINE x == w * 8
    <2>1. x \in Nat /\ x = 8 * w
        BY <1>1
    <2> HIDE DEF x
    <2>2. AlignUp(x, 128) \in Nat /\ AlignUp(x, 128) <= x + 127
        BY SMT, <2>1, StepTo128
    <2>3. bits = AlignUp(x, 128)
        BY DEF RowBits, x
    <2> HIDE DEF bits, w
    <2> QED
        BY SMT, <1>1, <2>1, <2>2, <2>3
<1> HIDE DEF w, h, rows, hs, line, bits, made
<1>6. hs * rows \in Nat /\ hs * rows <= 1920064
    <2>1. hs * rows \in Nat /\ hs * rows <= 64 * 30001
        BY SMT, <1>1, <1>2, <1>3, ProdMono
    <2> QED
        BY SMT, <2>1
<1>7. line * rows \in Nat /\ line * rows < 400000000
    BY SMT, <1>1, <1>2, <1>4, StrideCounted
<1>8. bits * rows \in Nat /\ bits * rows < 600000000
    <2>1. bits * rows \in Nat /\ bits * rows <= (8 * w + 127) * (h + 1)
        BY SMT, <1>1, <1>2, <1>5, ProdMono
    <2>2. (8 * w + 127) * (h + 1) = 8 * (w * h) + 8 * w + 127 * h + 127
        BY SMT, <1>1
    <2> QED
        BY SMT, <1>1, <2>1, <2>2
<1>9. made.head_size \in Nat /\ made.head_size <= 3 * (hs * rows) /\ made.main_size \in Nat /\ made.main_size <= 1900000000
    <2>1. CASE ByRatio(attr)
        <3> DEFINE chroma == ChromaRows(attr.format, rows)
        <3>1. chroma \in Nat /\ chroma <= 2 * rows
            BY SMT, <1>2 DEF ChromaRows
        <3> HIDE DEF chroma
        <3>2. made = CompactPic(attr, user, hs)
            BY <2>1 DEF made, Compressed, hs
        <3>3. /\ made.head_size = hs * (rows + chroma)
              /\ made.main_size = KeptSize(bits, rows, Luma(user)) + KeptSize(bits, chroma, 2000)
            BY <3>2 DEF CompactPic, NoBlock, ChromaRows, KeptSize, RowBits, Luma, DefaultAlign, chroma, rows, bits, w, h
        <3>4. hs * (rows + chroma) \in Nat /\ hs * (rows + chroma) <= 3 * (hs * rows)
            <4>1. hs * (rows + chroma) \in Nat /\ hs * (rows + chroma) <= hs * (3 * rows)
                BY SMT, <1>2, <1>3, <3>1, ProdMono
            <4>2. hs * (3 * rows) = 3 * (hs * rows)
                BY SMT, <1>2, <1>3
            <4> QED
                BY <4>1, <4>2
        <3>5. KeptSize(bits, rows, Luma(user)) \in Nat /\ KeptSize(bits, rows, Luma(user)) <= bits * rows + 31
            <4> DEFINE x == bits * rows
                       kept == (x * 125) \div Luma(user)
            <4>1. Luma(user) \in {1300, 1600}
                BY DEF Luma
            <4>2. x \in Nat
                BY <1>8
            <4> HIDE DEF x
            <4>3. kept \in Nat /\ kept <= x
                BY SMT, <4>1, <4>2
            <4> HIDE DEF kept
            <4>4. AlignUp(kept, 32) \in Nat /\ AlignUp(kept, 32) <= x + 31
                BY SMT, <4>2, <4>3, StepTo32
            <4> QED
                BY <4>4 DEF KeptSize, kept, x
        <3>6. KeptSize(bits, chroma, 2000) \in Nat /\ KeptSize(bits, chroma, 2000) <= 2 * (bits * rows) + 31
            <4> DEFINE x == bits * chroma
                       kept == (x * 125) \div 2000
            <4>1. x \in Nat /\ x <= bits * (2 * rows)
                BY SMT, <1>2, <1>5, <3>1, ProdMono
            <4>2. bits * (2 * rows) = 2 * (bits * rows)
                BY SMT, <1>2, <1>5
            <4> HIDE DEF x
            <4>3. kept \in Nat /\ kept <= x
                BY SMT, <4>1
            <4> HIDE DEF kept
            <4>4. AlignUp(kept, 32) \in Nat /\ AlignUp(kept, 32) <= kept + 31
                BY SMT, <4>3, StepTo32
            <4>5. AlignUp(kept, 32) <= 2 * (bits * rows) + 31
                BY SMT, <1>8, <4>1, <4>2, <4>3, <4>4
            <4> QED
                BY <4>4, <4>5 DEF KeptSize, kept, x
        <3> QED
            BY SMT, <1>8, <3>3, <3>4, <3>5, <3>6
    <2>2. CASE ~ByRatio(attr)
        <3> DEFINE f == Samples(attr.format)
        <3>1. f \in {2, 3, 4, 6}
            BY HalvesInRange DEF Samples
        <3>2. made = CompactNone(attr, hs)
            BY <2>2 DEF made, Compressed, hs
        <3>3. made.head_size = (hs * rows * f) \div 2 /\ made.main_size = (line * rows * f) \div 2
            BY <3>2 DEF CompactNone, NoBlock, Samples, rows, line, w, h
        <3> HIDE DEF f
        <3>4. \A x \in Nat : (x * f) \div 2 \in Nat /\ (x * f) \div 2 <= 3 * x
            BY SMT, <3>1
        <3> QED
            BY SMT, <1>6, <1>7, <3>3, <3>4
    <2> QED
        BY <2>1, <2>2
<1>10. CompressPic(attr, user, 8).vb_size \in Nat /\ CompressPic(attr, user, 8).vb_size < 2000000000
    <2>1. CompressPic(attr, user, 8).vb_size = AlignUp(made.head_size, attr.align) + made.main_size
        BY CompressPicVb DEF made
    <2>2. AlignUp(made.head_size, attr.align) \in Nat /\ AlignUp(made.head_size, attr.align) <= made.head_size + attr.align - 1
        <3>1. attr.align \in Nat /\ attr.align > 0 /\ made.head_size \in Nat
            BY <1>1, <1>9
        <3> QED
            BY <3>1, AlignUpBounds
    <2> QED
        BY SMT, <1>1, <1>6, <1>9, <2>1, <2>2
<1>11. 3 * (hs * rows) < Two32 /\ 3 * (line * rows) < Two32 /\ 2 * (bits * rows) < Two32
    BY SMT, <1>6, <1>7, <1>8 DEF Two32
<1>12. CompressPic(attr, user, 8).vb_size < Two32
    BY SMT, <1>10 DEF Two32
<1> QED
    BY <1>11, <1>12 DEF PicCounted, hs, rows, line, bits, w, h

\* What is asked, once its alignment is clamped.
BlockCounted(c) ==
    LET attr == Aligned(c)
    IN IF c.format = "raw" THEN RawCounted(attr, c.bit_width)
       ELSE IF c.compress_mode = "none" THEN NoneCounted(attr, c.bit_width)
       ELSE c.bit_width = 8 => PicCounted(attr, c.user)

\* The blocks of pictures up to twice the limit are counted without wrapping.
THEOREM EveryBlockCounted ==
    ASSUME NEW c \in Askable, ~TooLarge(c.width, c.height), c.width * c.height <= 2 * MaxPixels
    PROVE  BlockCounted(c)
<1> DEFINE attr == Aligned(c)
<1>1. attr.width = c.width /\ attr.height = c.height /\ attr.align = Alignment(c.align)
    BY AlignedSized
<1>2. Alignment(c.align) \in Nat /\ Alignment(c.align) > 0 /\ Alignment(c.align) <= MaxAlign
    <2>1. c.align \in Nat
        BY DEF Askable
    <2>2. Alignment(c.align) \in Nat /\ Alignment(c.align) > 0
        BY <2>1, AlignmentMultiple
    <2>3. CASE c.align = 0 \/ c.align > MaxAlign
        BY <2>3 DEF Alignment, DefaultAlign, MaxAlign
    <2>4. CASE c.align # 0 /\ ~(c.align > MaxAlign)
        <3>1. AlignUp(c.align, 32) <= 1024
            BY SMT, <2>1, <2>4 DEF AlignUp, MaxAlign
        <3> QED
            BY <2>1, <2>2, <2>4, <3>1 DEF Alignment, DefaultAlign, MaxAlign
    <2> QED
        BY <2>2, <2>3, <2>4
<1>3. Countable(attr)
    <2>1. c.width \in Nat /\ c.height \in Nat /\ c.width > 0 /\ c.height > 0
        BY DEF Askable
    <2>2. c.width <= MaxiNumLimit /\ c.height <= MaxiNumLimit
        BY <2>1 DEF TooLarge, MaxiNumLimit
    <2> QED
        BY <1>1, <1>2, <2>1, <2>2 DEF Countable, Sides
<1>4. c.bit_width \in 8..16
    BY DEF Askable
<1> HIDE DEF attr
<1> QED
    BY <1>3, <1>4, NoneWords, RawWords, PicWords DEF BlockCounted, attr

-----------------------------------------------------------------------------
(* The words of coders.                                                    *)

CoderCounted(c) ==
    LET w == AlignUp(c.width, 64)
        h == DecoderHeight(c.type, c.height)
    IN /\ CheckPicSize(c.type, c.width, c.height) =>
             /\ 3 * (w * h) < Two32 /\ VdecTmvBufSize(c.type, c.width, c.height) < Two32
             /\ c.type # "jpeg" => 3 * (DecoderHeader(c.width, w, h) + w * h + DecoderExtra(c, w, h)) < Two32
       /\ VencCheck(c.type, c) =>
             /\ Counted(c.width, c.height) => c.width * (c.height + 128) * c.frame_buf_ratio < Two32
             /\ VencPicBufSize(c.type, c) < Two32
       /\ VencPicInfoBufSize(c.type, c) < Two32

\* The blocks of a side that a coder takes.
LEMMA StepsTo8192 ==
    \A x \in Nat : x <= 8192 =>
       /\ DivUp(x, 16) \in Nat /\ DivUp(x, 16) <= 512 /\ DivUp(x, 32) \in Nat /\ DivUp(x, 32) <= 256
       /\ DivUp(x, 64) \in Nat /\ DivUp(x, 64) <= 128
    BY SMT DEF DivUp

\* A side that a video coder takes is not aligned beyond the largest.
LEMMA RoundsTo8192 ==
    \A x \in Nat : x <= 8192 =>
       /\ AlignUp(x, 16) \in Nat /\ AlignUp(x, 16) <= 8192 /\ AlignUp(x, 32) \in Nat /\ AlignUp(x, 32) <= 8192
       /\ AlignUp(x, 64) \in Nat /\ AlignUp(x, 64) <= 8192 /\ AlignUp(x, 512) \in Nat /\ AlignUp(x, 512) <= 8192
       /\ AlignUp(x, 1024) \in Nat /\ AlignUp(x, 1024) <= 8192 /\ AlignUp(x, 2048) \in Nat /\ AlignUp(x, 2048) <= 8192
    BY SMT DEF AlignUp

\* The same for JPEG.
LEMMA RoundsTo16384 ==
    \A x \in Nat : x <= 16384 =>
       AlignUp(x, 16) \in Nat /\ AlignUp(x, 16) <= 16384 /\ AlignUp(x, 64) \in Nat /\ AlignUp(x, 64) <= 16384
    BY SMT DEF AlignUp

\* What a decoder keeps of a picture is counted without wrapping.
LEMMA DecoderWords ==
    ASSUME NEW c \in AskableCoder, CheckPicSize(c.type, c.width, c.height)
    PROVE  LET w == AlignUp(c.width, 64)
               h == DecoderHeight(c.type, c.height)
           IN /\ 3 * (w * h) < Two32
              /\ c.type # "jpeg" => 3 * (DecoderHeader(c.width, w, h) + w * h + DecoderExtra(c, w, h)) < Two32
<1> DEFINE w == AlignUp(c.width, 64)
           h == DecoderHeight(c.type, c.height)
<1>1. c.width \in Nat /\ c.height \in Nat /\ c.type \in {"h264", "h265", "mpeg4", "jpeg"}
    BY DEF AskableCoder
<1>2. CASE c.type = "jpeg"
    <2>1. c.width <= 16384 /\ c.height <= 16384
        BY SMT, <1>1, <1>2 DEF CheckPicSize, BlockLimits
    <2>2. w \in Nat /\ w <= 16384 /\ h \in Nat /\ h <= 16384
        BY SMT, <1>1, <1>2, <2>1, RoundsTo16384 DEF DecoderHeight
    <2> HIDE DEF w, h
    <2>3. w * h \in Nat /\ w * h <= 16384 * 16384
        BY SMT, <2>2, ProdMono
    <2>4. 3 * (w * h) < Two32
        BY SMT, <2>3 DEF Two32
    <2> QED
        BY <1>2, <2>4 DEF w, h
<1>3. CASE c.type # "jpeg"
    <2>1. c.width <= 8192 /\ c.height <= 8192
        BY SMT, <1>1, <1>3 DEF CheckPicSize, BlockLimits
    <2>2. w \in Nat /\ w <= 8192
        BY SMT, <1>1, <2>1, RoundsTo8192
    <2>3. h \in Nat /\ h <= 8192
        <3>1. CASE c.type = "h265"
            BY SMT, <1>1, <2>1, <3>1, RoundsTo8192 DEF DecoderHeight
        <3>2. CASE c.type # "h265"
            BY SMT, <1>1, <2>1, <3>2, RoundsTo8192 DEF DecoderHeight
        <3> QED
            BY <3>1, <3>2
    <2> HIDE DEF w, h
    <2>4. w * h \in Nat /\ w * h <= 8192 * 8192
        BY SMT, <2>2, <2>3, ProdMono
    <2>5. DecoderHeader(c.width, w, h) \in Nat /\ DecoderHeader(c.width, w, h) <= 128 * 2048
        <3> DEFINE a == AlignUp(w, 2048) \div 64
                   b == h \div 4
        <3>1. a \in Nat /\ a <= 128
            <4>1. AlignUp(w, 2048) \in Nat /\ AlignUp(w, 2048) <= 8192
                BY SMT, <2>2, RoundsTo8192
            <4> QED
                BY SMT, <4>1
        <3>2. b \in Nat /\ b <= 2048
            BY SMT, <2>3
        <3>3. DecoderHeader(c.width, w, h) = a * b
            BY <2>1 DEF DecoderHeader
        <3> HIDE DEF a, b
        <3> QED
            BY SMT, <3>1, <3>2, <3>3, ProdMono
    <2>6. DecoderExtra(c, w, h) \in Nat /\ DecoderExtra(c, w, h) <= 8192 * 8192
        <3> DEFINE q == (w * 2) \div 8
        <3>1. q \in Nat /\ q <= 8192
            BY SMT, <2>2
        <3> HIDE DEF q
        <3>2. AlignUp(q, 16) \in Nat /\ AlignUp(q, 16) <= 8192
            BY SMT, <3>1, RoundsTo8192
        <3>3. AlignUp(h, 32) \in Nat /\ AlignUp(h, 32) <= 8192
            BY SMT, <2>3, RoundsTo8192
        <3>4. AlignUp(q, 16) * AlignUp(h, 32) \in Nat /\ AlignUp(q, 16) * AlignUp(h, 32) <= 8192 * 8192
            BY SMT, <3>2, <3>3, ProdMono
        <3> QED
            BY SMT, <3>4 DEF DecoderExtra, q
    <2>7. 3 * (w * h) < Two32 /\ 3 * (DecoderHeader(c.width, w, h) + w * h + DecoderExtra(c, w, h)) < Two32
        BY SMT, <2>4, <2>5, <2>6 DEF Two32
    <2> QED
        BY <2>7 DEF w, h
<1> QED
    BY <1>2, <1>3

\* So is what it keeps of the motion.
LEMMA MotionWords ==
    ASSUME NEW type \in {"h264", "h265", "mpeg4", "jpeg"}, NEW w \in Nat, NEW h \in Nat
    PROVE  VdecTmvBufSize(type, w, h) < Two32
<1>1. CASE ~CheckPicSize(type, w, h) \/ type = "jpeg"
    BY SMT, <1>1 DEF VdecTmvBufSize, Two32
<1>2. CASE CheckPicSize(type, w, h) /\ type # "jpeg"
    <2>1. w <= 8192 /\ h <= 8192
        BY SMT, <1>2 DEF CheckPicSize, BlockLimits
    <2>2. ASSUME NEW x \in Nat, x <= 8192 PROVE x \div 16 \in Nat /\ x \div 16 <= 512
        BY SMT, <2>2
    <2> DEFINE unit == IF type = "h265" THEN 64 ELSE 16
               a == AlignUp(w, unit) \div 16
               b == AlignUp(h, unit) \div 16
    <2>3. /\ AlignUp(w, 16) \in Nat /\ AlignUp(w, 16) <= 8192 /\ AlignUp(w, 64) \in Nat /\ AlignUp(w, 64) <= 8192
          /\ AlignUp(h, 16) \in Nat /\ AlignUp(h, 16) <= 8192 /\ AlignUp(h, 64) \in Nat /\ AlignUp(h, 64) <= 8192
        BY SMT, <2>1, RoundsTo8192
    <2>4. a \in Nat /\ a <= 512 /\ b \in Nat /\ b <= 512
        BY <2>2, <2>3
    <2>5. VdecTmvBufSize(type, w, h) = AlignUp((IF type = "h265" THEN 16 ELSE 64) * (a * b), 128)
        BY <1>2 DEF VdecTmvBufSize
    <2> HIDE DEF a, b
    <2>6. a * b \in Nat /\ a * b <= 512 * 512
        BY SMT, <2>4, ProdMono
    <2> DEFINE x == (IF type = "h265" THEN 16 ELSE 64) * (a * b)
    <2>7. x \in Nat /\ x <= 16777216
        BY SMT, <2>6
    <2> HIDE DEF x
    <2>8. AlignUp(x, 128) \in Nat /\ AlignUp(x, 128) <= x + 127
        BY SMT, <2>7, StepTo128
    <2> QED
        BY SMT, <2>5, <2>7, <2>8 DEF Two32, x
<1> QED
    BY <1>1, <1>2

\* What an encoder keeps of a picture: the parts, and what is beside them.
LEMMA PartWords ==
    ASSUME NEW attr, attr.width \in Nat, attr.width <= 8192, attr.frame_buf_ratio \in Nat, attr.frame_buf_ratio <= 100,
           NEW h \in Nat, h <= 8320
    PROVE  KeptPart(attr, h) \in Nat /\ KeptPart(attr, h) <= 70000000
<1> DEFINE x == attr.width * h
           y == x * attr.frame_buf_ratio
           q == y \div 100
<1>1. x \in Nat /\ x <= 8192 * 8320
    BY SMT, ProdMono
<1> HIDE DEF x
<1>2. y \in Nat /\ y <= x * 100
    BY SMT, <1>1, ProdMono
<1> HIDE DEF y
<1>3. q \in Nat /\ q <= x
    BY SMT, <1>1, <1>2
<1>4. KeptPart(attr, h) = AlignUp(q, 256)
    BY DEF KeptPart, q, y, x
<1> HIDE DEF q
<1>5. AlignUp(q, 256) \in Nat /\ AlignUp(q, 256) <= q + 255
    BY SMT, <1>3 DEF AlignUp
<1> QED
    BY SMT, <1>1, <1>3, <1>4, <1>5

\* And of all planes, with what is beside them.
LEMMA PicSizeWords ==
    ASSUME NEW attr, attr.width \in Nat, attr.width <= 8192, attr.height \in Nat, attr.height <= 8192,
           attr.frame_buf_ratio \in Nat, attr.frame_buf_ratio <= 100, attr.share_buf_en \in BOOLEAN,
           NEW header \in Nat, header <= 65536, NEW more \in Nat, more <= 128, NEW pme \in Nat, pme <= 5000000
    PROVE  PicSize(attr, header, more, pme) \in Nat /\ PicSize(attr, header, more, pme) < 200000000
<1> DEFINE y == header * HeaderStride(attr.width)
           rows == IF attr.share_buf_en THEN more ELSE 0
           p == KeptPart(attr, attr.height + rows)
           q == KeptPart(attr, attr.height \div 2 + rows \div 2)
<1>1. HeaderStride(attr.width) \in Nat /\ HeaderStride(attr.width) <= 4
    BY DEF HeaderStride
<1>2. y \in Nat /\ y <= 262144
    <2>1. y \in Nat /\ y <= 65536 * 4
        BY SMT, <1>1, ProdMono
    <2> QED
        BY SMT, <2>1
<1>3. rows \in Nat /\ rows <= 128
    OBVIOUS
<1> HIDE DEF rows
<1>4. attr.height + rows \in Nat /\ attr.height + rows <= 8320
    BY SMT, <1>3
<1>5. attr.height \div 2 + rows \div 2 \in Nat /\ attr.height \div 2 + rows \div 2 <= 8320
    BY SMT, <1>3
<1>6. p \in Nat /\ p <= 70000000 /\ q \in Nat /\ q <= 70000000
    BY <1>4, <1>5, PartWords
<1>7. PicSize(attr, header, more, pme)
        = IF attr.share_buf_en THEN 2 * (y + y \div 2) + (p + q) + pme ELSE y + y \div 2 + (p + q)
    BY DEF PicSize, KeptPart, y, rows, p, q
<1> HIDE DEF y, p, q
<1> QED
    BY SMT, <1>2, <1>6, <1>7

\* What an encoder keeps of a picture is counted without wrapping.
LEMMA EncoderWords ==
    ASSUME NEW c \in AskableCoder, VencCheck(c.type, c)
    PROVE  VencPicBufSize(c.type, c) < Two32
<1>1. /\ c.width \in Nat /\ c.height \in Nat /\ c.share_buf_en \in BOOLEAN
      /\ c.width <= 8192 /\ c.height <= 8192 /\ c.frame_buf_ratio \in Nat /\ c.frame_buf_ratio <= 100
      /\ c.type \in {"h264", "h265"}
    BY SMT DEF AskableCoder, VencCheck, BlockLimits
<1> DEFINE a == DivUp(c.width, 64)
           b == DivUp(c.height, 16)
           m == DivUp(c.width, 32)
           n == DivUp(c.height, 32)
<1>2. a \in Nat /\ a <= 128 /\ b \in Nat /\ b <= 512 /\ m \in Nat /\ m <= 256 /\ n \in Nat /\ n <= 256
    BY SMT, <1>1, StepsTo8192
<1>3. /\ AlignUp(c.width, 64) \in Nat /\ AlignUp(c.width, 64) <= 8192
      /\ AlignUp(c.width, 32) \in Nat /\ AlignUp(c.width, 32) <= 8192
    BY SMT, <1>1 DEF AlignUp
<1>4. CASE c.type = "h264"
    <2> DEFINE size == PicSize(c, 128 * b, 96, a * b * 64 + AlignUp(c.width, 64))
    <2>1. VencPicBufSize(c.type, c) = size
        BY <1>4, SMT DEF VencPicBufSize, VencH264PicBufSize
    <2> HIDE DEF a, b, m, n
    <2>2. a * b \in Nat /\ a * b <= 128 * 512
        BY SMT, <1>2, ProdMono
    <2> DEFINE pme == a * b * 64 + AlignUp(c.width, 64)
               header == 128 * b
    <2>3. pme \in Nat /\ pme <= 5000000 /\ header \in Nat /\ header <= 65536
        BY SMT, <1>2, <1>3, <2>2
    <2>4. size = PicSize(c, header, 96, pme)
        OBVIOUS
    <2> HIDE DEF pme, header, size
    <2>5. size \in Nat /\ size < 200000000
        BY <1>1, <2>3, <2>4, PicSizeWords
    <2> QED
        BY SMT, <2>1, <2>5 DEF Two32
<1>5. CASE c.type = "h265"
    <2> DEFINE size == PicSize(c, 256 * n, 128, m * n * 64 + 2 * AlignUp(c.width, 32))
    <2>1. VencPicBufSize(c.type, c) = size
        BY <1>5, SMT DEF VencPicBufSize, VencH265PicBufSize
    <2> HIDE DEF a, b, m, n
    <2>2. m * n \in Nat /\ m * n <= 256 * 256
        BY SMT, <1>2, ProdMono
    <2> DEFINE pme == m * n * 64 + 2 * AlignUp(c.width, 32)
               header == 256 * n
    <2>3. pme \in Nat /\ pme <= 5000000 /\ header \in Nat /\ header <= 65536
        BY SMT, <1>2, <1>3, <2>2
    <2>4. size = PicSize(c, header, 128, pme)
        OBVIOUS
    <2> HIDE DEF pme, header, size
    <2>5. size \in Nat /\ size < 200000000
        BY <1>1, <2>3, <2>4, PicSizeWords
    <2> QED
        BY SMT, <2>1, <2>5 DEF Two32
<1> QED
    BY <1>1, <1>4, <1>5

\* So is what it keeps of the search.
LEMMA InfoWords ==
    ASSUME NEW c \in AskableCoder
    PROVE  VencPicInfoBufSize(c.type, c) < Two32
<1>1. CASE c.type \notin {"h264", "h265"} \/ ~CheckPicSize(c.type, c.width, c.height)
    BY SMT, <1>1 DEF VencPicInfoBufSize, Two32
<1>2. CASE c.type \in {"h264", "h265"} /\ CheckPicSize(c.type, c.width, c.height)
    <2>1. c.width \in Nat /\ c.height \in Nat /\ c.width <= 8192 /\ c.height <= 8192 /\ c.share_buf_en \in BOOLEAN
        BY SMT, <1>2 DEF CheckPicSize, BlockLimits, AskableCoder
    <2> DEFINE a == DivUp(c.width, 64)
               b == DivUp(c.height, 16)
               m == DivUp(c.width, 32)
               n == DivUp(c.height, 32)
               u == AlignUp(c.width, 1024) \div 16
               v == AlignUp(c.width, 512) \div 32
    <2>2. a \in Nat /\ a <= 128 /\ b \in Nat /\ b <= 512 /\ m \in Nat /\ m <= 256 /\ n \in Nat /\ n <= 256
        BY SMT, <2>1, StepsTo8192
    <2>3. u \in Nat /\ u <= 512 /\ v \in Nat /\ v <= 256
        <3>1. /\ AlignUp(c.width, 1024) \in Nat /\ AlignUp(c.width, 1024) <= 8192
              /\ AlignUp(c.width, 512) \in Nat /\ AlignUp(c.width, 512) <= 8192
            BY SMT, <2>1 DEF AlignUp
        <3> QED
            BY SMT, <3>1
    <2>4. VencPicInfoBufSize(c.type, c)
            = (IF c.type = "h264" THEN 0 ELSE ((m * n + 1) \div 2) * 2 * 16)
              + (IF c.share_buf_en THEN 0 ELSE IF c.type = "h264" THEN a * b * 64 ELSE m * n * 64)
              + (IF c.type = "h264" THEN u * b * 2 ELSE v * n * 2)
        <3> DEFINE tmv == IF c.type = "h264" THEN 0 ELSE ((m * n + 1) \div 2) * 2 * 16
                   pme == IF c.type = "h264" THEN a * b * 64 ELSE m * n * 64
                   info == IF c.type = "h264" THEN u * b * 2 ELSE v * n * 2
        <3>1. VencPicInfoBufSize(c.type, c) = IF c.share_buf_en THEN tmv + info ELSE tmv + pme + info
            BY <1>2 DEF VencPicInfoBufSize
        <3>2. tmv \in Nat /\ pme \in Nat /\ info \in Nat
            <4> HIDE DEF a, b, m, n, u, v
            <4> QED
                BY SMT, <2>2, <2>3
        <3> HIDE DEF tmv, pme, info
        <3>3. VencPicInfoBufSize(c.type, c) = tmv + (IF c.share_buf_en THEN 0 ELSE pme) + info
            BY SMT, <2>1, <3>1, <3>2
        <3> QED
            BY <3>3 DEF tmv, pme, info
    <2> HIDE DEF a, b, m, n, u, v
    <2>5. /\ a * b \in Nat /\ a * b <= 128 * 512 /\ m * n \in Nat /\ m * n <= 256 * 256
          /\ u * b \in Nat /\ u * b <= 512 * 512 /\ v * n \in Nat /\ v * n <= 256 * 256
        BY SMT, <2>2, <2>3, ProdMono
    <2> QED
        BY SMT, <2>4, <2>5 DEF Two32
<1> QED
    BY <1>1, <1>2

\* No product on the way to a coder's blocks wraps.
THEOREM EveryCoderCounted ==
    ASSUME NEW c \in AskableCoder PROVE CoderCounted(c)
<1>1. c.width \in Nat /\ c.height \in Nat /\ c.type \in {"h264", "h265", "mpeg4", "jpeg"} /\ c.frame_buf_ratio \in Nat
    BY DEF AskableCoder
<1>2. ASSUME VencCheck(c.type, c), Counted(c.width, c.height)
      PROVE  c.width * (c.height + 128) * c.frame_buf_ratio < Two32
    <2>1. c.width <= 8192 /\ c.frame_buf_ratio <= 100
        BY SMT, <1>1, <1>2 DEF VencCheck, BlockLimits
    <2> DEFINE x == c.width * c.height
               y == c.width * (c.height + 128)
    <2>2. x \in Nat /\ x <= 33554432
        BY SMT, <1>1, <1>2 DEF Counted, MaxPixels
    <2>3. y = x + 128 * c.width
        BY SMT, <1>1
    <2> HIDE DEF x, y
    <2>4. y \in Nat /\ y <= 34603008
        BY SMT, <1>1, <2>1, <2>2, <2>3
    <2>5. y * c.frame_buf_ratio \in Nat /\ y * c.frame_buf_ratio <= 34603008 * 100
        BY SMT, <1>1, <2>1, <2>4, ProdMono
    <2> QED
        BY SMT, <2>5 DEF Two32, y
<1> QED
    BY <1>1, <1>2, DecoderWords, MotionWords, EncoderWords, InfoWords DEF CoderCounted

MapCounted(c) ==
    /\ QpmapSize(c.type, c.width, c.height) < Two32 /\ SkipWeightSize(c.type, c.width, c.height) < Two32
    /\ RoimapSize(c.type, c.width, c.height) < Two32 /\ MosaicMapSize(c.width, c.height, c.blk) < Two32
    /\ ~TooLarge(c.width, c.height) => AvsBufSize(c.width, c.height) < Two32 /\ HnrPicBufSize(c.width, c.height) < Two32
    /\ Counted(c.width, c.height) /\ ~TooLarge(c.width, c.height) =>
          /\ AlignUp(c.width, DefaultAlign) * c.height * 59 < Two32
          /\ (AlignUp(c.width, DefaultAlign) + 64) * c.height * 43 < Two32

\* Lines by rows of blocks.
LEMMA MapProduct ==
    ASSUME NEW a \in Nat, a <= 2048, NEW b \in Nat, b <= 8192
    PROVE  a * b < Two32
<1>1. a * b \in Nat /\ a * b <= 2048 * 8192
    BY SMT, ProdMono
<1> QED
    BY SMT, <1>1 DEF Two32

\* The maps of a picture are counted without wrapping.
LEMMA MapWords ==
    ASSUME NEW type \in {"h264", "h265", "jpeg"}, NEW w \in Nat, NEW h \in Nat
    PROVE  /\ QpmapSize(type, w, h) < Two32 /\ SkipWeightSize(type, w, h) < Two32 /\ RoimapSize(type, w, h) < Two32
<1>1. CASE TooLarge(w, h)
    BY SMT, <1>1 DEF QpmapSize, SkipWeightSize, RoimapSize, Two32
<1>2. CASE ~TooLarge(w, h)
    <2>1. w <= 30000 /\ h <= 30000
        BY SMT, <1>2 DEF TooLarge, MaxiNumLimit
    <2>2. QpmapStride(w) \in Nat /\ QpmapStride(w) <= 2048
        BY SMT, <2>1 DEF QpmapStride, MaxiNumLimit, AlignUp
    <2>3. SkipWeightStride(type, w) \in Nat /\ SkipWeightStride(type, w) <= 2048
        BY SMT, <2>1 DEF SkipWeightStride, MaxiNumLimit, AlignUp
    <2>4. RoimapStride(type, w) \in Nat /\ RoimapStride(type, w) <= 2048
        BY SMT, <2>1 DEF RoimapStride, MaxiNumLimit, AlignUp
    <2>5. /\ AlignUp(h, 32) \div 16 \in Nat /\ AlignUp(h, 32) \div 16 <= 8192
          /\ AlignUp(h, 16) \div 16 \in Nat /\ AlignUp(h, 16) \div 16 <= 8192
        BY SMT, <2>1 DEF AlignUp
    <2>6. DivUp(h, 32) \in Nat /\ DivUp(h, 32) <= 8192 /\ DivUp(h, 16) \in Nat /\ DivUp(h, 16) <= 8192
        BY SMT, <2>1 DEF DivUp
    <2>7. QpmapSize(type, w, h) < Two32
        <3> DEFINE b == CASE type = "h265" -> AlignUp(h, 32) \div 16 [] type = "h264" -> AlignUp(h, 16) \div 16 [] OTHER -> 0
        <3>1. b \in Nat /\ b <= 8192
            BY SMT, <2>5
        <3>2. QpmapSize(type, w, h) = QpmapStride(w) * b
            BY <1>2 DEF QpmapSize
        <3> HIDE DEF b
        <3> QED
            BY <2>2, <3>1, <3>2, MapProduct
    <2>8. SkipWeightSize(type, w, h) < Two32
        <3> DEFINE b == CASE type = "h265" -> DivUp(h, 32) [] type = "h264" -> DivUp(h, 16) [] OTHER -> 0
        <3>1. b \in Nat /\ b <= 8192
            BY SMT, <2>6
        <3>2. SkipWeightSize(type, w, h) = SkipWeightStride(type, w) * b
            BY <1>2 DEF SkipWeightSize
        <3> HIDE DEF b
        <3> QED
            BY <2>3, <3>1, <3>2, MapProduct
    <2>9. RoimapSize(type, w, h) < Two32
        <3> DEFINE a == RoimapStride(type, w)
                   b == DivUp(h, 16)
        <3>1. a \in Nat /\ a <= 2048 /\ b \in Nat /\ b <= 8192
            BY <2>4, <2>6
        <3>2. CASE type = "jpeg"
            <4>1. RoimapSize(type, w, h) = a * b
                BY <1>2, <3>2 DEF RoimapSize
            <4> HIDE DEF a, b
            <4>2. a * b \in Nat /\ a * b <= 2048 * 8192
                BY SMT, <3>1, ProdMono
            <4> QED
                BY SMT, <4>1, <4>2 DEF Two32
        <3>3. CASE type # "jpeg"
            BY SMT, <3>3 DEF RoimapSize, Two32
        <3> QED
            BY <3>2, <3>3
    <2> QED
        BY <2>7, <2>8, <2>9
<1> QED
    BY <1>1, <1>2

\* So is the map of mosaics.
LEMMA MosaicWords ==
    ASSUME NEW w \in Nat, NEW h \in Nat, NEW blk \in Nat
    PROVE  MosaicMapSize(w, h, blk) < Two32
<1>1. CASE h > 8192 \/ blk \notin MosaicBlocks
    BY SMT, <1>1 DEF MosaicMapSize, BlockLimits, Two32
<1>2. CASE ~(h > 8192) /\ w > 8192 /\ blk \in MosaicBlocks
    <2>1. MosaicMapStride(w, blk) = 0
        BY SMT, <1>2 DEF MosaicMapStride, BlockLimits
    <2>2. DivUp(h, blk) \in Nat
        BY SMT, <1>2 DEF DivUp, MosaicBlocks
    <2> QED
        BY SMT, <1>2, <2>1, <2>2 DEF MosaicMapSize, BlockLimits, Two32
<1>3. CASE ~(h > 8192) /\ ~(w > 8192) /\ blk \in MosaicBlocks
    <2> DEFINE a == MosaicMapStride(w, blk)
               b == DivUp(h, blk)
    <2>1. b \in Nat /\ b <= 8192
        BY SMT, <1>3 DEF DivUp, MosaicBlocks
    <2>2. a \in Nat /\ a <= 2048
        <3> DEFINE q == DivUp(w, blk)
        <3>1. q \in Nat /\ q <= 8192
            BY SMT, <1>3 DEF DivUp, MosaicBlocks
        <3>2. a = AlignUp(q, 128) \div 8
            BY SMT, <1>3 DEF MosaicMapStride, BlockLimits
        <3> HIDE DEF q, a
        <3>3. AlignUp(q, 128) \in Nat /\ AlignUp(q, 128) <= 8320
            BY SMT, <3>1, StepTo128
        <3> QED
            BY SMT, <3>2, <3>3
    <2>3. MosaicMapSize(w, h, blk) = a * b
        BY SMT, <1>3 DEF MosaicMapSize, BlockLimits
    <2> HIDE DEF a, b
    <2> QED
        BY <2>1, <2>2, <2>3, MapProduct
<1> QED
    BY <1>1, <1>2, <1>3

\* So is what lies beside a picture.
LEMMA BesideWords ==
    ASSUME NEW w \in Nat, NEW h \in Nat, ~TooLarge(w, h)
    PROVE  /\ AvsBufSize(w, h) < Two32
           /\ Counted(w, h) => /\ AlignUp(w, DefaultAlign) * h * 59 < Two32
                               /\ (AlignUp(w, DefaultAlign) + 64) * h * 43 < Two32
<1>1. w <= 30000 /\ h <= 30000
    BY SMT DEF TooLarge, MaxiNumLimit
<1>2. AvsBufSize(w, h) < Two32
    <2> DEFINE a == AlignUp(w, 128) * 2
               b == AlignUp(h, 64)
    <2>1. a \in Nat /\ a <= 60254
        BY SMT, <1>1 DEF AlignUp
    <2>2. b \in Nat /\ b <= 30063
        BY SMT, <1>1 DEF AlignUp
    <2>3. AvsBufSize(w, h) = a * b
        BY DEF AvsBufSize
    <2> HIDE DEF a, b
    <2>4. a * b \in Nat /\ a * b <= 60254 * 30063
        BY SMT, <2>1, <2>2, ProdMono
    <2> QED
        BY SMT, <2>3, <2>4 DEF Two32
<1>3. ASSUME Counted(w, h)
      PROVE  AlignUp(w, DefaultAlign) * h * 59 < Two32 /\ (AlignUp(w, DefaultAlign) + 64) * h * 43 < Two32
    <2> DEFINE a == AlignUp(w, DefaultAlign)
               x == a * h
    <2>1. a \in Nat /\ a <= w + 31
        BY SMT, StepTo32 DEF DefaultAlign
    <2>2. w * h \in Nat /\ w * h <= 33554432
        BY SMT, <1>3 DEF Counted, MaxPixels
    <2> HIDE DEF a
    <2>3. x \in Nat /\ x <= (w + 31) * h
        BY SMT, <2>1, ProdMono
    <2>4. (w + 31) * h = w * h + 31 * h
        BY SMT
    <2>5. (a + 64) * h = x + 64 * h
        BY SMT, <2>1
    <2> HIDE DEF x
    <2>6. x * 59 < Two32 /\ (x + 64 * h) * 43 < Two32
        BY SMT, <1>1, <2>2, <2>3, <2>4 DEF Two32
    <2> QED
        BY <2>5, <2>6 DEF a, x
<1> QED
    BY <1>2, <1>3

\* So is the frame noise reduction looks at.
LEMMA HnrWords ==
    ASSUME NEW w \in Nat, NEW h \in Nat, ~TooLarge(w, h)
    PROVE  HnrPicBufSize(w, h) < Two32
<1> DEFINE ww == HnrWidth(w)
           hh == HnrHeight(h)
           asked(mode) == [width |-> ww, height |-> hh, align |-> 0, bit_width |-> 12, format |-> "raw", compress_mode |-> mode]
           aligned(mode) == [width |-> ww, height |-> hh, align |-> 32, bit_width |-> 12, format |-> "raw", compress_mode |-> mode]
           none == GetPicBufCfg(asked("none")).vb_size + 4
           line == GetPicBufCfg(asked("line")).vb_size + 4
<1>1. HnrVbSize(w, h, "none") = none /\ HnrVbSize(w, h, "line") = line
    BY DEF HnrVbSize
<1>2. HnrPicBufSize(w, h) = Larger(none, line)
    BY <1>1 DEF HnrPicBufSize
<1>3. ww \in Nat /\ ww > 0 /\ hh \in Nat /\ hh > 0
    BY SMT DEF HnrWidth, HnrHeight, AlignUp
<1> HIDE DEF ww, hh
<1>5. CASE TooLarge(ww, hh)
    <2>1. GetPicBufCfg(asked("none")) = NoBlock /\ GetPicBufCfg(asked("line")) = NoBlock
        BY <1>5 DEF GetPicBufCfg
    <2>2. none = 4 /\ line = 4
        BY <2>1 DEF NoBlock
    <2> HIDE DEF none, line
    <2> QED
        BY SMT, <1>2, <2>2 DEF Larger, Two32
<1>6. CASE ~TooLarge(ww, hh)
    <2>1. [asked("none") EXCEPT !.align = Alignment(@)] = aligned("none") /\ [asked("line") EXCEPT !.align = Alignment(@)] = aligned("line")
        BY DEF Alignment, DefaultAlign
    <2>2. GetPicBufCfg(asked("none")) = ViRawBuf(aligned("none"), 12) /\ GetPicBufCfg(asked("line")) = ViRawBuf(aligned("line"), 12)
        BY <1>6, <2>1 DEF GetPicBufCfg
    <2>3. ww <= 30000 /\ hh <= 30000
        BY SMT, <1>3, <1>6 DEF TooLarge, MaxiNumLimit
    <2>4. /\ aligned("none").compress_mode = "none" /\ aligned("line").compress_mode = "line"
          /\ aligned("none").width = ww /\ aligned("none").height = hh
          /\ aligned("line").width = ww /\ aligned("line").height = hh
          /\ aligned("none").align = 32 /\ aligned("line").align = 32
        OBVIOUS
    <2> HIDE DEF asked, aligned
    <2>5. Sized(aligned("none")) /\ Sized(aligned("line")) /\ Sides(aligned("none")) /\ Sides(aligned("line"))
        BY SMT, <1>3, <2>3, <2>4 DEF Sized, Sides, MaxiNumLimit, MaxAlign
    <2> DEFINE n == RawNone(aligned("none"), 12)
               l == RawLine(aligned("line"), 12)
    <2>6. n \in Nat /\ n <= 4 * ww + 2048 /\ l \in Nat /\ l <= 4 * ww + 3072
        <3>1. 12 \in 8..16
            OBVIOUS
        <3> QED
            BY <2>4, <2>5, <3>1, RawStrides
    <2>7. none = n * hh + 4 /\ line = l * hh + 4
        BY <2>2, <2>4, <2>5, RawVbSize
    <2> HIDE DEF n, l, none, line
    <2>8. n * hh \in Nat /\ n * hh <= 123072 * 30000 /\ l * hh \in Nat /\ l * hh <= 123072 * 30000
        <3>1. n <= 123072 /\ l <= 123072
            BY SMT, <1>3, <2>3, <2>6
        <3> QED
            BY SMT, <1>3, <2>3, <2>6, <3>1, ProdMono
    <2> QED
        BY SMT, <1>2, <2>7, <2>8 DEF Larger, Two32
<1> QED
    BY <1>5, <1>6

\* No product on the way to a map, or to what lies beside a picture, wraps.
THEOREM EveryMapCounted ==
    ASSUME NEW c \in AskableMap PROVE MapCounted(c)
<1>1. c.type \in {"h264", "h265", "jpeg"} /\ c.width \in Nat /\ c.height \in Nat /\ c.blk \in Nat
    BY DEF AskableMap
<1> QED
    BY <1>1, MapWords, MosaicWords, BesideWords, HnrWords DEF MapCounted
=============================================================================
