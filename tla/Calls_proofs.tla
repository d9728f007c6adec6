---------------------------- MODULE Calls_proofs ----------------------------
(***************************************************************************)
(* Whatever is asked of a helper, over all that a caller may ask and not   *)
(* the cases that are tried only, the answer is right; so the properties   *)
(* of Calls hold in every state, for any values of its constants.          *)
(***************************************************************************)
EXTENDS Calls, Buffers_proofs, FiniteSetTheorems, SequenceTheorems, TLAPS

-----------------------------------------------------------------------------
\* The greater and the lesser of two.
LEMMA GreaterOf ==
    ASSUME NEW a \in Int, NEW b \in Int, a >= b
    PROVE  Max({a, b}) = a /\ Max({b, a}) = a /\ Min({a, b}) = b /\ Min({b, a}) = b
    BY DEF Max, Min

-----------------------------------------------------------------------------
(* The windows of a layer.                                                 *)

\* A mode has no more windows than its columns times its rows.
LEMMA Modes ==
    ASSUME NEW mode \in DOMAIN WndInfo
    PROVE  /\ WndInfo[mode][1] \in Nat /\ WndInfo[mode][2] \in Nat /\ WndInfo[mode][3] \in Nat
           /\ WndInfo[mode][2] > 0 /\ WndInfo[mode][3] > 0 /\ WndInfo[mode][1] <= WndInfo[mode][2] * WndInfo[mode][3]
    BY DEF WndInfo

\* The even part of a number.
LEMMA EvenBounds ==
    ASSUME NEW x \in Nat
    PROVE  Even(x) \in Nat /\ Even(x) <= x /\ Even(x) % 2 = 0 /\ x <= Even(x) + 1
    BY DEF Even

\* Stretches of the even part of a length beside each other: one in another
\* place does not reach into it.
LEMMA EvenApart ==
    ASSUME NEW k \in Nat, NEW a \in Nat, NEW b \in Nat, a < b
    PROVE  Even(k * a) + Even(k) <= Even(k * b)
<1>1. k * a + k <= k * b
  <2>1. PICK d \in Nat : b = a + 1 + d
    <3>1. b - a - 1 \in Nat /\ b = a + 1 + (b - a - 1)
        OBVIOUS
    <3> QED
        BY <3>1
  <2>2. k * b = k * a + k + k * d /\ k * d \in Nat /\ k * a \in Nat
    BY <2>1
  <2> QED
    BY <2>2
<1> DEFINE p == k * a
           q == k * b
<1>2. p \in Nat /\ q \in Nat
    OBVIOUS
<1> HIDE DEF p, q
<1>3. p + k <= q => Even(p) + Even(k) <= Even(q)
    BY <1>2 DEF Even
<1> QED
    BY <1>1, <1>3 DEF p, q

\* The last of "n" parts of a length ends in it.
LEMMA PartWithin ==
    ASSUME NEW length \in Nat, NEW n \in Nat, n > 0, NEW i \in Nat, i < n
    PROVE  Even((length \div n) * i) + Even(length \div n) <= length
<1> DEFINE k == length \div n
<1>1. k \in Nat /\ k * n <= length
    OBVIOUS
<1>2. Even(k * n) <= k * n
    BY <1>1, EvenBounds
<1>3. Even(k * i) + Even(k) <= Even(k * n)
    BY <1>1, EvenApart
<1> QED
    BY <1>1, <1>2, <1>3 DEF Even

\* A number is its quotient times the divisor, and the rest.
LEMMA Parted ==
    ASSUME NEW x \in Nat, NEW a \in Nat, a > 0
    PROVE  x = (x \div a) * a + (x % a)
    OBVIOUS

\* The windows of a layer of any size lie on it, on even places, none over
\* another.
THEOREM EveryWindowFits ==
    ASSUME NEW layer, layer.mode \in DOMAIN WndInfo, layer.width \in Nat, layer.height \in Nat
    PROVE  WindowsFit(layer, StartChn(layer.mode, layer.width, layer.height))
<1> DEFINE col == WndInfo[layer.mode][2]
           row == WndInfo[layer.mode][3]
           k == layer.width \div col
           m == layer.height \div row
           wnd == StartChn(layer.mode, layer.width, layer.height)
<1>1. col \in Nat /\ row \in Nat /\ col > 0 /\ row > 0
      /\ WndInfo[layer.mode][1] \in Nat /\ WndInfo[layer.mode][1] <= col * row
    BY Modes
<1>2. \A c \in DOMAIN wnd : /\ c \in Nat /\ c < col * row
                            /\ wnd[c].x = Even(k * (c % col)) /\ wnd[c].y = Even(m * (c \div col))
                            /\ wnd[c].width = Even(k) /\ wnd[c].height = Even(m)
  <2>1. DOMAIN wnd = 0..(WndInfo[layer.mode][1] - 1)
    BY DEF StartChn
  <2>2. ASSUME NEW c \in DOMAIN wnd
        PROVE  c \in Nat /\ c < col * row /\ wnd[c] = GetChnAttr(layer.mode, layer.width, layer.height, c)
    BY <1>1, <2>1, <2>2 DEF StartChn
  <2>3. ASSUME NEW c \in DOMAIN wnd
        PROVE  /\ wnd[c].x = Even(k * (c % col)) /\ wnd[c].y = Even(m * (c \div col))
               /\ wnd[c].width = Even(k) /\ wnd[c].height = Even(m)
    <3>1. wnd[c] = GetChnAttr(layer.mode, layer.width, layer.height, c)
        BY <2>2, <2>3
    <3> HIDE DEF wnd
    <3> QED
        BY <3>1 DEF GetChnAttr
  <2> QED
    BY <2>2, <2>3
<1>3. k \in Nat /\ m \in Nat
    BY <1>1
<1> HIDE DEF wnd
<1>4. \A c \in DOMAIN wnd : c % col \in Nat /\ c % col < col /\ c \div col \in Nat /\ c \div col < row
  <2>1. ASSUME NEW c \in Nat, c < col * row
        PROVE  c % col \in Nat /\ c % col < col /\ c \div col \in Nat /\ c \div col < row
    BY <1>1, <2>1
  <2> QED
    BY <1>2, <2>1
<1>5. ASSUME NEW c \in DOMAIN wnd
      PROVE  /\ wnd[c].x + wnd[c].width <= layer.width /\ wnd[c].y + wnd[c].height <= layer.height
             /\ wnd[c].x % 2 = 0 /\ wnd[c].y % 2 = 0
  <2>1. Even(k * (c % col)) + Even(k) <= layer.width
    BY <1>1, <1>4, <1>5, PartWithin
  <2>2. Even(m * (c \div col)) + Even(m) <= layer.height
    BY <1>1, <1>4, <1>5, PartWithin
  <2>3. k * (c % col) \in Nat /\ m * (c \div col) \in Nat
    BY <1>3, <1>4, <1>5
  <2>4. Even(k * (c % col)) % 2 = 0 /\ Even(m * (c \div col)) % 2 = 0
    BY <2>3, EvenBounds
  <2> QED
    BY <1>2, <1>5, <2>1, <2>2, <2>4
<1>6. ASSUME NEW c \in DOMAIN wnd, NEW d \in DOMAIN wnd, c # d
      PROVE  \/ wnd[c].x + wnd[c].width <= wnd[d].x \/ wnd[d].x + wnd[d].width <= wnd[c].x
             \/ wnd[c].y + wnd[c].height <= wnd[d].y \/ wnd[d].y + wnd[d].height <= wnd[c].y
  <2>1. c % col # d % col \/ c \div col # d \div col
    <3>1. c \in Nat /\ d \in Nat
        BY <1>2, <1>6
    <3>2. c = (c \div col) * col + (c % col) /\ d = (d \div col) * col + (d % col)
        BY <1>1, <3>1, Parted
    <3> QED
        BY <1>6, <3>2
  <2>2. CASE c % col < d % col
    <3>1. Even(k * (c % col)) + Even(k) <= Even(k * (d % col))
        BY <1>3, <1>4, <1>6, <2>2, EvenApart
    <3> QED
        BY <1>2, <1>6, <3>1
  <2>3. CASE d % col < c % col
    <3>1. Even(k * (d % col)) + Even(k) <= Even(k * (c % col))
        BY <1>3, <1>4, <1>6, <2>3, EvenApart
    <3> QED
        BY <1>2, <1>6, <3>1
  <2>4. CASE c \div col < d \div col
    <3>1. Even(m * (c \div col)) + Even(m) <= Even(m * (d \div col))
        BY <1>3, <1>4, <1>6, <2>4, EvenApart
    <3> QED
        BY <1>2, <1>6, <3>1
  <2>5. CASE d \div col < c \div col
    <3>1. Even(m * (d \div col)) + Even(m) <= Even(m * (c \div col))
        BY <1>3, <1>4, <1>6, <2>5, EvenApart
    <3> QED
        BY <1>2, <1>6, <3>1
  <2> QED
    BY <1>4, <2>1, <2>2, <2>3, <2>4, <2>5
<1> QED
    BY <1>5, <1>6 DEF WindowsFit, wnd

-----------------------------------------------------------------------------
(* The way of a point to the square and back.                              *)

\* Scaled down and up again a coordinate comes before itself, by less than the
\* scale and one.
LEMMA ScaledBack ==
    ASSUME NEW t \in Nat, t > 0, NEW w \in Nat, w > 0, NEW v \in Nat, v < w
    PROVE  /\ (v * t) \div w \in Nat /\ (v * t) \div w < t
           /\ (((v * t) \div w) * w) \div t \in 0..v
           /\ v - (((v * t) \div w) * w) \div t \in 0..(w \div t + 1)
<1> DEFINE q == (v * t) \div w
           back == (q * w) \div t
           s == w \div t
<1>1. v * t \in Nat
    OBVIOUS
<1>2. q \in Nat /\ q * w <= v * t /\ v * t < q * w + w
    BY <1>1
<1>3. q < t
    BY <1>2
<1>4. q * w \in Nat
    BY <1>2
<1>5. back \in Nat /\ back * t <= q * w /\ q * w < back * t + t
    BY <1>4
<1>6. s \in Nat /\ w < s * t + t
    OBVIOUS
<1> HIDE DEF q, back, s
<1>7. back <= v
    BY <1>2, <1>5
<1>8. v * t < back * t + t + s * t + t
    BY <1>2, <1>4, <1>5, <1>6
<1>9. v * t < (back + s + 2) * t
    BY <1>5, <1>6, <1>8
<1>10. v < back + s + 2
    BY <1>5, <1>6, <1>9
<1>11. back \in 0..v /\ v - back \in 0..(s + 1)
    BY <1>5, <1>6, <1>7, <1>10
<1> QED
    BY <1>2, <1>3, <1>11 DEF q, back, s

\* The numbers of a place in a picture of width w and height h, for a square of
\* side t: found at v, it comes back at b.
LEMMA RunsTogether ==
    ASSUME NEW t \in Nat, t > 0, NEW w \in Nat, w > 0, NEW h \in Nat, h > 0, NEW y \in Nat,
           NEW across \in Nat, NEW down \in Nat, NEW side \in Nat, NEW v \in Nat, NEW b \in Int,
           across <= side, side * h <= w * t, down * h <= y * t,
           v * t <= down * side + across, b * t <= v * h
    PROVE  b <= (y * w) \div h + w \div t + 1
<1> DEFINE a == (y * w) \div h
           s == w \div t
<1>1. y * w \in Nat
    OBVIOUS
<1>2. a \in Nat /\ y * w < (a + 1) * h
    BY <1>1
<1>3. s \in Nat /\ w < (s + 1) * t
    OBVIOUS
<1> HIDE DEF a, s
<1>4. v * t <= (down + 1) * side
    OBVIOUS
<1>5. (v * t) * h <= (down + 1) * (side * h) /\ (down + 1) * (side * h) <= (down + 1) * (w * t)
  <2>1. v * t \in Nat /\ (down + 1) * side \in Nat /\ side * h \in Nat /\ w * t \in Nat
    OBVIOUS
  <2>2. (v * t) * h <= ((down + 1) * side) * h
    BY <1>4, <2>1, ProdMono
  <2>3. (down + 1) * (side * h) <= (down + 1) * (w * t)
    BY <2>1, ProdMono
  <2> QED
    BY <2>2, <2>3
<1>6. (v * h) * t <= ((down + 1) * w) * t
    BY <1>5
<1>7. v * h <= (down + 1) * w
    BY <1>6
<1>8. b * t <= (down + 1) * w
    BY <1>7
<1>9. (b * t) * h <= ((down + 1) * w) * h
    BY <1>8
<1>10. (down * h) * w <= (y * t) * w
  <2>1. down * h \in Nat /\ y * t \in Nat
    OBVIOUS
  <2> QED
    BY <2>1, ProdMono
<1>11. (b * t) * h <= (y * w) * t + w * h
    BY <1>9, <1>10
<1>12. (y * w) * t < ((a + 1) * h) * t /\ w * h < ((s + 1) * t) * h
    BY <1>2, <1>3
<1>13. (b * t) * h < ((a + s + 2) * t) * h
    BY <1>2, <1>3, <1>11, <1>12
<1>14. b < a + s + 2
    BY <1>2, <1>3, <1>13
<1> QED
    BY <1>2, <1>3, <1>14 DEF a, s

\* In a picture that is higher than wide a place comes back no lower than the
\* share of the height that the width is.
LEMMA HigherReturns ==
    ASSUME NEW pic, pic.width \in Nat, pic.height \in Nat, pic.x \in Nat, pic.y \in Nat,
           pic.x < pic.width, pic.y < pic.height, pic.width < pic.height
    PROVE  Restore(pic, Convert(pic)).y <= (pic.y * pic.width) \div pic.height + (pic.width \div TargetSize + 1)
<1> DEFINE t == TargetSize
           w == pic.width
           h == pic.height
           across == (pic.x * t) \div h
           down == (pic.y * t) \div h
           side == (w * t) \div h
           at == down * side + across
           v == at \div t
           found == Convert(pic)
           b == ((v - found.wpad \div 2) * h) \div t
<1>1. t \in Nat /\ t > 0 /\ MaxStride \in Nat /\ MaxStride > 0
    BY SquareAssumption
<1>2. w \in Nat /\ h \in Nat /\ w > 0 /\ h > 0 /\ pic.x \in Nat /\ pic.y \in Nat /\ Max({w, h}) = h
    BY GreaterOf
<1>3. found.y = v /\ found.wpad = (MaxStride - (side % MaxStride)) % MaxStride
    BY <1>2 DEF Convert
<1> HIDE DEF found, t, w, h
<1>4. side \in Nat /\ side * h <= w * t
  <2>1. w * t \in Nat
    BY <1>1, <1>2
  <2> QED
    BY <1>2, <2>1
<1>5. across \in Nat /\ across <= side
  <2>1. pic.x * t \in Nat /\ w * t \in Nat /\ pic.x * t <= w * t
    BY <1>1, <1>2, ProdMono DEF w
  <2> QED
    BY <1>2, <2>1, DivBounds, DivMono
<1>6. down \in Nat /\ down * h <= pic.y * t
  <2>1. pic.y * t \in Nat
    BY <1>1, <1>2
  <2> QED
    BY <1>2, <2>1
<1>7. found.wpad \in Nat
    BY <1>1, <1>3, <1>4
<1> HIDE DEF side, across, down
<1>8. v \in Nat /\ v * t <= down * side + across
  <2>1. at \in Nat
    BY <1>4, <1>5, <1>6
  <2> HIDE DEF at
  <2>2. v \in Nat /\ v * t <= at
    BY <1>1, <2>1
  <2> QED
    BY <2>2 DEF at
<1> HIDE DEF v
<1>9. b \in Int /\ b * t <= v * h
  <2> DEFINE less == v - found.wpad \div 2
  <2>1. less \in Int /\ less <= v
    BY <1>7, <1>8
  <2> HIDE DEF less
  <2>2. less * h \in Int /\ less * h <= v * h
    BY <1>2, <1>8, <2>1
  <2> DEFINE z == less * h
  <2> HIDE DEF z
  <2>3. z \div t \in Int /\ (z \div t) * t <= z
    BY <1>1, <2>2 DEF z
  <2>4. b = z \div t
    BY DEF z, less
  <2>5. z \in Int /\ z <= v * h /\ v * h \in Int
    BY <1>2, <1>8, <2>2 DEF z
  <2> HIDE DEF b
  <2>6. b \in Int /\ b * t <= z
    BY <2>3, <2>4
  <2>7. b * t \in Int
    BY <1>1, <2>6
  <2> DEFINE up == v * h
             of == b * t
  <2>8. up \in Int /\ of \in Int /\ of <= z /\ z <= up
    BY <2>5, <2>6, <2>7
  <2> HIDE DEF up, of
  <2>9. of <= up
    BY <2>5, <2>8
  <2> QED
    BY <2>6, <2>9 DEF up, of
<1>10. Restore(pic, found).y = Clip(b, h)
    BY <1>2, <1>3 DEF Restore, t, w, h
<1> HIDE DEF b
<1> DEFINE high == (pic.y * w) \div h + w \div t + 1
<1>11. b <= high
    BY <1>1, <1>2, <1>4, <1>5, <1>6, <1>8, <1>9, RunsTogether
<1>12. high \in Nat
  <2>1. pic.y * w \in Nat
    BY <1>2
  <2> QED
    BY <1>1, <1>2, <2>1, DivBounds
<1> HIDE DEF high
<1>13. Clip(b, h) <= high
  <2> DEFINE last == h - 1
  <2>0. last \in Int
    BY <1>2
  <2> HIDE DEF last
  <2>10. b \in Int
    BY <1>9
  <2>1. Min({b, last}) \in Int /\ Min({b, last}) <= b
    <3>1. CASE b <= last
      <4>1. last >= b
        BY <2>10, <2>0, <3>1
      <4>2. Min({b, last}) = b
        BY <2>10, <2>0, <4>1, GreaterOf
      <4> QED
        BY <2>10, <4>2
    <3>2. CASE last <= b
      <4>1. Min({last, b}) = last
        BY <2>10, <2>0, <3>2, GreaterOf
      <4>2. {b, last} = {last, b}
        OBVIOUS
      <4> QED
        BY <2>0, <3>2, <4>1, <4>2
    <3> QED
      BY <2>10, <2>0, <3>1, <3>2
  <2> DEFINE m == Min({b, last})
  <2> HIDE DEF m
  <2>2. m \in Int /\ m <= b
    BY <2>1 DEF m
  <2>3. Max({0, m}) <= high
    BY <1>9, <1>11, <1>12, <2>2, GreaterOf
  <2> QED
    BY <2>3 DEF Clip, m, last
<1>14. high = (pic.y * w) \div h + (w \div t + 1)
  <2>1. pic.y * w \in Nat
    BY <1>2
  <2>2. (pic.y * w) \div h \in Int /\ w \div t \in Int
    BY <1>1, <1>2, <2>1, DivBounds
  <2> QED
    BY <2>2 DEF high
<1> QED
    BY <1>10, <1>13, <1>14 DEF found, t, w, h

\* A place in a picture that is no higher than wide, of any size, scaled into
\* the network's square and back, comes back to where it was, but for the pixels
\* that one of the square's stands for; in a higher one it comes back too high.
THEOREM EveryBoxReturns ==
    ASSUME NEW pic, pic.width \in Nat, pic.height \in Nat, pic.x \in Nat, pic.y \in Nat,
           pic.x < pic.width, pic.y < pic.height
    PROVE  BoxReturns(pic, Restore(pic, Convert(pic)))
<1> SUFFICES ASSUME pic.width >= pic.height
             PROVE  /\ pic.x - Restore(pic, Convert(pic)).x \in 0..(pic.width \div TargetSize + 1)
                    /\ pic.y - Restore(pic, Convert(pic)).y \in 0..(pic.width \div TargetSize + 1)
    BY HigherReturns DEF BoxReturns
<1> DEFINE w == pic.width
           across == (pic.x * TargetSize) \div w
           down == (pic.y * TargetSize) \div w
<1>1. TargetSize \in Nat /\ TargetSize > 0 /\ MaxStride \in Nat /\ MaxStride > 0 /\ TargetSize % MaxStride = 0
    BY SquareAssumption
<1>2. Max({pic.width, pic.height}) = w /\ w > 0 /\ pic.x < w /\ pic.y < w
    BY GreaterOf
<1>3. /\ across \in Nat /\ across < TargetSize
      /\ (across * w) \div TargetSize \in 0..pic.x
      /\ pic.x - (across * w) \div TargetSize \in 0..(w \div TargetSize + 1)
    BY <1>1, <1>2, ScaledBack
<1>4. /\ down \in Nat /\ down < TargetSize
      /\ (down * w) \div TargetSize \in 0..pic.y
      /\ pic.y - (down * w) \div TargetSize \in 0..(w \div TargetSize + 1)
    BY <1>1, <1>2, ScaledBack
<1>5. (w * TargetSize) \div w = TargetSize
    BY <1>1
<1> DEFINE found == Convert(pic)
<1>6. found.wpad = 0 /\ found.x = across /\ found.y = down
  <2>1. /\ found.wpad = (MaxStride - (TargetSize % MaxStride)) % MaxStride
        /\ found.x = (down * TargetSize + across) % TargetSize
        /\ found.y = (down * TargetSize + across) \div TargetSize
    BY <1>2, <1>5 DEF Convert
  <2>2. (MaxStride - (TargetSize % MaxStride)) % MaxStride = 0
    BY <1>1
  <2> HIDE DEF across, down
  <2>3. (down * TargetSize + across) % TargetSize = across /\ (down * TargetSize + across) \div TargetSize = down
    BY <1>1, <1>3, <1>4
  <2> QED
    BY <2>1, <2>2, <2>3
<1> HIDE DEF found, across, down
<1>7. \A v, size \in Int : 0 <= v /\ v < size => Clip(v, size) = v
  <2> SUFFICES ASSUME NEW v \in Int, NEW size \in Int, 0 <= v, v < size PROVE Clip(v, size) = v
    OBVIOUS
  <2> DEFINE last == size - 1
  <2>0. last \in Int /\ last >= v
    OBVIOUS
  <2> HIDE DEF last
  <2>1. Min({v, last}) = v
    BY <2>0, GreaterOf
  <2>2. Max({0, v}) = v
    BY GreaterOf
  <2> QED
    BY <2>1, <2>2 DEF Clip, last
<1>8. /\ Restore(pic, found).x = Clip((across * w) \div TargetSize, pic.width)
      /\ Restore(pic, found).y = Clip((down * w) \div TargetSize, pic.height)
    BY <1>2, <1>3, <1>4, <1>6 DEF Restore
<1>9. Restore(pic, found).x = (across * w) \div TargetSize /\ Restore(pic, found).y = (down * w) \div TargetSize
    BY <1>3, <1>4, <1>7, <1>8
<1> QED
    BY <1>3, <1>4, <1>9 DEF found

-----------------------------------------------------------------------------
(* The rates of video.                                                     *)

\* The steps from a size to the next, for each table.
LEMMA TablesRise ==
    /\ \A s \in 1..6 : H264Qvbr(s, 30) <= H264Qvbr(s + 1, 30)
    /\ \A s \in 1..6 : H265Qvbr(s, 30) <= H265Qvbr(s + 1, 30)
    /\ \A s \in 1..6 : H264Avbr(s, 30) <= H264Avbr(s + 1, 30)
    /\ \A s \in 1..6 : H265Avbr(s, 30) <= H265Avbr(s + 1, 30)
    /\ \A s \in 1..6 : H264Vbr(s, 30) <= H264Vbr(s + 1, 30)
    /\ \A s \in 1..6 : H265Vbr(s, 30) <= H265Vbr(s + 1, 30)
    /\ \A s \in 1..5 : H264Cbr(s, 30) <= H264Cbr(s + 1, 30)
    /\ \A s \in 1..6 : H265Cbr(s, 30) <= H265Cbr(s + 1, 30)
    /\ \A s \in 1..6 : MjpegVbr(s, 30) <= MjpegVbr(s + 1, 30)
    /\ \A s \in 1..6 : MjpegCbr(s, 30) <= MjpegCbr(s + 1, 30)
<1>1. \A s \in 1..6 : H264Qvbr(s, 30) <= H264Qvbr(s + 1, 30)
    BY DEF H264Qvbr, Rate, ShareHalf
<1>2. \A s \in 1..6 : H265Qvbr(s, 30) <= H265Qvbr(s + 1, 30)
    BY DEF H265Qvbr, Rate, ShareHalf
<1>3. \A s \in 1..6 : H264Avbr(s, 30) <= H264Avbr(s + 1, 30)
    BY DEF H264Avbr, Rate, Share, Plain
<1>4. \A s \in 1..6 : H265Avbr(s, 30) <= H265Avbr(s + 1, 30)
    BY DEF H265Avbr, Rate, Share, Plain, No360, Pic360, Other
<1>5. \A s \in 1..6 : H264Vbr(s, 30) <= H264Vbr(s + 1, 30)
    BY DEF H264Vbr, Rate, Share, Plain
<1>6. \A s \in 1..6 : H265Vbr(s, 30) <= H265Vbr(s + 1, 30)
    BY DEF H265Vbr, Rate, Share, Plain, No360, Pic360, Other
<1>7. \A s \in 1..5 : H264Cbr(s, 30) <= H264Cbr(s + 1, 30)
    BY DEF H264Cbr, Rate, Share, Plain
<1>8. \A s \in 1..6 : H265Cbr(s, 30) <= H265Cbr(s + 1, 30)
    BY DEF H265Cbr, Rate, Share, Plain, No360, Pic360, Other
<1>9. \A s \in 1..6 : MjpegVbr(s, 30) <= MjpegVbr(s + 1, 30)
    BY DEF MjpegVbr, Rate, Share, Mjpeg
<1>10. \A s \in 1..6 : MjpegCbr(s, 30) <= MjpegCbr(s + 1, 30)
    BY DEF MjpegCbr, Rate, Share, Mjpeg
<1> QED
    BY <1>1, <1>2, <1>3, <1>4, <1>5, <1>6, <1>7, <1>8, <1>9, <1>10

\* Where they fall, and what a size that is in none of them gets: for H.264's
\* constant rate; and for each table, of 360P and of other sizes.
LEMMA TablesFall ==
    /\ H264Cbr(7, 30) < H264Cbr(6, 30)
    /\ H264Qvbr(1, 30) < H264Qvbr(9, 30) /\ H264Qvbr(3, 30) <= H264Qvbr(8, 30)
    /\ H265Qvbr(1, 30) < H265Qvbr(9, 30) /\ H265Qvbr(3, 30) <= H265Qvbr(8, 30)
    /\ H264Avbr(1, 30) < H264Avbr(9, 30) /\ H264Avbr(3, 30) <= H264Avbr(8, 30)
    /\ H265Avbr(1, 30) < H265Avbr(9, 30) /\ H265Avbr(3, 30) <= H265Avbr(8, 30)
    /\ H264Vbr(1, 30) < H264Vbr(9, 30) /\ H264Vbr(3, 30) <= H264Vbr(8, 30)
    /\ H265Vbr(1, 30) < H265Vbr(9, 30) /\ H265Vbr(3, 30) <= H265Vbr(8, 30)
    /\ H264Cbr(1, 30) < H264Cbr(9, 30) /\ H264Cbr(3, 30) <= H264Cbr(8, 30)
    /\ H265Cbr(1, 30) < H265Cbr(9, 30) /\ H265Cbr(3, 30) <= H265Cbr(8, 30)
    /\ MjpegVbr(1, 30) < MjpegVbr(9, 30) /\ MjpegVbr(3, 30) <= MjpegVbr(8, 30)
    /\ MjpegCbr(1, 30) < MjpegCbr(9, 30) /\ MjpegCbr(3, 30) <= MjpegCbr(8, 30)
    /\ SetH264CvbrBitRate(1, 30).max < SetH264CvbrBitRate(9, 30).max
    /\ SetH264CvbrBitRate(3, 30).max <= SetH264CvbrBitRate(8, 30).max
<1>1. /\ H264Qvbr(1, 30) < H264Qvbr(9, 30) /\ H264Qvbr(3, 30) <= H264Qvbr(8, 30)
      /\ H265Qvbr(1, 30) < H265Qvbr(9, 30) /\ H265Qvbr(3, 30) <= H265Qvbr(8, 30)
    BY DEF H264Qvbr, H265Qvbr, Rate, ShareHalf
<1>2. /\ H264Avbr(1, 30) < H264Avbr(9, 30) /\ H264Avbr(3, 30) <= H264Avbr(8, 30)
      /\ H264Vbr(1, 30) < H264Vbr(9, 30) /\ H264Vbr(3, 30) <= H264Vbr(8, 30)
    BY DEF H264Avbr, H264Vbr, Rate, Share, Plain
<1>3. /\ H265Avbr(1, 30) < H265Avbr(9, 30) /\ H265Avbr(3, 30) <= H265Avbr(8, 30)
      /\ H265Vbr(1, 30) < H265Vbr(9, 30) /\ H265Vbr(3, 30) <= H265Vbr(8, 30)
      /\ H265Cbr(1, 30) < H265Cbr(9, 30) /\ H265Cbr(3, 30) <= H265Cbr(8, 30)
    BY DEF H265Avbr, H265Vbr, H265Cbr, Rate, Share, Plain, No360, Pic360, Other
<1>4. H264Cbr(7, 30) < H264Cbr(6, 30) /\ H264Cbr(1, 30) < H264Cbr(9, 30) /\ H264Cbr(3, 30) <= H264Cbr(8, 30)
    BY DEF H264Cbr, Rate, Share, Plain
<1>5. /\ MjpegVbr(1, 30) < MjpegVbr(9, 30) /\ MjpegVbr(3, 30) <= MjpegVbr(8, 30)
      /\ MjpegCbr(1, 30) < MjpegCbr(9, 30) /\ MjpegCbr(3, 30) <= MjpegCbr(8, 30)
    BY DEF MjpegVbr, MjpegCbr, Rate, Share, Mjpeg
<1>6. /\ SetH264CvbrBitRate(1, 30).max < SetH264CvbrBitRate(9, 30).max
      /\ SetH264CvbrBitRate(3, 30).max <= SetH264CvbrBitRate(8, 30).max
    BY DEF SetH264CvbrBitRate, Rate, ShareHalf
<1> QED
    BY <1>1, <1>2, <1>3, <1>4, <1>5, <1>6

\* Every table has a rate of its own for each size.
LEMMA TablesNat ==
    \A s \in Pictures :
       /\ H264Qvbr(s, 30) \in Nat /\ H265Qvbr(s, 30) \in Nat /\ H264Avbr(s, 30) \in Nat /\ H265Avbr(s, 30) \in Nat
       /\ H264Vbr(s, 30) \in Nat /\ H265Vbr(s, 30) \in Nat /\ H264Cbr(s, 30) \in Nat /\ H265Cbr(s, 30) \in Nat
       /\ MjpegVbr(s, 30) \in Nat /\ MjpegCbr(s, 30) \in Nat
<1> SUFFICES ASSUME NEW s \in 1..9
             PROVE  /\ H264Qvbr(s, 30) \in Nat /\ H265Qvbr(s, 30) \in Nat /\ H264Avbr(s, 30) \in Nat /\ H265Avbr(s, 30) \in Nat
                    /\ H264Vbr(s, 30) \in Nat /\ H265Vbr(s, 30) \in Nat /\ H264Cbr(s, 30) \in Nat /\ H265Cbr(s, 30) \in Nat
                    /\ MjpegVbr(s, 30) \in Nat /\ MjpegCbr(s, 30) \in Nat
    BY DEF Pictures, Known, Other, Pic360
<1>1. H264Qvbr(s, 30) \in Nat /\ H265Qvbr(s, 30) \in Nat
    BY DEF H264Qvbr, H265Qvbr, Rate, ShareHalf
<1>2. H264Avbr(s, 30) \in Nat /\ H264Vbr(s, 30) \in Nat /\ H264Cbr(s, 30) \in Nat
    BY DEF H264Avbr, H264Vbr, H264Cbr, Rate, Share, Plain
<1>3. H265Avbr(s, 30) \in Nat /\ H265Vbr(s, 30) \in Nat /\ H265Cbr(s, 30) \in Nat
    BY DEF H265Avbr, H265Vbr, H265Cbr, Rate, Share, Plain, No360, Pic360, Other
<1>4. MjpegVbr(s, 30) \in Nat /\ MjpegCbr(s, 30) \in Nat
    BY DEF MjpegVbr, MjpegCbr, Rate, Share, Mjpeg
<1> QED
    BY <1>1, <1>2, <1>3, <1>4

\* The rates of the long term lie below that of a moment, which rises.
LEMMA LongTermOrdered ==
    \A s \in Pictures :
       LET r == SetH264CvbrBitRate(s, 30)
       IN /\ r.long_min <= r.long_max /\ r.long_max <= r.max
          /\ s \in 1..6 => r.max <= SetH264CvbrBitRate(s + 1, 30).max
    BY DEF SetH264CvbrBitRate, Rate, ShareHalf, Pictures, Known, Other, Pic360

\* The attributes of a channel are those of its pictures and of its rate.
LEMMA ChannelFields ==
    ASSUME NEW p
    PROVE  /\ VencCreate(p).gop = SetGopAttr(p).gop /\ VencCreate(p).profile = SetGopAttr(p).profile
           /\ VencCreate(p).stats_time = (IF p.gop = "smart_p" THEN 3 ELSE 1)
           /\ VencCreate(p).rc = RateOf(p, 30).rc
           /\ VencCreate(p).max = RateOf(p, 30).max
           /\ VencCreate(p).long_max = RateOf(p, 30).long_max
           /\ VencCreate(p).long_min = RateOf(p, 30).long_min
    BY DEF VencCreate, ChannelParamInit, BgInterval

\* The rates of the long term lie in order, below that of a moment.
LEMMA RatesOrdered ==
    ASSUME NEW p \in VencParams
    PROVE  RateOf(p, 30).long_min <= RateOf(p, 30).long_max /\ RateOf(p, 30).long_max <= RateOf(p, 30).max
<1>1. p.size \in Pictures /\ p.type \in {"h264", "h265", "mjpeg", "jpeg"}
      /\ p.rc \in {"cbr", "vbr", "avbr", "cvbr", "qvbr", "qpmap", "fixqp"}
    BY DEF VencParams
<1> DEFINE r == SetH264CvbrBitRate(p.size, 30)
<1>2. r.long_min <= r.long_max /\ r.long_max <= r.max
    BY <1>1, LongTermOrdered
<1>3. CASE p.type = "h264"
    BY <1>1, <1>2, <1>3, TablesNat DEF RateOf, H264ParamInit, Steady, Varying, Attr
<1>4. CASE p.type = "h265"
    BY <1>1, <1>2, <1>4, TablesNat DEF RateOf, H265ParamInit, Steady, Varying, Attr, SetH265CvbrBitRate
<1>5. CASE p.type = "mjpeg"
    BY <1>1, <1>5, TablesNat DEF RateOf, MjpegParamInit, Steady, Attr, Unsupported
<1>6. CASE p.type = "jpeg"
    BY <1>1, <1>6 DEF RateOf, Steady, Attr
<1> QED
    BY <1>1, <1>3, <1>4, <1>5, <1>6

\* The next larger picture gets no lower rate.
LEMMA RatesRise ==
    ASSUME NEW p \in VencParams, p.size \in 1..6, ~(RateOf(p, 30).rc = "H264_CBR" /\ p.size = 6)
    PROVE  RateOf(p, 30).max <= RateOf([p EXCEPT !.size = @ + 1], 30).max
<1> DEFINE larger == [p EXCEPT !.size = @ + 1]
<1>1. p.type \in {"h264", "h265", "mjpeg", "jpeg"} /\ p.rc \in {"cbr", "vbr", "avbr", "cvbr", "qvbr", "qpmap", "fixqp"}
    BY DEF VencParams
<1>2. larger.type = p.type /\ larger.rc = p.rc /\ larger.size = p.size + 1
    BY DEF VencParams
<1> HIDE DEF larger
<1> DEFINE s == p.size
<1>3. s \in 1..6 /\ SetH264CvbrBitRate(s, 30).max <= SetH264CvbrBitRate(s + 1, 30).max
    BY LongTermOrdered DEF Pictures, Known
<1>4. CASE p.type = "h264"
  <2>1. p.rc = "cbr" => s \in 1..5
    BY <1>3, <1>4 DEF RateOf, H264ParamInit, Steady, Attr
  <2> QED
    BY <1>1, <1>2, <1>3, <1>4, <2>1, TablesRise DEF RateOf, H264ParamInit, Steady, Varying, Attr
<1>5. CASE p.type = "h265"
    BY <1>1, <1>2, <1>3, <1>5, TablesRise DEF RateOf, H265ParamInit, Steady, Varying, Attr, SetH265CvbrBitRate
<1>6. CASE p.type = "mjpeg"
    BY <1>1, <1>2, <1>3, <1>6, TablesRise DEF RateOf, MjpegParamInit, Steady, Attr, Unsupported
<1>7. CASE p.type = "jpeg"
    BY <1>1, <1>2, <1>7 DEF RateOf, Steady, Attr
<1> QED
    BY <1>1, <1>4, <1>5, <1>6, <1>7 DEF larger

\* The rate that steady and varying attributes have.
LEMMA RateGiven ==
    ASSUME NEW p, p.type \in {"h264", "h265", "mjpeg", "jpeg"},
           p.rc \in {"cbr", "vbr", "avbr", "cvbr", "qvbr", "qpmap", "fixqp"}
    PROVE  /\ RateOf(p, 30).max =
                CASE p.type = "h264" /\ p.rc = "cbr"  -> H264Cbr(p.size, 30)
                  [] p.type = "h264" /\ p.rc = "vbr"  -> H264Vbr(p.size, 30)
                  [] p.type = "h264" /\ p.rc = "avbr" -> H264Avbr(p.size, 30)
                  [] p.type = "h264" /\ p.rc = "qvbr" -> H264Qvbr(p.size, 30)
                  [] p.type = "h265" /\ p.rc = "cbr"  -> H265Cbr(p.size, 30)
                  [] p.type = "h265" /\ p.rc = "vbr"  -> H265Vbr(p.size, 30)
                  [] p.type = "h265" /\ p.rc = "avbr" -> H265Avbr(p.size, 30)
                  [] p.type = "h265" /\ p.rc = "qvbr" -> H265Qvbr(p.size, 30)
                  [] p.type \in {"h264", "h265"} /\ p.rc = "cvbr" -> SetH264CvbrBitRate(p.size, 30).max
                  [] p.type = "mjpeg" /\ p.rc = "cbr" -> MjpegCbr(p.size, 30)
                  [] p.type = "mjpeg" /\ p.rc \in {"vbr", "avbr"} -> MjpegVbr(p.size, 30)
                  [] OTHER -> 0
           /\ RateOf(p, 30).rc = "H264_CBR" <=> p.type = "h264" /\ p.rc = "cbr"
<1>1. CASE p.type = "h264"
    BY <1>1 DEF RateOf, H264ParamInit, Steady, Varying, Attr
<1>2. CASE p.type = "h265"
    BY <1>2 DEF RateOf, H265ParamInit, Steady, Varying, Attr, SetH265CvbrBitRate
<1>3. CASE p.type = "mjpeg"
    BY <1>3 DEF RateOf, MjpegParamInit, Steady, Attr, Unsupported
<1>4. CASE p.type = "jpeg"
    BY <1>4 DEF RateOf, Steady, Attr
<1> QED
    BY <1>1, <1>2, <1>3, <1>4

\* Where the next larger picture gets a lower rate, and what other sizes get.
LEMMA RatesFall ==
    ASSUME NEW p \in VencParams
    PROVE  /\ RateOf(p, 30).max \in Nat
           /\ RateOf(p, 30).rc = "H264_CBR" /\ p.size = 6 => RateOf([p EXCEPT !.size = 7], 30).max < RateOf(p, 30).max
           /\ p.size = 9 /\ RateOf(p, 30).max > 0 => RateOf([p EXCEPT !.size = 1], 30).max < RateOf(p, 30).max
           /\ p.size = 9 /\ RateOf(p, 30).max = 0 => RateOf([p EXCEPT !.size = 1], 30).max = 0
           /\ p.size = 8 => RateOf([p EXCEPT !.size = 3], 30).max <= RateOf(p, 30).max
<1> DEFINE q(s) == [p EXCEPT !.size = s]
<1>1. /\ p.type \in {"h264", "h265", "mjpeg", "jpeg"} /\ p.rc \in {"cbr", "vbr", "avbr", "cvbr", "qvbr", "qpmap", "fixqp"}
      /\ p.size \in Pictures
    BY DEF VencParams
<1>2. \A s \in Pictures : q(s).type = p.type /\ q(s).rc = p.rc /\ q(s).size = s
    BY DEF VencParams
<1>3. {1, 3, 7} \subseteq Pictures
    BY DEF Pictures, Known
<1> HIDE DEF q
<1>4. RateOf(p, 30).max \in Nat
  <2>1. SetH264CvbrBitRate(p.size, 30).max \in Nat
    BY <1>1 DEF SetH264CvbrBitRate, Rate, ShareHalf, Pictures, Known, Other, Pic360
  <2> QED
    BY <1>1, <2>1, TablesNat, RateGiven
<1>5. ASSUME RateOf(p, 30).rc = "H264_CBR", p.size = 6 PROVE RateOf(q(7), 30).max < RateOf(p, 30).max
    BY <1>1, <1>2, <1>3, <1>5, RateGiven, TablesFall
<1>6. ASSUME p.size = 9
      PROVE  /\ RateOf(p, 30).max > 0 => RateOf(q(1), 30).max < RateOf(p, 30).max
             /\ RateOf(p, 30).max = 0 => RateOf(q(1), 30).max = 0
  <2>1. q(1).type = p.type /\ q(1).rc = p.rc /\ q(1).size = 1
    BY <1>2, <1>3
  <2>2. \/ RateOf(q(1), 30).max < RateOf(p, 30).max
        \/ RateOf(q(1), 30).max = 0 /\ RateOf(p, 30).max = 0
    BY <1>1, <1>6, <2>1, RateGiven, TablesFall
  <2>3. RateOf(q(1), 30).max \in Nat
    <3>1. SetH264CvbrBitRate(1, 30).max \in Nat
      BY DEF SetH264CvbrBitRate, Rate, ShareHalf
    <3> QED
      BY <1>1, <1>3, <2>1, <3>1, TablesNat, RateGiven
  <2> QED
    BY <1>4, <2>2, <2>3
<1>7. ASSUME p.size = 8 PROVE RateOf(q(3), 30).max <= RateOf(p, 30).max
  <2>1. q(3).type = p.type /\ q(3).rc = p.rc /\ q(3).size = 3
    BY <1>2, <1>3
  <2> QED
    BY <1>1, <1>7, <2>1, RateGiven, TablesFall
<1> QED
    BY <1>4, <1>5, <1>6, <1>7 DEF q

\* The attributes of every channel the samples create are coherent.
THEOREM EveryChannelCoherent ==
    ASSUME NEW p \in VencParams
    PROVE  RatesCoherent(p, VencCreate(p))
<1>1. VencCreate(p).long_min <= VencCreate(p).long_max /\ VencCreate(p).long_max <= VencCreate(p).max
    BY RatesOrdered, ChannelFields
<1>2. ASSUME p.size \in (Known \ {7}) \cup {Pic360}
      PROVE  VencCreate([p EXCEPT !.size = NextSize(@)]).max < VencCreate(p).max <=> OutOfOrder(VencCreate(p), p.size)
  <2> DEFINE larger == [p EXCEPT !.size = NextSize(@)]
  <2>1. VencCreate(larger).max = RateOf(larger, 30).max /\ VencCreate(p).max = RateOf(p, 30).max
        /\ VencCreate(p).rc = RateOf(p, 30).rc
    BY ChannelFields
  <2>2. CASE p.size = 9
    <3>1. larger = [p EXCEPT !.size = 1]
      BY <2>2 DEF NextSize, Pic360
    <3>2. OutOfOrder(VencCreate(p), p.size) <=> RateOf(p, 30).max > 0
      BY <2>1, <2>2 DEF OutOfOrder, Pic360
    <3> HIDE DEF larger
    <3>3. RateOf(larger, 30).max < RateOf(p, 30).max <=> RateOf(p, 30).max > 0
      <4>1. RateOf(p, 30).max \in Nat
        BY RatesFall
      <4>2. RateOf(p, 30).max > 0 => RateOf(larger, 30).max < RateOf(p, 30).max
        BY <2>2, <3>1, RatesFall
      <4>3. RateOf(p, 30).max = 0 => RateOf(larger, 30).max = 0
        BY <2>2, <3>1, RatesFall
      <4> QED
        BY <4>1, <4>2, <4>3
    <3> QED
      BY <2>1, <3>2, <3>3 DEF larger
  <2>3. CASE p.size \in 1..6
    <3>1. larger = [p EXCEPT !.size = @ + 1] /\ (p.size = 6 => larger = [p EXCEPT !.size = 7])
      BY <2>3 DEF NextSize, Pic360
    <3>2. OutOfOrder(VencCreate(p), p.size) <=> RateOf(p, 30).rc = "H264_CBR" /\ p.size = 6
      BY <2>1, <2>3 DEF OutOfOrder, Pic360
    <3>3. larger \in VencParams
      BY <2>3 DEF VencParams, NextSize, Pictures, Known, Pic360
    <3> HIDE DEF larger
    <3>4. RateOf(p, 30).max \in Nat /\ RateOf(larger, 30).max \in Nat
      BY <3>3, RatesFall
    <3>5. RateOf(p, 30).rc = "H264_CBR" /\ p.size = 6 => RateOf(larger, 30).max < RateOf(p, 30).max
      BY <3>1, RatesFall
    <3>6. ~(RateOf(p, 30).rc = "H264_CBR" /\ p.size = 6) => RateOf(p, 30).max <= RateOf(larger, 30).max
      BY <2>3, <3>1, RatesRise
    <3> QED
      BY <2>1, <3>2, <3>4, <3>5, <3>6 DEF larger
  <2> QED
    BY <1>2, <2>2, <2>3 DEF Known, Pic360
<1>5. p.size = Other => VencCreate(p).max >= VencCreate([p EXCEPT !.size = 3]).max
  <2>1. CASE p.size = 8
    <3>1. [p EXCEPT !.size = 3] \in VencParams
      BY DEF VencParams, Pictures, Known
    <3> QED
      BY <2>1, <3>1, RatesFall, ChannelFields
  <2> QED
    BY <2>1 DEF Other
<1>3. p.type = "h264" /\ VencCreate(p).gop = "bipred_b" => VencCreate(p).profile > 0
  <2>1. p.profile \in {0, 1}
    BY DEF VencParams
  <2>2. SUFFICES ASSUME p.type = "h264", SetGopAttr(p).gop = "bipred_b" PROVE SetGopAttr(p).profile > 0
    BY ChannelFields
  <2>3. SetGopAttr(p).gop = p.gop /\ SetGopAttr(p).profile = (IF p.gop = "bipred_b" /\ p.profile = 0 THEN 1 ELSE p.profile)
    BY <2>2 DEF SetGopAttr
  <2> QED
    BY <2>1, <2>2, <2>3
<1>4. VencCreate(p).stats_time > 0
    BY ChannelFields
<1> QED
    BY <1>1, <1>2, <1>3, <1>4, <1>5 DEF RatesCoherent

-----------------------------------------------------------------------------
(* The rates of AAC.                                                       *)

AacTypes == {"aaclc", "eaac", "eaacplus", "aacld", "aaceld"}
TableOf(aac_type) ==
    CASE aac_type = "aaclc" -> GetAaclcBitrate [] aac_type = "eaac" -> GetEaacBitrate
      [] aac_type = "eaacplus" -> GetEaacplusBitrate [] aac_type = "aacld" -> GetAacldBitrate
      [] aac_type = "aaceld" -> GetAaceldBitrate

\* What is advised in a row is accepted, and two channels are advised no less
\* than one.
\* What a row advises for one channel and for two it accepts, and what it
\* accepts lies between the bounds.
RowSound(row, low, high) ==
    \A n \in 1..2 :
       /\ row.least[n] \in Nat /\ row.advice[n] \in Nat /\ row.greatest[n] \in Nat
       /\ low <= row.least[n] /\ row.least[n] <= row.advice[n]
       /\ row.advice[n] <= row.greatest[n] /\ row.greatest[n] <= high

\* The table of AAC-LC: which rates it has, each row's bounds and advice; 22050
\* Hz is the row whose advice falls.
LEMMA AaclcRows ==
    /\ DOMAIN GetAaclcBitrate = {8000, 16000, 22050, 24000, 32000, 44100, 48000}
    /\ \A rate \in DOMAIN GetAaclcBitrate : RowSound(GetAaclcBitrate[rate], 16, 320)
    /\ \A rate \in DOMAIN GetAaclcBitrate \ {22050} : GetAaclcBitrate[rate].advice[1] <= GetAaclcBitrate[rate].advice[2]
<1>1. \A rate \in DOMAIN GetAaclcBitrate : GetAaclcBitrate[rate].least[1] \in Nat
    BY DEF GetAaclcBitrate, Row, Both
<1>2. \A rate \in DOMAIN GetAaclcBitrate : GetAaclcBitrate[rate].advice[1] \in Nat
    BY DEF GetAaclcBitrate, Row, Both
<1>3. \A rate \in DOMAIN GetAaclcBitrate : GetAaclcBitrate[rate].greatest[1] \in Nat
    BY DEF GetAaclcBitrate, Row, Both
<1>4. \A rate \in DOMAIN GetAaclcBitrate : 16 <= GetAaclcBitrate[rate].least[1]
    BY DEF GetAaclcBitrate, Row, Both
<1>5. \A rate \in DOMAIN GetAaclcBitrate : GetAaclcBitrate[rate].least[1] <= GetAaclcBitrate[rate].advice[1]
    BY DEF GetAaclcBitrate, Row, Both
<1>6. \A rate \in DOMAIN GetAaclcBitrate : GetAaclcBitrate[rate].advice[1] <= GetAaclcBitrate[rate].greatest[1]
    BY DEF GetAaclcBitrate, Row, Both
<1>7. \A rate \in DOMAIN GetAaclcBitrate : GetAaclcBitrate[rate].greatest[1] <= 320
    BY DEF GetAaclcBitrate, Row, Both
<1>8. \A rate \in DOMAIN GetAaclcBitrate : GetAaclcBitrate[rate].least[2] \in Nat
    BY DEF GetAaclcBitrate, Row, Both
<1>9. \A rate \in DOMAIN GetAaclcBitrate : GetAaclcBitrate[rate].advice[2] \in Nat
    BY DEF GetAaclcBitrate, Row, Both
<1>10. \A rate \in DOMAIN GetAaclcBitrate : GetAaclcBitrate[rate].greatest[2] \in Nat
    BY DEF GetAaclcBitrate, Row, Both
<1>11. \A rate \in DOMAIN GetAaclcBitrate : 16 <= GetAaclcBitrate[rate].least[2]
    BY DEF GetAaclcBitrate, Row, Both
<1>12. \A rate \in DOMAIN GetAaclcBitrate : GetAaclcBitrate[rate].least[2] <= GetAaclcBitrate[rate].advice[2]
    BY DEF GetAaclcBitrate, Row, Both
<1>13. \A rate \in DOMAIN GetAaclcBitrate : GetAaclcBitrate[rate].advice[2] <= GetAaclcBitrate[rate].greatest[2]
    BY DEF GetAaclcBitrate, Row, Both
<1>14. \A rate \in DOMAIN GetAaclcBitrate : GetAaclcBitrate[rate].greatest[2] <= 320
    BY DEF GetAaclcBitrate, Row, Both
<1>15. \A rate \in DOMAIN GetAaclcBitrate \ {22050} : GetAaclcBitrate[rate].advice[1] <= GetAaclcBitrate[rate].advice[2]
    BY DEF GetAaclcBitrate, Row, Both
<1>16. DOMAIN GetAaclcBitrate = {8000, 16000, 22050, 24000, 32000, 44100, 48000}
    BY DEF GetAaclcBitrate
<1>17. ASSUME NEW rate \in DOMAIN GetAaclcBitrate, NEW n \in 1..2
       PROVE  /\ GetAaclcBitrate[rate].least[n] \in Nat /\ GetAaclcBitrate[rate].advice[n] \in Nat /\ GetAaclcBitrate[rate].greatest[n] \in Nat
              /\ 16 <= GetAaclcBitrate[rate].least[n] /\ GetAaclcBitrate[rate].least[n] <= GetAaclcBitrate[rate].advice[n]
              /\ GetAaclcBitrate[rate].advice[n] <= GetAaclcBitrate[rate].greatest[n] /\ GetAaclcBitrate[rate].greatest[n] <= 320
  <2>1. CASE n = 1
    BY <2>1, <1>1, <1>2, <1>3, <1>4, <1>5, <1>6, <1>7
  <2>2. CASE n = 2
    BY <2>2, <1>8, <1>9, <1>10, <1>11, <1>12, <1>13, <1>14
  <2> QED
    BY <2>1, <2>2
<1>18. \A rate \in DOMAIN GetAaclcBitrate : RowSound(GetAaclcBitrate[rate], 16, 320)
    BY <1>17 DEF RowSound
<1> QED
    BY <1>15, <1>16, <1>18

\* The table of eAAC.
LEMMA EaacRows ==
    /\ DOMAIN GetEaacBitrate = {16000, 22050, 24000, 32000, 44100, 48000}
    /\ \A rate \in DOMAIN GetEaacBitrate : RowSound(GetEaacBitrate[rate], 24, 128)
    /\ \A rate \in DOMAIN GetEaacBitrate : GetEaacBitrate[rate].advice[1] <= GetEaacBitrate[rate].advice[2]
<1>1. \A rate \in DOMAIN GetEaacBitrate : GetEaacBitrate[rate].least[1] \in Nat
    BY DEF GetEaacBitrate, Row, Both
<1>2. \A rate \in DOMAIN GetEaacBitrate : GetEaacBitrate[rate].advice[1] \in Nat
    BY DEF GetEaacBitrate, Row, Both
<1>3. \A rate \in DOMAIN GetEaacBitrate : GetEaacBitrate[rate].greatest[1] \in Nat
    BY DEF GetEaacBitrate, Row, Both
<1>4. \A rate \in DOMAIN GetEaacBitrate : 24 <= GetEaacBitrate[rate].least[1]
    BY DEF GetEaacBitrate, Row, Both
<1>5. \A rate \in DOMAIN GetEaacBitrate : GetEaacBitrate[rate].least[1] <= GetEaacBitrate[rate].advice[1]
    BY DEF GetEaacBitrate, Row, Both
<1>6. \A rate \in DOMAIN GetEaacBitrate : GetEaacBitrate[rate].advice[1] <= GetEaacBitrate[rate].greatest[1]
    BY DEF GetEaacBitrate, Row, Both
<1>7. \A rate \in DOMAIN GetEaacBitrate : GetEaacBitrate[rate].greatest[1] <= 128
    BY DEF GetEaacBitrate, Row, Both
<1>8. \A rate \in DOMAIN GetEaacBitrate : GetEaacBitrate[rate].least[2] \in Nat
    BY DEF GetEaacBitrate, Row, Both
<1>9. \A rate \in DOMAIN GetEaacBitrate : GetEaacBitrate[rate].advice[2] \in Nat
    BY DEF GetEaacBitrate, Row, Both
<1>10. \A rate \in DOMAIN GetEaacBitrate : GetEaacBitrate[rate].greatest[2] \in Nat
    BY DEF GetEaacBitrate, Row, Both
<1>11. \A rate \in DOMAIN GetEaacBitrate : 24 <= GetEaacBitrate[rate].least[2]
    BY DEF GetEaacBitrate, Row, Both
<1>12. \A rate \in DOMAIN GetEaacBitrate : GetEaacBitrate[rate].least[2] <= GetEaacBitrate[rate].advice[2]
    BY DEF GetEaacBitrate, Row, Both
<1>13. \A rate \in DOMAIN GetEaacBitrate : GetEaacBitrate[rate].advice[2] <= GetEaacBitrate[rate].greatest[2]
    BY DEF GetEaacBitrate, Row, Both
<1>14. \A rate \in DOMAIN GetEaacBitrate : GetEaacBitrate[rate].greatest[2] <= 128
    BY DEF GetEaacBitrate, Row, Both
<1>15. \A rate \in DOMAIN GetEaacBitrate : GetEaacBitrate[rate].advice[1] <= GetEaacBitrate[rate].advice[2]
    BY DEF GetEaacBitrate, Row, Both
<1>16. DOMAIN GetEaacBitrate = {16000, 22050, 24000, 32000, 44100, 48000}
    BY DEF GetEaacBitrate
<1>17. ASSUME NEW rate \in DOMAIN GetEaacBitrate, NEW n \in 1..2
       PROVE  /\ GetEaacBitrate[rate].least[n] \in Nat /\ GetEaacBitrate[rate].advice[n] \in Nat /\ GetEaacBitrate[rate].greatest[n] \in Nat
              /\ 24 <= GetEaacBitrate[rate].least[n] /\ GetEaacBitrate[rate].least[n] <= GetEaacBitrate[rate].advice[n]
              /\ GetEaacBitrate[rate].advice[n] <= GetEaacBitrate[rate].greatest[n] /\ GetEaacBitrate[rate].greatest[n] <= 128
  <2>1. CASE n = 1
    BY <2>1, <1>1, <1>2, <1>3, <1>4, <1>5, <1>6, <1>7
  <2>2. CASE n = 2
    BY <2>2, <1>8, <1>9, <1>10, <1>11, <1>12, <1>13, <1>14
  <2> QED
    BY <2>1, <2>2
<1>18. \A rate \in DOMAIN GetEaacBitrate : RowSound(GetEaacBitrate[rate], 24, 128)
    BY <1>17 DEF RowSound
<1> QED
    BY <1>15, <1>16, <1>18

\* The table of eAAC+.
LEMMA EaacplusRows ==
    /\ DOMAIN GetEaacplusBitrate = {16000, 22050, 24000, 32000, 44100, 48000}
    /\ \A rate \in DOMAIN GetEaacplusBitrate : RowSound(GetEaacplusBitrate[rate], 16, 64)
    /\ \A rate \in DOMAIN GetEaacplusBitrate : GetEaacplusBitrate[rate].advice[1] <= GetEaacplusBitrate[rate].advice[2]
<1>1. \A rate \in DOMAIN GetEaacplusBitrate : GetEaacplusBitrate[rate].least[1] \in Nat
    BY DEF GetEaacplusBitrate, Row, Both
<1>2. \A rate \in DOMAIN GetEaacplusBitrate : GetEaacplusBitrate[rate].advice[1] \in Nat
    BY DEF GetEaacplusBitrate, Row, Both
<1>3. \A rate \in DOMAIN GetEaacplusBitrate : GetEaacplusBitrate[rate].greatest[1] \in Nat
    BY DEF GetEaacplusBitrate, Row, Both
<1>4. \A rate \in DOMAIN GetEaacplusBitrate : 16 <= GetEaacplusBitrate[rate].least[1]
    BY DEF GetEaacplusBitrate, Row, Both
<1>5. \A rate \in DOMAIN GetEaacplusBitrate : GetEaacplusBitrate[rate].least[1] <= GetEaacplusBitrate[rate].advice[1]
    BY DEF GetEaacplusBitrate, Row, Both
<1>6. \A rate \in DOMAIN GetEaacplusBitrate : GetEaacplusBitrate[rate].advice[1] <= GetEaacplusBitrate[rate].greatest[1]
    BY DEF GetEaacplusBitrate, Row, Both
<1>7. \A rate \in DOMAIN GetEaacplusBitrate : GetEaacplusBitrate[rate].greatest[1] <= 64
    BY DEF GetEaacplusBitrate, Row, Both
<1>8. \A rate \in DOMAIN GetEaacplusBitrate : GetEaacplusBitrate[rate].least[2] \in Nat
    BY DEF GetEaacplusBitrate, Row, Both
<1>9. \A rate \in DOMAIN GetEaacplusBitrate : GetEaacplusBitrate[rate].advice[2] \in Nat
    BY DEF GetEaacplusBitrate, Row, Both
<1>10. \A rate \in DOMAIN GetEaacplusBitrate : GetEaacplusBitrate[rate].greatest[2] \in Nat
    BY DEF GetEaacplusBitrate, Row, Both
<1>11. \A rate \in DOMAIN GetEaacplusBitrate : 16 <= GetEaacplusBitrate[rate].least[2]
    BY DEF GetEaacplusBitrate, Row, Both
<1>12. \A rate \in DOMAIN GetEaacplusBitrate : GetEaacplusBitrate[rate].least[2] <= GetEaacplusBitrate[rate].advice[2]
    BY DEF GetEaacplusBitrate, Row, Both
<1>13. \A rate \in DOMAIN GetEaacplusBitrate : GetEaacplusBitrate[rate].advice[2] <= GetEaacplusBitrate[rate].greatest[2]
    BY DEF GetEaacplusBitrate, Row, Both
<1>14. \A rate \in DOMAIN GetEaacplusBitrate : GetEaacplusBitrate[rate].greatest[2] <= 64
    BY DEF GetEaacplusBitrate, Row, Both
<1>15. \A rate \in DOMAIN GetEaacplusBitrate : GetEaacplusBitrate[rate].advice[1] <= GetEaacplusBitrate[rate].advice[2]
    BY DEF GetEaacplusBitrate, Row, Both
<1>16. DOMAIN GetEaacplusBitrate = {16000, 22050, 24000, 32000, 44100, 48000}
    BY DEF GetEaacplusBitrate
<1>17. ASSUME NEW rate \in DOMAIN GetEaacplusBitrate, NEW n \in 1..2
       PROVE  /\ GetEaacplusBitrate[rate].least[n] \in Nat /\ GetEaacplusBitrate[rate].advice[n] \in Nat /\ GetEaacplusBitrate[rate].greatest[n] \in Nat
              /\ 16 <= GetEaacplusBitrate[rate].least[n] /\ GetEaacplusBitrate[rate].least[n] <= GetEaacplusBitrate[rate].advice[n]
              /\ GetEaacplusBitrate[rate].advice[n] <= GetEaacplusBitrate[rate].greatest[n] /\ GetEaacplusBitrate[rate].greatest[n] <= 64
  <2>1. CASE n = 1
    BY <2>1, <1>1, <1>2, <1>3, <1>4, <1>5, <1>6, <1>7
  <2>2. CASE n = 2
    BY <2>2, <1>8, <1>9, <1>10, <1>11, <1>12, <1>13, <1>14
  <2> QED
    BY <2>1, <2>2
<1>18. \A rate \in DOMAIN GetEaacplusBitrate : RowSound(GetEaacplusBitrate[rate], 16, 64)
    BY <1>17 DEF RowSound
<1> QED
    BY <1>15, <1>16, <1>18

\* The table of AAC-LD.
LEMMA AacldRows ==
    /\ DOMAIN GetAacldBitrate = {8000, 16000, 22050, 24000, 32000, 44100, 48000}
    /\ \A rate \in DOMAIN GetAacldBitrate : RowSound(GetAacldBitrate[rate], 16, 320)
    /\ \A rate \in DOMAIN GetAacldBitrate : GetAacldBitrate[rate].advice[1] <= GetAacldBitrate[rate].advice[2]
<1>1. \A rate \in DOMAIN GetAacldBitrate : GetAacldBitrate[rate].least[1] \in Nat
    BY DEF GetAacldBitrate, Row, Both
<1>2. \A rate \in DOMAIN GetAacldBitrate : GetAacldBitrate[rate].advice[1] \in Nat
    BY DEF GetAacldBitrate, Row, Both
<1>3. \A rate \in DOMAIN GetAacldBitrate : GetAacldBitrate[rate].greatest[1] \in Nat
    BY DEF GetAacldBitrate, Row, Both
<1>4. \A rate \in DOMAIN GetAacldBitrate : 16 <= GetAacldBitrate[rate].least[1]
    BY DEF GetAacldBitrate, Row, Both
<1>5. \A rate \in DOMAIN GetAacldBitrate : GetAacldBitrate[rate].least[1] <= GetAacldBitrate[rate].advice[1]
    BY DEF GetAacldBitrate, Row, Both
<1>6. \A rate \in DOMAIN GetAacldBitrate : GetAacldBitrate[rate].advice[1] <= GetAacldBitrate[rate].greatest[1]
    BY DEF GetAacldBitrate, Row, Both
<1>7. \A rate \in DOMAIN GetAacldBitrate : GetAacldBitrate[rate].greatest[1] <= 320
    BY DEF GetAacldBitrate, Row, Both
<1>8. \A rate \in DOMAIN GetAacldBitrate : GetAacldBitrate[rate].least[2] \in Nat
    BY DEF GetAacldBitrate, Row, Both
<1>9. \A rate \in DOMAIN GetAacldBitrate : GetAacldBitrate[rate].advice[2] \in Nat
    BY DEF GetAacldBitrate, Row, Both
<1>10. \A rate \in DOMAIN GetAacldBitrate : GetAacldBitrate[rate].greatest[2] \in Nat
    BY DEF GetAacldBitrate, Row, Both
<1>11. \A rate \in DOMAIN GetAacldBitrate : 16 <= GetAacldBitrate[rate].least[2]
    BY DEF GetAacldBitrate, Row, Both
<1>12. \A rate \in DOMAIN GetAacldBitrate : GetAacldBitrate[rate].least[2] <= GetAacldBitrate[rate].advice[2]
    BY DEF GetAacldBitrate, Row, Both
<1>13. \A rate \in DOMAIN GetAacldBitrate : GetAacldBitrate[rate].advice[2] <= GetAacldBitrate[rate].greatest[2]
    BY DEF GetAacldBitrate, Row, Both
<1>14. \A rate \in DOMAIN GetAacldBitrate : GetAacldBitrate[rate].greatest[2] <= 320
    BY DEF GetAacldBitrate, Row, Both
<1>15. \A rate \in DOMAIN GetAacldBitrate : GetAacldBitrate[rate].advice[1] <= GetAacldBitrate[rate].advice[2]
    BY DEF GetAacldBitrate, Row, Both
<1>16. DOMAIN GetAacldBitrate = {8000, 16000, 22050, 24000, 32000, 44100, 48000}
    BY DEF GetAacldBitrate
<1>17. ASSUME NEW rate \in DOMAIN GetAacldBitrate, NEW n \in 1..2
       PROVE  /\ GetAacldBitrate[rate].least[n] \in Nat /\ GetAacldBitrate[rate].advice[n] \in Nat /\ GetAacldBitrate[rate].greatest[n] \in Nat
              /\ 16 <= GetAacldBitrate[rate].least[n] /\ GetAacldBitrate[rate].least[n] <= GetAacldBitrate[rate].advice[n]
              /\ GetAacldBitrate[rate].advice[n] <= GetAacldBitrate[rate].greatest[n] /\ GetAacldBitrate[rate].greatest[n] <= 320
  <2>1. CASE n = 1
    BY <2>1, <1>1, <1>2, <1>3, <1>4, <1>5, <1>6, <1>7
  <2>2. CASE n = 2
    BY <2>2, <1>8, <1>9, <1>10, <1>11, <1>12, <1>13, <1>14
  <2> QED
    BY <2>1, <2>2
<1>18. \A rate \in DOMAIN GetAacldBitrate : RowSound(GetAacldBitrate[rate], 16, 320)
    BY <1>17 DEF RowSound
<1> QED
    BY <1>15, <1>16, <1>18

\* The table of AAC-ELD.
LEMMA AaceldRows ==
    /\ DOMAIN GetAaceldBitrate = {8000, 16000, 22050, 24000, 32000, 44100, 48000}
    /\ \A rate \in DOMAIN GetAaceldBitrate : RowSound(GetAaceldBitrate[rate], 16, 320)
    /\ \A rate \in DOMAIN GetAaceldBitrate : GetAaceldBitrate[rate].advice[1] <= GetAaceldBitrate[rate].advice[2]
<1>1. \A rate \in DOMAIN GetAaceldBitrate : GetAaceldBitrate[rate].least[1] \in Nat
    BY DEF GetAaceldBitrate, Row, Both
<1>2. \A rate \in DOMAIN GetAaceldBitrate : GetAaceldBitrate[rate].advice[1] \in Nat
    BY DEF GetAaceldBitrate, Row, Both
<1>3. \A rate \in DOMAIN GetAaceldBitrate : GetAaceldBitrate[rate].greatest[1] \in Nat
    BY DEF GetAaceldBitrate, Row, Both
<1>4. \A rate \in DOMAIN GetAaceldBitrate : 16 <= GetAaceldBitrate[rate].least[1]
    BY DEF GetAaceldBitrate, Row, Both
<1>5. \A rate \in DOMAIN GetAaceldBitrate : GetAaceldBitrate[rate].least[1] <= GetAaceldBitrate[rate].advice[1]
    BY DEF GetAaceldBitrate, Row, Both
<1>6. \A rate \in DOMAIN GetAaceldBitrate : GetAaceldBitrate[rate].advice[1] <= GetAaceldBitrate[rate].greatest[1]
    BY DEF GetAaceldBitrate, Row, Both
<1>7. \A rate \in DOMAIN GetAaceldBitrate : GetAaceldBitrate[rate].greatest[1] <= 320
    BY DEF GetAaceldBitrate, Row, Both
<1>8. \A rate \in DOMAIN GetAaceldBitrate : GetAaceldBitrate[rate].least[2] \in Nat
    BY DEF GetAaceldBitrate, Row, Both
<1>9. \A rate \in DOMAIN GetAaceldBitrate : GetAaceldBitrate[rate].advice[2] \in Nat
    BY DEF GetAaceldBitrate, Row, Both
<1>10. \A rate \in DOMAIN GetAaceldBitrate : GetAaceldBitrate[rate].greatest[2] \in Nat
    BY DEF GetAaceldBitrate, Row, Both
<1>11. \A rate \in DOMAIN GetAaceldBitrate : 16 <= GetAaceldBitrate[rate].least[2]
    BY DEF GetAaceldBitrate, Row, Both
<1>12. \A rate \in DOMAIN GetAaceldBitrate : GetAaceldBitrate[rate].least[2] <= GetAaceldBitrate[rate].advice[2]
    BY DEF GetAaceldBitrate, Row, Both
<1>13. \A rate \in DOMAIN GetAaceldBitrate : GetAaceldBitrate[rate].advice[2] <= GetAaceldBitrate[rate].greatest[2]
    BY DEF GetAaceldBitrate, Row, Both
<1>14. \A rate \in DOMAIN GetAaceldBitrate : GetAaceldBitrate[rate].greatest[2] <= 320
    BY DEF GetAaceldBitrate, Row, Both
<1>15. \A rate \in DOMAIN GetAaceldBitrate : GetAaceldBitrate[rate].advice[1] <= GetAaceldBitrate[rate].advice[2]
    BY DEF GetAaceldBitrate, Row, Both
<1>16. DOMAIN GetAaceldBitrate = {8000, 16000, 22050, 24000, 32000, 44100, 48000}
    BY DEF GetAaceldBitrate
<1>17. ASSUME NEW rate \in DOMAIN GetAaceldBitrate, NEW n \in 1..2
       PROVE  /\ GetAaceldBitrate[rate].least[n] \in Nat /\ GetAaceldBitrate[rate].advice[n] \in Nat /\ GetAaceldBitrate[rate].greatest[n] \in Nat
              /\ 16 <= GetAaceldBitrate[rate].least[n] /\ GetAaceldBitrate[rate].least[n] <= GetAaceldBitrate[rate].advice[n]
              /\ GetAaceldBitrate[rate].advice[n] <= GetAaceldBitrate[rate].greatest[n] /\ GetAaceldBitrate[rate].greatest[n] <= 320
  <2>1. CASE n = 1
    BY <2>1, <1>1, <1>2, <1>3, <1>4, <1>5, <1>6, <1>7
  <2>2. CASE n = 2
    BY <2>2, <1>8, <1>9, <1>10, <1>11, <1>12, <1>13, <1>14
  <2> QED
    BY <2>1, <2>2
<1>18. \A rate \in DOMAIN GetAaceldBitrate : RowSound(GetAaceldBitrate[rate], 16, 320)
    BY <1>17 DEF RowSound
<1> QED
    BY <1>15, <1>16, <1>18

\* Anything an AAC encoder may be asked: the rate is the caller's.
Adjustable ==
    [what : {"aac"}, aac_type : AacTypes, sample_rate : {8000, 12000, 16000, 22050, 24000, 32000, 44100, 48000},
     bit_rate : Nat, bit_width : {8, 16}, snd_mode : {"mono", "stereo"}, transport : {"adts", "loas"},
     band_width : {0, 500, 6000}]

Bounds(aac_type) == CASE aac_type = "eaac" -> <<24, 128>> [] aac_type = "eaacplus" -> <<16, 64>> [] OTHER -> <<16, 320>>

\* The rows of all the tables.
LEMMA RowOf ==
    ASSUME NEW aac_type \in AacTypes, NEW rate \in DOMAIN TableOf(aac_type)
    PROVE  /\ RowSound(TableOf(aac_type)[rate], Bounds(aac_type)[1], Bounds(aac_type)[2])
           /\ <<aac_type, rate>> # <<"aaclc", 22050>> =>
                 TableOf(aac_type)[rate].advice[1] <= TableOf(aac_type)[rate].advice[2]
<1>1. CASE aac_type = "aaclc"
    BY <1>1, AaclcRows DEF TableOf, Bounds
<1>2. CASE aac_type = "eaac"
    BY <1>2, EaacRows DEF TableOf, Bounds
<1>3. CASE aac_type = "eaacplus"
    BY <1>3, EaacplusRows DEF TableOf, Bounds
<1>4. CASE aac_type = "aacld"
    BY <1>4, AacldRows DEF TableOf, Bounds
<1>5. CASE aac_type = "aaceld"
    BY <1>5, AaceldRows DEF TableOf, Bounds
<1> QED
    BY <1>1, <1>2, <1>3, <1>4, <1>5 DEF AacTypes

\* Whether the attributes but the rate will do.
Suits(attr) == CheckAacAttr(attr) /\ (attr.band_width = 0 \/ attr.band_width \in 1000..(attr.sample_rate \div 2))

\* Which table an encoder is checked by.
LEMMA CheckByTable ==
    ASSUME NEW attr \in Adjustable
    PROVE  CheckAndInit(attr) = IF Suits(attr) THEN CheckRate(TableOf(attr.aac_type), attr, InitConfig(attr)) ELSE Refused
<1>1. attr.aac_type \in AacTypes
    BY DEF Adjustable
<1>2. CheckConfig(attr, InitConfig(attr)) =
         IF attr.band_width # 0 /\ attr.band_width \notin 1000..(attr.sample_rate \div 2) THEN Refused
         ELSE CheckRate(TableOf(attr.aac_type), attr, InitConfig(attr))
    BY <1>1 DEF CheckConfig, AacTypes, TableOf, CheckAaclcConfig, CheckEaacConfig, CheckEaacplusConfig,
                CheckAacldConfig, CheckAaceldConfig
<1> QED
    BY <1>2 DEF CheckAndInit, Suits

Listed(attr) == attr.sample_rate \in DOMAIN TableOf(attr.aac_type)
RowFor(attr) == TableOf(attr.aac_type)[attr.sample_rate]

\* The answer, by the row of the rate: taken between its bounds, with its
\* advice; refused where there is no row.
LEMMA AnswerFields ==
    ASSUME NEW attr \in Adjustable
    PROVE  /\ DOMAIN CheckAndInit(attr) = {"ok", "advice"}
           /\ Suits(attr) /\ Listed(attr) =>
                 /\ CheckAndInit(attr).ok <=> attr.bit_rate \in RowFor(attr).least[InitConfig(attr)]..RowFor(attr).greatest[InitConfig(attr)]
                 /\ CheckAndInit(attr).advice = RowFor(attr).advice[InitConfig(attr)]
           /\ ~(Suits(attr) /\ Listed(attr)) => ~CheckAndInit(attr).ok /\ CheckAndInit(attr).advice = 0
<1> DEFINE n == InitConfig(attr)
<1>1. CASE Suits(attr) /\ Listed(attr)
  <2>1. CheckAndInit(attr) = [ok |-> attr.bit_rate \in RowFor(attr).least[n]..RowFor(attr).greatest[n],
                              advice |-> RowFor(attr).advice[n]]
    BY <1>1, CheckByTable DEF CheckRate, Listed, RowFor
  <2> HIDE DEF n
  <2>2. /\ DOMAIN CheckAndInit(attr) = {"ok", "advice"} /\ CheckAndInit(attr).advice = RowFor(attr).advice[n]
        /\ CheckAndInit(attr).ok = (attr.bit_rate \in RowFor(attr).least[n]..RowFor(attr).greatest[n])
    BY <2>1
  <2> QED
    BY <1>1, <2>2 DEF n
<1>2. CASE ~(Suits(attr) /\ Listed(attr))
  <2>1. CheckAndInit(attr) = Refused
    BY <1>2, CheckByTable DEF CheckRate, Listed
  <2>2. DOMAIN CheckAndInit(attr) = {"ok", "advice"} /\ CheckAndInit(attr).ok = FALSE /\ CheckAndInit(attr).advice = 0
    BY <2>1 DEF Refused
  <2> QED
    BY <1>2, <2>2
<1> QED
    BY <1>1, <1>2

\* A row is read by the number of channels.
LEMMA OneOrTwo ==
    \A attr : InitConfig(attr) \in 1..2
    BY DEF InitConfig

\* The advice is taken.
LEMMA AdviceAccepted ==
    ASSUME NEW attr \in Adjustable, CheckAndInit(attr).advice > 0
    PROVE  /\ CheckAndInit(attr).advice \in Nat
           /\ [attr EXCEPT !.bit_rate = CheckAndInit(attr).advice] \in Adjustable
           /\ CheckAndInit([attr EXCEPT !.bit_rate = CheckAndInit(attr).advice]).ok
<1> DEFINE n == InitConfig(attr)
           row == RowFor(attr)
           other == [attr EXCEPT !.bit_rate = CheckAndInit(attr).advice]
<1>1. Suits(attr) /\ Listed(attr) /\ CheckAndInit(attr).advice = row.advice[n]
    BY AnswerFields
<1>2. attr.aac_type \in AacTypes /\ n \in 1..2
    BY OneOrTwo DEF Adjustable
<1>3. RowSound(row, Bounds(attr.aac_type)[1], Bounds(attr.aac_type)[2])
    BY <1>1, <1>2, RowOf DEF Listed, RowFor
<1>4. row.advice[n] \in Nat /\ row.advice[n] \in row.least[n]..row.greatest[n]
    BY <1>2, <1>3 DEF RowSound
<1>5. other \in Adjustable
    BY <1>1, <1>4 DEF Adjustable
<1>6. /\ other.aac_type = attr.aac_type /\ other.sample_rate = attr.sample_rate /\ other.snd_mode = attr.snd_mode
      /\ other.bit_width = attr.bit_width /\ other.transport = attr.transport /\ other.band_width = attr.band_width
      /\ other.bit_rate = row.advice[n]
    BY <1>1 DEF Adjustable
<1> HIDE DEF other, row
<1>7. Suits(other) /\ Listed(other) /\ RowFor(other) = row /\ InitConfig(other) = n
    BY <1>1, <1>6 DEF Suits, CheckAacAttr, Listed, RowFor, InitConfig, row
<1>8. CheckAndInit(other).ok
    BY <1>4, <1>5, <1>6, <1>7, AnswerFields
<1> QED
    BY <1>1, <1>4, <1>5, <1>8 DEF other

\* Two channels are advised no less than one.
LEMMA AdviceOrdered ==
    ASSUME NEW attr \in Adjustable, CheckAndInit(attr).advice > 0, attr.snd_mode = "mono",
           <<attr.aac_type, attr.sample_rate>> # <<"aaclc", 22050>>
    PROVE  CheckAndInit(attr).advice <= CheckAndInit([attr EXCEPT !.snd_mode = "stereo"]).advice
<1> DEFINE other == [attr EXCEPT !.snd_mode = "stereo"]
           row == RowFor(attr)
<1>1. Suits(attr) /\ Listed(attr) /\ CheckAndInit(attr).advice = row.advice[InitConfig(attr)]
    BY AnswerFields
<1>2. attr.aac_type \in AacTypes /\ attr.aac_type # "eaacplus" /\ InitConfig(attr) = 1
    BY <1>1 DEF Adjustable, Suits, CheckAacAttr, InitConfig
<1>3. row.advice[1] <= row.advice[2]
    BY <1>1, <1>2, RowOf DEF Listed, RowFor
<1>4. other \in Adjustable
    BY DEF Adjustable
<1>5. /\ other.aac_type = attr.aac_type /\ other.sample_rate = attr.sample_rate /\ other.snd_mode = "stereo"
      /\ other.bit_width = attr.bit_width /\ other.transport = attr.transport /\ other.band_width = attr.band_width
    BY DEF Adjustable
<1> HIDE DEF other, row
<1>6. Suits(other) /\ Listed(other) /\ RowFor(other) = row /\ InitConfig(other) = 2
    BY <1>1, <1>2, <1>5 DEF Suits, CheckAacAttr, Listed, RowFor, InitConfig, row
<1>7. CheckAndInit(other).advice = row.advice[2]
    BY <1>4, <1>6, AnswerFields
<1> QED
    BY <1>1, <1>2, <1>3, <1>7 DEF other

\* The rows of AAC ELD that begin below the header's range: of one channel, at
\* three rates.
LEMMA AaceldLow ==
    ASSUME NEW rate \in DOMAIN GetAaceldBitrate
    PROVE  /\ GetAaceldBitrate[rate].least[2] >= 32
           /\ rate \notin {16000, 22050, 24000} => GetAaceldBitrate[rate].least[1] >= 32
    BY DEF GetAaceldBitrate, Row, Both

\* What is accepted is in the range of the header.
LEMMA AcceptedInRange ==
    ASSUME NEW attr \in Adjustable, CheckAndInit(attr).ok
    PROVE  \/ attr.bit_rate \in HeaderRange[attr.aac_type]
           \/ /\ attr.aac_type = "aaceld" /\ attr.snd_mode = "mono" /\ attr.bit_rate \in 16..31
              /\ attr.sample_rate \in {16000, 22050, 24000}
<1> DEFINE n == InitConfig(attr)
           row == RowFor(attr)
<1>1. Suits(attr) /\ Listed(attr) /\ attr.bit_rate \in row.least[n]..row.greatest[n]
    BY AnswerFields
<1>2. attr.aac_type \in AacTypes /\ n \in 1..2 /\ attr.bit_rate \in Nat
    BY OneOrTwo DEF Adjustable
<1>3. RowSound(row, Bounds(attr.aac_type)[1], Bounds(attr.aac_type)[2])
    BY <1>1, <1>2, RowOf DEF Listed, RowFor
<1>4. attr.bit_rate >= Bounds(attr.aac_type)[1] /\ attr.bit_rate <= Bounds(attr.aac_type)[2]
  <2> HIDE DEF n, row
  <2>1. Bounds(attr.aac_type)[1] \in Nat /\ Bounds(attr.aac_type)[2] \in Nat
    BY DEF Bounds
  <2> QED
    BY <1>1, <1>2, <1>3, <2>1 DEF RowSound
<1>5. CASE attr.aac_type = "aaclc"
    BY <1>2, <1>4, <1>5 DEF Bounds, HeaderRange
<1>6. CASE attr.aac_type = "eaac"
    BY <1>2, <1>4, <1>6 DEF Bounds, HeaderRange
<1>7. CASE attr.aac_type = "eaacplus"
    BY <1>2, <1>4, <1>7 DEF Bounds, HeaderRange
<1>8. CASE attr.aac_type = "aacld"
    BY <1>2, <1>4, <1>8 DEF Bounds, HeaderRange
<1>9. CASE attr.aac_type = "aaceld"
  <2>1. attr.bit_rate \in 16..320
    BY <1>2, <1>4, <1>9 DEF Bounds
  <2>2. row = GetAaceldBitrate[attr.sample_rate] /\ attr.sample_rate \in DOMAIN GetAaceldBitrate
    BY <1>1, <1>9 DEF Listed, RowFor, TableOf
  <2>3. row.least[n] \in Nat /\ attr.bit_rate >= row.least[n]
    BY <1>1, <1>2, <1>3 DEF RowSound
  <2>4. n = IF attr.snd_mode = "mono" THEN 1 ELSE 2
    BY <1>9 DEF InitConfig
  <2> HIDE DEF n, row
  <2>5. ~(attr.snd_mode = "mono" /\ attr.sample_rate \in {16000, 22050, 24000}) => row.least[n] >= 32
    BY <2>2, <2>4, AaceldLow
  <2>6. CASE attr.bit_rate >= 32
    BY <1>9, <2>1, <2>6 DEF HeaderRange
  <2>7. CASE attr.bit_rate < 32
    BY <1>9, <2>1, <2>3, <2>5, <2>7
  <2> QED
    BY <2>1, <2>6, <2>7
<1> QED
    BY <1>2, <1>5, <1>6, <1>7, <1>8, <1>9 DEF AacTypes

\* What the header advises is accepted, for one channel and for two, but for
\* EAAC at 32000 Hz.
LEMMA HeaderAdviceAccepted ==
    ASSUME NEW attr \in Adjustable, Proper(attr),
           <<attr.aac_type, attr.sample_rate, attr.bit_rate>> \in HeaderAdvice
    PROVE  CheckAndInit(attr).ok <=> <<attr.aac_type, attr.sample_rate, attr.bit_rate>> # <<"eaac", 32000, 22>>
<1> DEFINE t == attr.aac_type
           r == attr.sample_rate
           n == InitConfig(attr)
<1>1. Suits(attr) /\ n \in 1..2 /\ (t = "eaacplus" => n = 2)
    BY OneOrTwo DEF Proper, Suits, CheckAacAttr, InitConfig
<1> HIDE DEF n
<1>2. r \in DOMAIN TableOf(t)
      /\ (attr.bit_rate \in TableOf(t)[r].least[n]..TableOf(t)[r].greatest[n] <=> <<t, r, attr.bit_rate>> # <<"eaac", 32000, 22>>)
  <2>1. CASE t = "aaclc"
    <3>1. <<r, attr.bit_rate>> \in {<<48000, 128>>, <<44100, 128>>, <<32000, 96>>, <<24000, 64>>, <<22050, 64>>, <<16000, 48>>}
      BY <2>1 DEF HeaderAdvice
    <3> QED
      BY <1>1, <2>1, <3>1 DEF TableOf, GetAaclcBitrate, Row, Both
  <2>2. CASE t = "eaac"
    <3>1. <<r, attr.bit_rate>> \in {<<48000, 48>>, <<44100, 48>>, <<32000, 22>>}
      BY <2>2 DEF HeaderAdvice
    <3> QED
      BY <1>1, <2>2, <3>1 DEF TableOf, GetEaacBitrate, Row, Both
  <2>3. CASE t = "eaacplus"
    <3>1. <<r, attr.bit_rate>> \in {<<48000, 32>>, <<48000, 24>>, <<44100, 32>>, <<44100, 24>>, <<32000, 16>>}
      BY <2>3 DEF HeaderAdvice
    <3> QED
      BY <1>1, <2>3, <3>1 DEF TableOf, GetEaacplusBitrate, Row, Both
  <2> QED
    BY <2>1, <2>2, <2>3 DEF HeaderAdvice
<1> QED
    BY <1>1, <1>2, AnswerFields DEF Listed, RowFor, n

\* For any rate that is asked the advice is one the next check accepts, for one
\* channel no higher than for two; and the answer agrees with the header but
\* where the code does not.
THEOREM EveryAdviceHolds ==
    ASSUME NEW attr \in Adjustable
    PROVE  AdviceHolds(attr, CheckAndInit(attr))
<1> DEFINE answer == CheckAndInit(attr)
<1>1. answer.advice > 0 => CheckAndInit([attr EXCEPT !.bit_rate = answer.advice]).ok
    BY AdviceAccepted
<1>2. ASSUME answer.advice > 0, attr.snd_mode = "mono", <<attr.aac_type, attr.sample_rate>> # <<"aaclc", 22050>>
      PROVE  answer.advice <= CheckAndInit([attr EXCEPT !.snd_mode = "stereo"]).advice
    BY <1>2, AdviceOrdered
<1>3. ASSUME Proper(attr), <<attr.aac_type, attr.sample_rate, attr.bit_rate>> \in HeaderAdvice
      PROVE  answer.ok <=> <<attr.aac_type, attr.sample_rate, attr.bit_rate>> # <<"eaac", 32000, 22>>
    BY <1>3, HeaderAdviceAccepted
<1>4. answer.ok => \/ attr.bit_rate \in HeaderRange[attr.aac_type]
                   \/ /\ attr.aac_type = "aaceld" /\ attr.snd_mode = "mono" /\ attr.bit_rate \in 16..31
                      /\ attr.sample_rate \in {16000, 22050, 24000}
    BY AcceptedInRange
<1> QED
    BY <1>1, <1>2, <1>3, <1>4 DEF AdviceHolds

-----------------------------------------------------------------------------

\* The lesser of two is one of them.
LEMMA LesserOf ==
    ASSUME NEW a \in Int, NEW b \in Int, NEW m, m = Min({a, b})
    PROVE  m <= a /\ m <= b /\ (m = a \/ m = b)
<1>1. CASE a >= b
    BY <1>1, GreaterOf
<1>2. CASE b >= a
    BY <1>2, GreaterOf
<1> QED
    BY <1>1, <1>2

-----------------------------------------------------------------------------
(* The map of an encoder's regions of interest.                            *)

\* A block of a row, four of which are in a byte.
Marked(base, x) == <<base + x \div OneByteBlocks, x % OneByteBlocks>>

\* The block in place k of byte b is the x-th.
Stands(base, b, k, byte, x) == base \in Int /\ b \in Nat /\ byte = base + b /\ x = 4 * b + k

\* Four blocks share a byte of the map.
LEMMA Fours ==
    ASSUME NEW b \in Nat, NEW k \in 0..3
    PROVE  (4 * b + k) \div 4 = b /\ (4 * b + k) % 4 = k
    OBVIOUS

\* Where the mark of a block is.
LEMMA MarkedAt ==
    ASSUME NEW base \in Int, NEW b \in Nat, NEW k \in 0..3, NEW x, x = 4 * b + k
    PROVE  Marked(base, x) = <<base + b, k>>
    BY Fours DEF Marked, OneByteBlocks

\* A block is in the byte of its quotient, at its rest.
LEMMA InFours ==
    ASSUME NEW x \in Nat
    PROVE  x = 4 * (x \div 4) + (x % 4) /\ x \div 4 \in Nat /\ x % 4 \in 0..3
    OBVIOUS

\* The blocks marked up to the first whole byte.
LEMMA HeadMarked ==
    ASSUME NEW base, NEW a, NEW r, NEW n, NEW byte, NEW start, Stands(base, a, r, byte, start),
           r \in Nat, n \in Nat, r + n <= 4
    PROVE  JpegRoiHead(byte, r, n) = {Marked(base, x) : x \in start..(start + n - 1)}
<1> USE DEF Stands
<1>1. ASSUME NEW k \in 0..(n - 1)
      PROVE  Marked(base, start + k) = <<byte, r + k>>
    <2>1. r + k \in 0..3 /\ base \in Int /\ a \in Nat /\ start + k = 4 * a + (r + k)
        OBVIOUS
    <2> QED
        BY <2>1, MarkedAt
<1>2. ASSUME NEW m \in JpegRoiHead(byte, r, n)
      PROVE  m \in {Marked(base, x) : x \in start..(start + n - 1)}
    <2>1. PICK k \in 0..(n - 1) : m = <<byte, r + k>>
        BY <1>2 DEF JpegRoiHead
    <2>2. start + k \in start..(start + n - 1)
        OBVIOUS
    <2> QED
        BY <1>1, <2>1, <2>2
<1>3. ASSUME NEW x \in start..(start + n - 1)
      PROVE  Marked(base, x) \in JpegRoiHead(byte, r, n)
    <2>1. x - start \in 0..(n - 1) /\ x = start + (x - start)
        OBVIOUS
    <2>2. Marked(base, x) = <<byte, r + (x - start)>>
        BY <1>1, <2>1
    <2> QED
        BY <2>1, <2>2 DEF JpegRoiHead
<1> QED
    BY <1>2, <1>3

\* The blocks marked in whole bytes.
LEMMA MiddleMarked ==
    ASSUME NEW base, NEW b, NEW n, NEW byte, NEW start, Stands(base, b, 0, byte, start), n \in Nat
    PROVE  JpegRoiMiddle(byte, n) = {Marked(base, x) : x \in start..(start + 4 * n - 1)}
<1> USE DEF Stands
<1>1. ASSUME NEW m \in JpegRoiMiddle(byte, n)
      PROVE  m \in {Marked(base, x) : x \in start..(start + 4 * n - 1)}
    <2>1. PICK q \in byte..(byte + n - 1), k \in 0..3 : m = <<q, k>>
        BY <1>1 DEF JpegRoiMiddle, OneByteBlocks
    <2> DEFINE d == q - base
    <2>2. d \in Nat /\ d >= b /\ d < b + n /\ q = base + d
        OBVIOUS
    <2> HIDE DEF d
    <2>3. Marked(base, 4 * d + k) = <<base + d, k>>
        BY <2>2, MarkedAt
    <2>4. 4 * d + k \in start..(start + 4 * n - 1)
        BY <2>2
    <2> QED
        BY <2>1, <2>2, <2>3, <2>4
<1>2. ASSUME NEW x \in start..(start + 4 * n - 1)
      PROVE  Marked(base, x) \in JpegRoiMiddle(byte, n)
    <2> DEFINE d == x \div 4
               k == x % 4
    <2>1. x \in Nat
        OBVIOUS
    <2>2. x = 4 * d + k /\ d \in Nat /\ k \in 0..3
        BY <2>1, InFours
    <2> HIDE DEF d, k
    <2>3. Marked(base, x) = <<base + d, k>>
        BY <2>2, MarkedAt
    <2>4. d >= b /\ d < b + n
        BY <2>2
    <2>5. base + d \in byte..(byte + n - 1)
        BY <2>2, <2>4
    <2> QED
        BY <2>2, <2>3, <2>5 DEF JpegRoiMiddle, OneByteBlocks
<1> QED
    BY <1>1, <1>2

\* The blocks marked behind the last whole byte.
LEMMA TailMarked ==
    ASSUME NEW base, NEW b, NEW n, NEW byte, NEW start, Stands(base, b, 0, byte, start), n \in 0..3
    PROVE  JpegRoiTail(byte, n) = {Marked(base, x) : x \in start..(start + n - 1)}
<1>1. JpegRoiTail(byte, n) = JpegRoiHead(byte, 0, n)
    BY DEF JpegRoiTail, JpegRoiHead
<1>2. 0 \in Nat /\ n \in Nat /\ 0 + n <= 4
    OBVIOUS
<1>3. JpegRoiHead(byte, 0, n) = {Marked(base, x) : x \in start..(start + n - 1)}
    BY <1>2, HeadMarked
<1> QED
    BY <1>1, <1>3

\* A row of blocks is cut into a head, whole bytes and a tail.
Cut(base, start, blocks, supple, bytes, row, next) ==
    /\ base \in Int /\ start \in Nat /\ blocks \in Nat
    /\ supple = Min({(4 - (start % 4)) % 4, blocks}) /\ bytes = (blocks - supple) \div 4
    /\ row = base + start \div 4 /\ next = row + (IF supple = 0 THEN 0 ELSE 1)

\* The head, the whole bytes and the tail are the blocks of the row.
LEMMA RowMarked ==
    ASSUME NEW base, NEW start, NEW blocks, NEW supple, NEW bytes, NEW row, NEW next,
           Cut(base, start, blocks, supple, bytes, row, next)
    PROVE  JpegRoiHead(row, start % 4, supple) \cup JpegRoiMiddle(next, bytes)
              \cup JpegRoiTail(next + bytes, (blocks - supple) % 4)
           = {Marked(base, x) : x \in start..(start + blocks - 1)}
<1>0. base \in Int /\ start \in Nat /\ blocks \in Nat
    BY DEF Cut
<1>a. /\ supple = Min({(4 - (start % 4)) % 4, blocks}) /\ bytes = (blocks - supple) \div 4
      /\ row = base + start \div 4 /\ next = row + (IF supple = 0 THEN 0 ELSE 1)
    BY DEF Cut
<1> DEFINE a == start \div 4
           r == start % 4
           head == (4 - r) % 4
           first == a + (IF supple = 0 THEN 0 ELSE 1)
           rest == blocks - supple
           fill == rest % 4
<1>1. start = 4 * a + r /\ a \in Nat /\ r \in 0..3
    BY <1>0, InFours
<1>2. head \in 0..3 /\ (r = 0 => head = 0) /\ (r # 0 => head = 4 - r)
    BY <1>1
<1>3. supple = Min({head, blocks})
    BY <1>a
<1>4. row = base + a /\ next = row + (IF supple = 0 THEN 0 ELSE 1) /\ first = a + (IF supple = 0 THEN 0 ELSE 1)
    BY <1>a
<1>5. rest = blocks - supple /\ bytes = rest \div 4 /\ fill = rest % 4
    BY <1>a
<1> HIDE DEF a, r, head, first, rest, fill
<1>6. supple \in Nat /\ supple <= blocks /\ supple <= head /\ (supple = head \/ supple = blocks)
    <2>1. head \in Int /\ head >= 0 /\ blocks \in Int
        BY <1>0, <1>2
    <2>2. supple <= head /\ supple <= blocks /\ (supple = head \/ supple = blocks)
        BY <1>3, <2>1, LesserOf
    <2> QED
        BY <1>0, <2>1, <2>2
<1>7. rest \in Nat
    BY <1>0, <1>5, <1>6
<1>8. bytes \in Nat /\ fill \in 0..3 /\ rest = 4 * bytes + fill
    BY <1>5, <1>7, InFours
<1>9. first \in Nat /\ next = base + first
    BY <1>0, <1>1, <1>4
<1>10. JpegRoiHead(row, r, supple) = {Marked(base, x) : x \in start..(start + supple - 1)}
    <2>1. r + supple <= 4
        BY <1>1, <1>2, <1>6
    <2> DEFINE from == start
               n == supple
    <2>2. Stands(base, a, r, row, from) /\ r \in Nat /\ n \in Nat /\ r + n <= 4
        BY <1>0, <1>1, <1>4, <1>6, <2>1 DEF Stands
    <2> HIDE DEF from, n
    <2>3. JpegRoiHead(row, r, n) = {Marked(base, x) : x \in from..(from + n - 1)}
        BY <2>2, HeadMarked
    <2> QED
        BY <2>3 DEF from, n
<1>11. JpegRoiMiddle(next, bytes) \cup JpegRoiTail(next + bytes, fill) = {Marked(base, x) : x \in (start + supple)..(start + blocks - 1)}
    <2>1. CASE supple = head
        <3> DEFINE from == start + supple
                   last == first + bytes
                   mid == from + 4 * bytes
                   byte == next + bytes
        <3>1. from = 4 * first /\ from \in Nat
            BY <1>0, <1>1, <1>2, <1>4, <1>6, <2>1
        <3>2. JpegRoiMiddle(next, bytes) = {Marked(base, x) : x \in from..(from + 4 * bytes - 1)}
            <4>1. Stands(base, first, 0, next, from)
                BY <1>0, <1>9, <3>1 DEF Stands
            <4> HIDE DEF from
            <4> QED
                BY <1>8, <4>1, MiddleMarked
        <3>3. last \in Nat /\ byte = base + last /\ mid = 4 * last
            BY <1>0, <1>8, <1>9, <3>1
        <3>4. JpegRoiTail(byte, fill) = {Marked(base, x) : x \in mid..(mid + fill - 1)}
            <4>1. Stands(base, last, 0, byte, mid)
                BY <1>0, <3>3 DEF Stands
            <4> HIDE DEF last, mid, byte
            <4> QED
                BY <1>8, <4>1, TailMarked
        <3>5. mid \in Nat /\ mid >= from /\ mid + fill = start + blocks
            <4>1. rest = blocks - supple /\ rest = 4 * bytes + fill
                BY <1>5, <1>8
            <4>2. mid = start + supple + 4 * bytes
                OBVIOUS
            <4> HIDE DEF mid, from
            <4>3. mid \in Nat /\ mid >= start + supple
                BY <1>0, <1>6, <1>8, <4>2
            <4>4. blocks = supple + 4 * bytes + fill /\ fill \in Nat
                BY <1>0, <1>6, <1>8, <4>1
            <4>5. mid + fill = start + blocks
                BY <1>0, <1>6, <1>8, <4>2, <4>4
            <4> QED
                BY <4>3, <4>5 DEF from
        <3>6. from..(start + blocks - 1) = (from..(from + 4 * bytes - 1)) \cup (mid..(mid + fill - 1))
            <4>1. mid = from + 4 * bytes
                OBVIOUS
            <4> HIDE DEF from, mid
            <4> QED
                BY <1>0, <1>8, <3>1, <3>5, <4>1
        <3> HIDE DEF last, mid
        <3>7. JpegRoiMiddle(next, bytes) \cup JpegRoiTail(byte, fill) = {Marked(base, x) : x \in from..(start + blocks - 1)}
            BY <3>2, <3>4, <3>6
        <3> QED
            BY <3>7
    <2>2. CASE supple # head
        <3>1. rest = 0
            BY <1>5, <1>6, <2>2
        <3>2. bytes = 0 /\ fill = 0
            BY <1>8, <3>1
        <3>3. (start + supple)..(start + blocks - 1) = {}
            BY <1>0, <1>5, <1>6, <3>1
        <3>4. JpegRoiMiddle(next, 0) = {} /\ JpegRoiTail(next + 0, 0) = {}
            BY <1>0, <1>1, <1>9 DEF JpegRoiMiddle, JpegRoiTail
        <3> QED
            BY <3>2, <3>3, <3>4
    <2> QED
        BY <2>1, <2>2
<1>12. start..(start + blocks - 1) = (start..(start + supple - 1)) \cup ((start + supple)..(start + blocks - 1))
    BY <1>0, <1>6
<1> DEFINE one == start..(start + supple - 1)
           two == (start + supple)..(start + blocks - 1)
<1>13. JpegRoiHead(row, r, supple) \cup JpegRoiMiddle(next, bytes) \cup JpegRoiTail(next + bytes, fill)
          = {Marked(base, x) : x \in start..(start + blocks - 1)}
    <2>1. {Marked(base, x) : x \in one} \cup {Marked(base, x) : x \in two} = {Marked(base, x) : x \in one \cup two}
        <3> HIDE DEF one, two
        <3> QED
            OBVIOUS
    <2> QED
        BY <1>10, <1>11, <1>12, <2>1
<1> QED
    BY <1>13 DEF r, rest, fill

-----------------------------------------------------------------------------
\* The bytes of a row of the map.
LEMMA StrideHolds ==
    ASSUME NEW w \in Nat, w <= MaxiNumLimit
    PROVE  RoimapStride("jpeg", w) = AlignUp(w, 1024) \div 64 /\ 64 * RoimapStride("jpeg", w) >= w
           /\ RoimapStride("jpeg", w) \in Nat
           /\ RoimapSize("jpeg", w, w) = RoimapStride("jpeg", w) * DivUp(w, 16)
<1>1. AlignUp(w, 1024) \in Nat /\ AlignUp(w, 1024) >= w /\ AlignUp(w, 1024) % 1024 = 0
    BY AlignedTo1024
<1>2. RoimapStride("jpeg", w) = AlignUp(w, 1024) \div 64
    BY DEF RoimapStride, MaxiNumLimit
<1>3. 64 * (AlignUp(w, 1024) \div 64) >= w /\ AlignUp(w, 1024) \div 64 \in Nat
    BY <1>1
<1>4. RoimapSize("jpeg", w, w) = RoimapStride("jpeg", w) * DivUp(w, 16)
    <2>1. ~(w > MaxiNumLimit)
        BY DEF MaxiNumLimit
    <2> QED
        BY <2>1 DEF RoimapSize, TooLarge, MaxiNumLimit
<1> QED
    BY <1>2, <1>3, <1>4

\* Rectangles that begin at a block and lie in a picture that has a map.
AskableRoi ==
    {c \in [what : {"roi"}, x : Nat, y : Nat, width : Nat, height : Nat, size : Nat \X Nat] :
        /\ c.x % BlockSize = 0 /\ c.y % BlockSize = 0
        /\ c.x + c.width <= c.size[1] /\ c.y + c.height <= c.size[2] /\ ~TooLarge(c.size[1], c.size[2])}

\* The blocks of the rectangle are marked and no others, all in the map.
THEOREM EveryRoiMarked ==
    ASSUME NEW c \in AskableRoi, NEW answer,
           answer.stride = RoimapStride("jpeg", c.size[1]),
           answer.size = RoimapSize("jpeg", c.size[1], c.size[1]),
           answer.marks = ProcessJpegRoi(c, answer.stride)
    PROVE  RoiMarked(c, answer)
<1> DEFINE w == c.size[1]
           h == c.size[2]
           stride == RoimapStride("jpeg", w)
           size == RoimapSize("jpeg", w, w)
           start == c.x \div 16
           blocks == c.width \div 16
           top == c.y \div 16
           rows == c.height \div 16
           supple == Min({(4 - (start % 4)) % 4, blocks})
           bytes == (blocks - supple) \div 4
           row(i) == (top + i) * stride + start \div 4
           next(i) == row(i) + (IF supple = 0 THEN 0 ELSE 1)
           marked(i) == JpegRoiHead(row(i), start % 4, supple) \cup JpegRoiMiddle(next(i), bytes)
                           \cup JpegRoiTail(next(i) + bytes, (blocks - supple) % 4)
           xs == start..(start + blocks - 1)
           ys == top..(top + rows - 1)
<1>1. /\ c.x \in Nat /\ c.y \in Nat /\ c.width \in Nat /\ c.height \in Nat /\ w \in Nat /\ h \in Nat
      /\ c.x % 16 = 0 /\ c.y % 16 = 0 /\ c.x + c.width <= w /\ c.y + c.height <= h /\ w <= MaxiNumLimit
    BY DEF AskableRoi, BlockSize, TooLarge, MaxiNumLimit
<1>2. stride \in Nat /\ 64 * stride >= w /\ size = stride * DivUp(w, 16)
    BY <1>1, StrideHolds
<1>3. /\ start \in Nat /\ blocks \in Nat /\ top \in Nat /\ rows \in Nat
      /\ (c.x + c.width) \div 16 = start + blocks /\ (c.y + c.height) \div 16 = top + rows
      /\ 16 * (start + blocks) <= w /\ 16 * (top + rows) <= h
    BY <1>1
<1>4. ProcessJpegRoi(c, stride) = UNION {marked(i) : i \in 0..(rows - 1)}
    BY DEF ProcessJpegRoi, BlockSize, OneByteBlocks
<1>5. ASSUME NEW i \in 0..(rows - 1)
      PROVE  marked(i) = {Marked((top + i) * stride, x) : x \in xs}
    <2> DEFINE base == (top + i) * stride
    <2>1. base \in Int
        BY <1>2, <1>3
    <2>2. Cut(base, start, blocks, supple, bytes, row(i), next(i))
        BY <1>3, <2>1 DEF Cut
    <2> HIDE DEF base, row, next, start, blocks, supple, bytes
    <2>3. JpegRoiHead(row(i), start % 4, supple) \cup JpegRoiMiddle(next(i), bytes)
              \cup JpegRoiTail(next(i) + bytes, (blocks - supple) % 4)
           = {Marked(base, x) : x \in start..(start + blocks - 1)}
        BY <2>2, RowMarked
    <2> QED
        BY <2>3 DEF base
<1>6. c.x \div BlockSize = start /\ (c.x + c.width) \div BlockSize = start + blocks
      /\ c.y \div BlockSize = top /\ (c.y + c.height) \div BlockSize = top + rows
    BY <1>3 DEF BlockSize
<1> DEFINE wanted == {<<y * stride + (x \div OneByteBlocks), x % OneByteBlocks>> : x \in xs, y \in ys}
<1>7. ProcessJpegRoi(c, stride) = wanted
    <2>1. \A x, y : Marked(y * stride, x) = <<y * stride + (x \div OneByteBlocks), x % OneByteBlocks>>
        BY DEF Marked
    <2> HIDE DEF marked
    <2>2. ASSUME NEW m \in UNION {marked(i) : i \in 0..(rows - 1)}
          PROVE  m \in wanted
        <3>1. PICK i \in 0..(rows - 1) : m \in marked(i)
            OBVIOUS
        <3>2. PICK x \in xs : m = Marked((top + i) * stride, x)
            BY <1>5, <3>1
        <3>3. top + i \in ys
            BY <1>3
        <3> QED
            BY <2>1, <3>2, <3>3
    <2>3. ASSUME NEW x \in xs, NEW y \in ys
          PROVE  Marked(y * stride, x) \in UNION {marked(i) : i \in 0..(rows - 1)}
        <3>1. y - top \in 0..(rows - 1) /\ y = top + (y - top)
            BY <1>3
        <3>2. Marked(y * stride, x) \in marked(y - top)
            BY <1>5, <3>1
        <3> QED
            BY <3>1, <3>2
    <2>4. \A m \in wanted : m \in UNION {marked(i) : i \in 0..(rows - 1)}
        BY <2>1, <2>3
    <2> QED
        BY <1>4, <2>2, <2>4
<1>8. ASSUME w >= h, NEW x \in xs, NEW y \in ys
      PROVE  y * stride + (x \div 4) < size
    <2>1. y \in Nat /\ x \in Nat /\ 16 * (y + 1) <= w /\ 16 * (x + 1) <= w
        BY <1>1, <1>3, <1>8
    <2>2. x \div 4 < stride /\ x \div 4 \in Nat
        BY <1>1, <1>2, <2>1
    <2>3. DivUp(w, 16) \in Nat /\ DivUp(w, 16) >= y + 1
        BY <1>1, <2>1 DEF DivUp
    <2>4. stride * (y + 1) <= stride * DivUp(w, 16) /\ stride * (y + 1) = y * stride + stride
        BY <1>2, <2>1, <2>3, ProdMono
    <2>5. y * stride \in Nat /\ size \in Nat
        BY <1>2, <2>1, <2>3
    <2> QED
        BY <1>2, <2>2, <2>4, <2>5
<1>9. c.size[1] >= c.size[2] => \A m \in wanted : m[1] < size
    <2> HIDE DEF stride, size, xs, ys
    <2>1. \A x \in xs, y \in ys : OneByteBlocks = 4
        BY DEF OneByteBlocks
    <2> QED
        BY <1>8 DEF OneByteBlocks
<1>10. xs = (c.x \div BlockSize)..((c.x + c.width) \div BlockSize - 1)
       /\ ys = (c.y \div BlockSize)..((c.y + c.height) \div BlockSize - 1)
    <2> DEFINE x1 == c.x \div BlockSize
               x2 == (c.x + c.width) \div BlockSize
               y1 == c.y \div BlockSize
               y2 == (c.y + c.height) \div BlockSize
    <2>1. x1 = start /\ x2 = start + blocks /\ y1 = top /\ y2 = top + rows
        BY <1>6
    <2> HIDE DEF start, blocks, top, rows, x1, x2, y1, y2
    <2>2. xs = x1..(x2 - 1) /\ ys = y1..(y2 - 1)
        BY <1>3, <2>1
    <2> QED
        BY <2>2 DEF x1, x2, y1, y2
<1> HIDE DEF xs, ys, stride, size
<1>11. answer.stride = stride /\ answer.size = size /\ answer.marks = ProcessJpegRoi(c, stride)
    BY DEF stride, size
<1>12. answer.marks = {<<y * answer.stride + (x \div OneByteBlocks), x % OneByteBlocks>> : x \in xs, y \in ys}
    BY <1>7, <1>11
<1>13. c.size[1] >= c.size[2] => \A m \in answer.marks : m[1] < answer.size
    BY <1>7, <1>9, <1>11
<1> QED
    BY <1>10, <1>12, <1>13 DEF RoiMarked

-----------------------------------------------------------------------------
(* The label of an object.                                                 *)

\* A label that is not wider than the picture lies in it.
THEOREM EveryLabelFits ==
    ASSUME NEW c, c.x \in Nat, c.y \in Nat, c.width \in Nat, c.height \in Nat, c.cols \in Nat
    PROVE  LabelFits(c, DrawObjects(c))
<1> DEFINE at == DrawObjects(c)
<1>1. at.x = (IF c.x + c.width > c.cols THEN c.cols - c.width ELSE c.x) /\ at.y = Max({0, c.y - c.height})
    BY DEF DrawObjects
<1> HIDE DEF at
<1>2. at.y >= 0 /\ (c.y >= c.height => at.y = c.y - c.height)
    <2>1. CASE c.y - c.height >= 0
        BY <1>1, <2>1, GreaterOf
    <2>2. CASE 0 >= c.y - c.height
        BY <1>1, <2>2, GreaterOf
    <2> QED
        BY <2>1, <2>2
<1>3. LabelFits(c, at)
    BY <1>1, <1>2 DEF LabelFits
<1> QED
    BY <1>3 DEF at

-----------------------------------------------------------------------------
(* Regions.                                                                *)

Kinds == {"overlay", "overlayex", "cover", "coverex", "line", "mosaic", "mosaicex", "corner_rectex"}

\* Every kind of region has handles.
LEMMA KindsNamed ==
    DOMAIN MinHandle = Kinds
    BY DEF MinHandle, Kinds

\* Kinds are twenty handles apart.
LEMMA HandlesApart ==
    ASSUME NEW kind \in Kinds, NEW other \in Kinds, kind # other, NEW n \in 1..MaxHandleNum
    PROVE  Handles(kind, n) \cap Handles(other, MaxHandleNum) = {}
<1>1. MinHandle[kind] \in Nat /\ MinHandle[other] \in Nat
    BY DEF MinHandle, Kinds
<1>2. MinHandle[kind] + 20 <= MinHandle[other] \/ MinHandle[other] + 20 <= MinHandle[kind]
    BY DEF MinHandle, Kinds
<1> QED
    BY <1>1, <1>2 DEF Handles, MaxHandleNum

\* Overlays are made in the formats their bitmaps are in.
LEMMA OverlaysFormatted ==
    ASSUME NEW n \in 1..MaxHandleNum
    PROVE  \A i \in DOMAIN CreateOverlays(n) : CreateOverlays(n)[i] = BitMapFormat(MinHandle.overlay + i)
<1>1. \A i \in 0..7 : <<"clut2", "clut4", "1555", "4444">>[i \div 2 + 1] = BitMapFormat(i)
    BY DEF BitMapFormat
<1>2. DOMAIN CreateOverlays(n) \subseteq 0..7
    BY DEF CreateOverlays
<1>3. \A i \in DOMAIN CreateOverlays(n) : CreateOverlays(n)[i] = <<"clut2", "clut4", "1555", "4444">>[i \div 2 + 1]
    BY DEF CreateOverlays
<1>4. \A i \in 0..7 : MinHandle.overlay + i = i
    BY DEF MinHandle
<1> QED
    BY <1>1, <1>2, <1>3, <1>4

\* A quadrangle, or a square in its place.
IsQuad(kind, i) == kind \in {"cover", "coverex"} /\ i < 4
Place(kind, i) ==
    CASE kind \in {"overlay", "overlayex"} -> Rect(200 * i + 200, 100 * i, 160)
      [] kind \in {"cover", "coverex"} -> Rect(200 * i + 200, 200, 160)
      [] kind \in {"mosaic", "mosaicex"} -> Rect(200 * i, 200 * i, 200)
      [] OTHER -> Rect(200 * i + 50, 100 * i + 50, 160)

\* Where a region is placed, in which layer, and what it is: a rectangle or a
\* frame of four sides.
LEMMA RegionPlaced ==
    ASSUME NEW kind \in Kinds \ {"line"}, NEW n \in 1..MaxHandleNum, NEW i \in 0..(n - 1)
    PROVE  /\ SetChnAttr(kind, n)[i].layer = i
           /\ ~IsQuad(kind, i) => /\ "solid" \notin DOMAIN SetChnAttr(kind, n)[i]
                                  /\ SetChnAttr(kind, n)[i].rect = Place(kind, i)
           /\ IsQuad(kind, i) => /\ "rect" \notin DOMAIN SetChnAttr(kind, n)[i]
                                 /\ SetChnAttr(kind, n)[i].solid = (i % 2 = 1)
                                 /\ SetChnAttr(kind, n)[i].thick = 2 + (i % 15)
<1>1. CASE kind = "overlay"
    BY <1>1 DEF SetChnAttr, OverlayChnAttr, IsQuad, Place
<1>2. CASE kind = "overlayex"
    BY <1>2 DEF SetChnAttr, OverlayexChnAttr, IsQuad, Place
<1>3. CASE kind = "cover"
    BY <1>3 DEF SetChnAttr, CoverChnAttr, Quad, IsQuad, Place
<1>4. CASE kind = "coverex"
    BY <1>4 DEF SetChnAttr, CoverexChnAttr, Quad, IsQuad, Place
<1>5. CASE kind = "mosaic"
    BY <1>5 DEF SetChnAttr, MosaicChnAttr, IsQuad, Place
<1>6. CASE kind = "mosaicex"
    BY <1>6 DEF SetChnAttr, MosaicexChnAttr, IsQuad, Place
<1>7. CASE kind = "corner_rectex"
    BY <1>7 DEF SetChnAttr, CornerRectexChnAttr, IsQuad, Place
<1> QED
    BY <1>1, <1>2, <1>3, <1>4, <1>5, <1>6, <1>7 DEF Kinds

\* Squares lie on even places of the picture, each beside the one before.
LEMMA SquaresBeside ==
    ASSUME NEW kind \in Kinds \ {"line"}, NEW i \in 0..15, NEW j \in 0..15
    PROVE  /\ Place(kind, i).x + Place(kind, i).width <= 8190 /\ Place(kind, i).y + Place(kind, i).height <= 8190
           /\ Place(kind, i).x % 2 = 0 /\ Place(kind, i).y % 2 = 0
           /\ i # j => ~Overlap(Place(kind, i), Place(kind, j))
<1>1. ASSUME NEW off \in {0, 50, 200}, NEW x \in 0..15
      PROVE  (200 * x + off) % 2 = 0 /\ (100 * x + off) % 2 = 0
    OBVIOUS
<1>2. CASE kind \in {"overlay", "overlayex"}
    BY <1>2 DEF Place, Rect, Overlap
<1>3. CASE kind \in {"cover", "coverex"}
    BY <1>3 DEF Place, Rect, Overlap
<1>4. CASE kind \in {"mosaic", "mosaicex"}
    BY <1>4 DEF Place, Rect, Overlap
<1>5. CASE kind = "corner_rectex"
    BY <1>5 DEF Place, Rect, Overlap
<1> QED
    BY <1>2, <1>3, <1>4, <1>5 DEF Kinds

\* Lines that can be drawn.
LEMMA LineThick ==
    ASSUME NEW n \in 1..MaxHandleNum, NEW i \in 0..(n - 1)
    PROVE  /\ "rect" \notin DOMAIN SetChnAttr("line", n)[i] /\ "solid" \notin DOMAIN SetChnAttr("line", n)[i]
           /\ i % 8 # 7 => SetChnAttr("line", n)[i].thick \in 1..8
    BY DEF SetChnAttr, LineChnAttr, MaxHandleNum

\* What AttachRegions answers.
Attached(c) ==
    IF Legal(c.handle_num)
    THEN [attr |-> SetChnAttr(c.kind, c.handle_num), handles |-> Handles(c.kind, c.handle_num),
          created |-> CreateRegions(c.kind, c.handle_num)]
    ELSE [attr |-> <<>>]

\* However many regions of a kind are attached, they fit.
THEOREM EveryRegionFits ==
    ASSUME NEW c \in RegionCalls
    PROVE  RegionsFit(c, Attached(c))
<1>1. CASE ~Legal(c.handle_num)
    BY <1>1 DEF RegionsFit, Attached
<1>2. CASE Legal(c.handle_num)
  <2> DEFINE n == c.handle_num
             kind == c.kind
             attr == SetChnAttr(kind, n)
             created == CreateRegions(kind, n)
  <2>1. kind \in Kinds /\ n \in 1..MaxHandleNum /\ \A i \in 0..(n - 1) : i \in 0..15
    BY <1>2, KindsNamed DEF RegionCalls, Legal, MaxHandleNum
  <2>2. DOMAIN attr = 0..(n - 1)
    BY DEF SetChnAttr
  <2>3. /\ Attached(c).attr = attr /\ Attached(c).handles = Handles(kind, n) /\ Attached(c).created = created
    BY <1>2 DEF Attached
  <2>4. \A other \in DOMAIN MinHandle \ {kind} : Handles(kind, n) \cap Handles(other, MaxHandleNum) = {}
    BY <2>1, KindsNamed, HandlesApart
  <2>5. DOMAIN created = DOMAIN attr \/ (kind = "overlay" /\ n \notin {2, 8})
    BY <2>2 DEF CreateRegions, CreateOverlays
  <2>6. kind = "overlay" => \A i \in DOMAIN created : created[i] = BitMapFormat(MinHandle.overlay + i)
    BY <2>1, OverlaysFormatted DEF CreateRegions
  <2> HIDE DEF attr, created, n, kind
  <2>7. ASSUME NEW i \in DOMAIN attr
        PROVE  /\ "rect" \in DOMAIN attr[i] => /\ attr[i].rect.x + attr[i].rect.width <= 8190
                                               /\ attr[i].rect.y + attr[i].rect.height <= 8190
                                               /\ attr[i].rect.x % 2 = 0 /\ attr[i].rect.y % 2 = 0
               /\ kind = "line" /\ i % 8 # 7 => attr[i].thick \in 1..8
               /\ "solid" \in DOMAIN attr[i] =>
                     attr[i].solid \/ (attr[i].thick \in 2..16 /\ attr[i].thick % 2 = 0)
    <3>1. CASE kind = "line"
        BY <2>1, <2>2, <2>7, <3>1, LineThick DEF attr
    <3>2. CASE kind # "line" /\ ~IsQuad(kind, i)
      <4>1. "solid" \notin DOMAIN attr[i] /\ attr[i].rect = Place(kind, i)
        BY <2>1, <2>2, <2>7, <3>2, RegionPlaced DEF attr
      <4>2. i \in 0..15 /\ kind \in Kinds \ {"line"}
        BY <2>1, <2>2, <2>7, <3>2
      <4>3. /\ attr[i].rect.x + attr[i].rect.width <= 8190 /\ attr[i].rect.y + attr[i].rect.height <= 8190
            /\ attr[i].rect.x % 2 = 0 /\ attr[i].rect.y % 2 = 0
        BY <4>1, <4>2, SquaresBeside
      <4> QED
        BY <3>2, <4>1, <4>3
    <3>3. CASE kind # "line" /\ IsQuad(kind, i)
      <4>1. "rect" \notin DOMAIN attr[i] /\ attr[i].solid = (i % 2 = 1) /\ attr[i].thick = 2 + (i % 15)
        BY <2>1, <2>2, <2>7, <3>3, RegionPlaced DEF attr
      <4>2. i \in 0..3
        BY <2>1, <2>2, <2>7, <3>3 DEF IsQuad
      <4>3. i % 2 = 1 \/ (2 + (i % 15) \in 2..16 /\ (2 + (i % 15)) % 2 = 0)
        BY <4>2
      <4> QED
        BY <3>3, <4>1, <4>3, ZenonT(40)
    <3> QED
        BY <3>1, <3>2, <3>3
  <2>8. ASSUME NEW i \in DOMAIN attr, NEW j \in DOMAIN attr, i # j, kind # "line"
        PROVE  /\ attr[i].layer # attr[j].layer
               /\ "rect" \in DOMAIN attr[i] /\ "rect" \in DOMAIN attr[j] => ~Overlap(attr[i].rect, attr[j].rect)
    <3>1. kind \in Kinds \ {"line"} /\ i \in 0..(n - 1) /\ j \in 0..(n - 1) /\ i \in 0..15 /\ j \in 0..15
        BY <2>1, <2>2, <2>8
    <3>2. attr[i].layer = i /\ attr[j].layer = j
        BY <2>1, <3>1, RegionPlaced DEF attr
    <3>3. ASSUME "rect" \in DOMAIN attr[i], "rect" \in DOMAIN attr[j]
          PROVE  ~Overlap(attr[i].rect, attr[j].rect)
      <4>1. ~IsQuad(kind, i) /\ ~IsQuad(kind, j)
        BY <2>1, <3>1, <3>3, RegionPlaced DEF attr
      <4>2. attr[i].rect = Place(kind, i) /\ attr[j].rect = Place(kind, j)
        BY <2>1, <3>1, <4>1, RegionPlaced DEF attr
      <4>3. ~Overlap(Place(kind, i), Place(kind, j))
        BY <2>8, <3>1, SquaresBeside
      <4> QED
        BY <4>2, <4>3
    <3> QED
        BY <2>8, <3>2, <3>3
  <2> QED
    BY <1>2, <2>3, <2>4, <2>5, <2>6, <2>7, <2>8 DEF RegionsFit, n, kind
<1> QED
    BY <1>1, <1>2

-----------------------------------------------------------------------------
(* Cluts.                                                                  *)

\* The grey of a colour has two bits, or four.
LEMMA GreyInRange ==
    \A r, g, b \in {0, 15, 31} : Grey(r, g, b, 4) \in 0..3 /\ Grey(r, g, b, 16) \in 0..15
    BY DEF Grey

\* A bitmap of any size has the colours of its table.
THEOREM EveryClutKept ==
    ASSUME NEW c, c.width \in Nat, c.height \in Nat, NEW o, o.clut = ClutData(c)
    PROVE  ClutKept(c, o)
<1>1. ASSUME c.fmt = "clut2", NEW n \in DOMAIN o.clut, NEW k \in 0..3
      PROVE  o.clut[n][k] = 4 * n + k
    BY <1>1 DEF ClutData, Clut2Data
<1>2. ASSUME c.fmt = "clut4", NEW n \in DOMAIN o.clut, NEW k \in 0..1
      PROVE  o.clut[n][k] - (2 * n + k) \in {0, 1}
  <2>1. n \in Int /\ o.clut[n][k] = 2 * n + 1
    BY <1>2 DEF ClutData, Clut4Data
  <2> QED
    BY <2>1
<1> QED
    BY <1>1, <1>2, GreyInRange DEF ClutKept

-----------------------------------------------------------------------------
MatOf == [Names -> MatHandles]

-----------------------------------------------------------------------------
(* Mats that share their memory.                                           *)

\* A Mat's memory and its count, if it has any.
LEMMA HandleFields ==
    ASSUME NEW m \in MatHandles
    PROVE  m.refcount \in {Nowhere} \cup Memory /\ m.data \in {Nowhere} \cup Memory
    BY DEF MatHandles, NoMat

\* There are finitely many names.
LEMMA NamesFinite == IsFiniteSet(Names)
<1>1. 1 \in Int /\ 3 \in Int
    OBVIOUS
<1>2. IsFiniteSet(1..3)
    BY <1>1, FS_Interval
<1> QED
    BY <1>2 DEF Names

Named(mat) == DOMAIN mat = Names

\* The users of a memory are few and counted.
LEMMA UsersCounted ==
    ASSUME NEW mat, Named(mat), NEW b
    PROVE  /\ IsFiniteSet({n \in DOMAIN mat : mat[n].refcount = b}) /\ Users(mat, b) \in Nat
           /\ Users(mat, b) > 0 <=> \E n \in Names : mat[n].refcount = b
<1> DEFINE users == {n \in DOMAIN mat : mat[n].refcount = b}
<1>1. IsFiniteSet(Names)
    BY NamesFinite
<1>2. IsFiniteSet(users)
    BY <1>1, FS_Subset DEF Named
<1>3. Cardinality(users) \in Nat /\ (Cardinality(users) = 0 <=> users = {})
    BY <1>2, FS_CardinalityType, FS_EmptySet
<1>4. users = {} <=> ~\E n \in Names : mat[n].refcount = b
    BY DEF Named
<1>5. Users(mat, b) = Cardinality(users)
    BY DEF Users
<1> HIDE DEF users
<1>6. Users(mat, b) \in Nat /\ (Users(mat, b) > 0 <=> \E n \in Names : mat[n].refcount = b)
    BY <1>3, <1>4, <1>5
<1> QED
    BY <1>2, <1>6 DEF users

\* A Mat that takes the place of another is counted instead of it.
LEMMA UsersChange ==
    ASSUME NEW mat, Named(mat), NEW n \in Names, NEW m, NEW b
    PROVE  Users([mat EXCEPT ![n] = m], b)
              = Users(mat, b) - (IF mat[n].refcount = b THEN 1 ELSE 0) + (IF m.refcount = b THEN 1 ELSE 0)
<1> DEFINE new    == [mat EXCEPT ![n] = m]
           before == {i \in DOMAIN mat : mat[i].refcount = b}
           after  == {i \in DOMAIN new : new[i].refcount = b}
           others == {i \in Names : i # n /\ mat[i].refcount = b}
<1>1. before = (IF mat[n].refcount = b THEN others \cup {n} ELSE others)
    BY DEF Named
<1>2. after = (IF m.refcount = b THEN others \cup {n} ELSE others)
    BY DEF Named
<1>3. IsFiniteSet(others) /\ n \notin others
    <2>1. IsFiniteSet(Names)
        BY NamesFinite
    <2> QED
        BY <2>1, FS_Subset
<1>4. Users(mat, b) = Cardinality(before) /\ Users(new, b) = Cardinality(after)
    BY DEF Users
<1> HIDE DEF before, after, others, new
<1>5. Cardinality(others \cup {n}) = Cardinality(others) + 1 /\ Cardinality(others) \in Nat
    BY <1>3, FS_AddElement, FS_CardinalityType
<1>6. Users(mat, b) = Cardinality(others) + (IF mat[n].refcount = b THEN 1 ELSE 0)
    BY <1>1, <1>4, <1>5
<1>7. Users(new, b) = Cardinality(others) + (IF m.refcount = b THEN 1 ELSE 0)
    BY <1>2, <1>4, <1>5
<1> QED
    BY <1>5, <1>6, <1>7 DEF new

\* What is known of the memory: the Mats, what is alive, what was freed, and
\* how often each is counted.
Standing(mat, live, freed, count) == [mat |-> mat, live |-> live, freed |-> freed, count |-> count]

\* The count of a memory when it has one user more, and one fewer; it is left
\* by its last user.
More(count, a)  == IF a = Nowhere THEN count ELSE [count EXCEPT ![a] = @ + 1]
Fewer(count, b) == IF b = Nowhere THEN count ELSE [count EXCEPT ![b] = @ + (-1)]
LastUser(b, count)  == b # Nowhere /\ count[b] = 1
Lives(live, b, count)  == IF LastUser(b, count) THEN live \ {b} ELSE live
Frees(freed, b, count) == IF LastUser(b, count) THEN Append(freed, b) ELSE freed
Put(mat, n, m)  == [mat EXCEPT ![n] = m]

\* What addref does to the store.
LEMMA AddRefDone ==
    ASSUME NEW mat, NEW live, NEW freed, NEW count, NEW m
    PROVE  AddRef(Standing(mat, live, freed, count), m)
              = Standing(mat, live, freed, More(count, m.refcount))
    BY DEF AddRef, Xadd, Standing, More

\* What release does to the store.
LEMMA ReleaseDone ==
    ASSUME NEW mat, NEW live, NEW freed, NEW count, NEW n, NEW b, b = mat[n].refcount
    PROVE  Release(Standing(mat, live, freed, count), n)
              = Standing(Put(mat, n, NoMat), Lives(live, b, count), Frees(freed, b, count), Fewer(count, b))
<1> DEFINE s == Standing(mat, live, freed, count)
<1>1. s.mat = mat /\ s.live = live /\ s.freed = freed /\ s.count = count
    BY DEF Standing
<1> DEFINE less == IF b = Nowhere THEN s ELSE Xadd(s, b, -1)
           freeing == b # Nowhere /\ count[b] = 1
           r == Release(s, n)
<1>2. less = Standing(mat, live, freed, IF b = Nowhere THEN count ELSE [count EXCEPT ![b] = @ + (-1)])
    BY DEF Xadd, Standing
<1>3. r = [less EXCEPT !.mat[n] = NoMat, !.live = IF freeing THEN @ \ {b} ELSE @,
                       !.freed = IF freeing THEN Append(@, b) ELSE @]
    <2> HIDE DEF s
    <2> QED
        BY <1>1 DEF Release, FastFree
<1> DEFINE left == IF b = Nowhere THEN count ELSE [count EXCEPT ![b] = @ + (-1)]
<1> HIDE DEF r, s, freeing, less, left
<1>4. less = Standing(mat, live, freed, left)
    BY <1>2 DEF left
<1>5. r = Standing([mat EXCEPT ![n] = NoMat], IF freeing THEN live \ {b} ELSE live, IF freeing THEN Append(freed, b) ELSE freed, left)
    BY <1>3, <1>4 DEF Standing
<1> QED
    BY <1>5 DEF r, s, freeing, left, Put, LastUser, Fewer, Lives, Frees

\* The memory that is alive is that which has users, and each is counted.
Fair(mat, live, count) == live = {x \in Memory : Users(mat, x) > 0} /\ \A x \in Memory : count[x] = Users(mat, x)
Gone(freed, before, after) ==
    Len(freed) = Cardinality(before \ after) /\ {freed[i] : i \in DOMAIN freed} = before \ after

\* What is freed is what has gone: nothing.
LEMMA NothingGone ==
    ASSUME NEW live PROVE Gone(<<>>, live, live)
<1>1. live \ live = {} /\ Len(<<>>) = 0 /\ DOMAIN <<>> = {}
    OBVIOUS
<1>2. Cardinality({}) = 0
    BY FS_EmptySet
<1>3. {<<>>[i] : i \in {}} = {}
    OBVIOUS
<1> QED
    BY <1>1, <1>2, <1>3 DEF Gone

\* What is freed is what has gone: one block.
LEMMA OneGone ==
    ASSUME NEW live, NEW b \in live PROVE Gone(Append(<<>>, b), live, live \ {b})
<1>1. live \ (live \ {b}) = {b}
    OBVIOUS
<1>2. Append(<<>>, b) = <<b>> /\ Len(<<b>>) = 1 /\ DOMAIN <<b>> = {1} /\ <<b>>[1] = b
    OBVIOUS
<1>3. Cardinality({b}) = 1
    BY FS_Singleton
<1>4. {<<b>>[i] : i \in DOMAIN <<b>>} = {b}
    BY <1>2
<1> QED
    BY <1>1, <1>2, <1>3, <1>4 DEF Gone

\* A Mat takes the place of another.  It is either of no memory or of one
\* somebody else uses.
Counts(mat)             == [x \in Memory |-> Users(mat, x)]
Alive(mat)              == {x \in Memory : Users(mat, x) > 0}

\* When one name is given another Mat, the count of the new memory goes up
\* before that of the old goes down, and the old is freed with its last user.
LEMMA ReplacedFairly ==
    ASSUME NEW mat \in MatOf, NEW n \in Names, NEW m \in MatHandles, NEW a, a = m.refcount, NEW b, b = mat[n].refcount,
           a # Nowhere => \E k \in Names \ {n} : mat[k].refcount = a,
           NEW count, count = More(Counts(mat), a),
           NEW live, live = (IF LastUser(b, count) THEN Alive(mat) \ {b} ELSE Alive(mat)),
           NEW freed, freed = (IF LastUser(b, count) THEN Append(<<>>, b) ELSE <<>>)
    PROVE  Fair([mat EXCEPT ![n] = m], live, Fewer(count, b)) /\ Gone(freed, Alive(mat), live)
<1> DEFINE new == [mat EXCEPT ![n] = m]
<1>1. DOMAIN mat = Names /\ \A i \in Names : mat[i] \in MatHandles
    BY DEF MatOf
<1>2. a \in {Nowhere} \cup Memory /\ b \in {Nowhere} \cup Memory
    BY <1>1, HandleFields
<1>3. Nowhere \notin Memory
    BY DEF Nowhere, Memory
<1>4. ASSUME NEW x \in Memory
      PROVE  /\ Users(new, x) = Users(mat, x) - (IF b = x THEN 1 ELSE 0) + (IF a = x THEN 1 ELSE 0)
             /\ Users(mat, x) \in Nat /\ Users(new, x) \in Nat
             /\ b = x => Users(mat, x) > 0
             /\ a = x => Users(mat, x) > 0 /\ Users(new, x) > 0
             /\ a = x /\ b = x => Users(mat, x) > 0
    <2>0. Named(mat)
        BY <1>1 DEF Named
    <2>1. Named(new)
        BY <1>1 DEF Named
    <2>2. Users(mat, x) \in Nat /\ (Users(mat, x) > 0 <=> \E i \in Names : mat[i].refcount = x)
        BY <2>0, UsersCounted
    <2>3. Users(new, x) \in Nat /\ (Users(new, x) > 0 <=> \E i \in Names : new[i].refcount = x)
        BY <2>1, UsersCounted
    <2>4. Users(new, x) = Users(mat, x) - (IF b = x THEN 1 ELSE 0) + (IF a = x THEN 1 ELSE 0)
        BY <2>0, UsersChange
    <2>5. new[n] = m
        BY <1>1
    <2>6. a = x => \E i \in Names : mat[i].refcount = x
        BY <1>3
    <2> QED
        BY <2>2, <2>3, <2>4, <2>5, <2>6
<1>5. ASSUME NEW x \in Memory
      PROVE  count[x] = Users(mat, x) + (IF a = x THEN 1 ELSE 0)
    BY <1>2, <1>3, <1>4 DEF More, Counts
<1>6. DOMAIN count = Memory
    BY DEF More, Counts
<1>7. ASSUME NEW x \in Memory
      PROVE  Fewer(count, b)[x] = Users(new, x)
    <2>1. Fewer(count, b)[x] = count[x] - (IF b = x THEN 1 ELSE 0)
        <3>1. count[x] \in Int
            BY <1>4, <1>5
        <3> QED
            BY <1>2, <1>3, <1>6, <3>1 DEF Fewer
    <2>2. count[x] = Users(mat, x) + (IF a = x THEN 1 ELSE 0)
        BY <1>5
    <2>3. Users(new, x) = Users(mat, x) - (IF b = x THEN 1 ELSE 0) + (IF a = x THEN 1 ELSE 0) /\ Users(mat, x) \in Nat
        BY <1>4
    <2> HIDE DEF new
    <2> QED
        BY <2>1, <2>2, <2>3
<1> HIDE DEF new
<1>8. LastUser(b, count) <=> b \in Memory /\ b # a /\ Users(mat, b) = 1
    <2>1. LastUser(b, count) <=> b \in Memory /\ count[b] = 1
        BY <1>2, <1>3 DEF LastUser
    <2>2. b \in Memory => /\ count[b] = Users(mat, b) + (IF a = b THEN 1 ELSE 0)
                          /\ Users(mat, b) \in Nat /\ Users(mat, b) > 0
        BY <1>4, <1>5
    <2>3. b \in Memory => (count[b] = 1 <=> b # a /\ Users(mat, b) = 1)
        BY <2>2
    <2> QED
        BY <2>1, <2>3
<1>9. ASSUME NEW x \in Memory
      PROVE  x \in live <=> Users(new, x) > 0
    <2>1. CASE b # x
        <3>1. x \in live <=> Users(mat, x) > 0
            BY <2>1 DEF Alive
        <3>2. /\ Users(new, x) = Users(mat, x) - (IF b = x THEN 1 ELSE 0) + (IF a = x THEN 1 ELSE 0)
              /\ Users(mat, x) \in Nat /\ Users(new, x) \in Nat /\ (a = x => Users(mat, x) > 0)
            BY <1>4
        <3> QED
            BY <2>1, <3>1, <3>2
    <2>2. CASE b = x /\ a # x
        <3>1. x \in live <=> Users(mat, x) # 1
            BY <1>4, <1>8, <2>2 DEF Alive
        <3> QED
            BY <1>4, <2>2, <3>1
    <2>3. CASE b = x /\ a = x
        <3>1. x \in live
            BY <1>4, <1>8, <2>3 DEF Alive
        <3> QED
            BY <1>4, <2>3, <3>1
    <2> QED
        BY <2>1, <2>2, <2>3
<1>10. live \subseteq Memory
    BY DEF Alive
<1>11. Fair(new, live, Fewer(count, b))
    BY <1>7, <1>9, <1>10 DEF Fair
<1>12. Gone(freed, Alive(mat), live)
    <2>1. CASE LastUser(b, count)
        <3>1. b \in Alive(mat)
            BY <1>4, <1>8, <2>1 DEF Alive
        <3>2. Gone(Append(<<>>, b), Alive(mat), Alive(mat) \ {b})
            BY <3>1, OneGone
        <3> QED
            BY <2>1, <3>2
    <2>2. CASE ~LastUser(b, count)
        BY <2>2, NothingGone
    <2> QED
        BY <2>1, <2>2
<1> QED
    BY <1>11, <1>12 DEF new

\* What is done is settled if all is known of what is left.
Settles(c, new, live, freed, count) ==
    /\ Fair(new, live, count) /\ Gone(freed, Alive(c.mat), live)
    /\ c.op = "assign" => new[c.n] = c.mat[c.k]
    /\ c.op = "copy" => freed = <<>> /\ (c.mat[c.n] = NoMat => new[c.n] = c.mat[c.k])
    /\ \A i \in Names \ {c.n} : new[i] = c.mat[i]

\* A store that is settled after a call is shared fairly.
LEMMA Settled ==
    ASSUME NEW c, NEW new, NEW live, NEW freed, NEW count, Settles(c, new, live, freed, count)
    PROVE  SharedFairly(c, Standing(new, live, freed, count))
<1> DEFINE r == Standing(new, live, freed, count)
<1>1. r.mat = new /\ r.live = live /\ r.freed = freed /\ r.count = count
    BY DEF Standing
<1>2. Store(c.mat).live = Alive(c.mat)
    BY DEF Store, Alive
<1> HIDE DEF r
<1>3. r.live = {x \in Memory : Users(r.mat, x) > 0} /\ \A x \in Memory : r.count[x] = Users(r.mat, x)
    BY <1>1 DEF Settles, Fair
<1>4. Gone(r.freed, Store(c.mat).live, r.live)
    BY <1>1, <1>2 DEF Settles
<1>5. c.op = "assign" => r.mat[c.n] = c.mat[c.k]
    BY <1>1 DEF Settles
<1>6. c.op = "copy" => r.freed = <<>> /\ (c.mat[c.n] = NoMat => r.mat[c.n] = c.mat[c.k])
    BY <1>1 DEF Settles
<1>7. \A i \in Names \ {c.n} : r.mat[i] = c.mat[i]
    BY <1>1 DEF Settles
<1>8. SharedFairly(c, r)
    BY <1>3, <1>4, <1>5, <1>6, <1>7 DEF SharedFairly, Gone
<1> QED
    BY <1>8 DEF r

\* Whatever is done with Mats, memory goes with its last user.
THEOREM EveryShareFair ==
    ASSUME NEW c \in ShareCalls
    PROVE  SharedFairly(c, Shared(c))
<1> DEFINE mat == c.mat
           n == c.n
           k == c.k
           m == mat[k]
           b == mat[n].refcount
           s == Store(mat)
           r == Shared(c)
<1>1. mat \in MatOf /\ n \in Names /\ k \in Names /\ c.op \in {"assign", "copy", "destroy", "view"}
    BY DEF ShareCalls, MatOf
<1>2. DOMAIN mat = Names /\ \A i \in Names : mat[i] \in MatHandles
    BY <1>1 DEF MatOf
<1>3. m \in MatHandles /\ mat[n] \in MatHandles /\ NoMat \in MatHandles /\ NoMat.refcount = Nowhere
    BY <1>1, <1>2 DEF MatHandles, NoMat
<1>4. s = Standing(mat, Alive(mat), <<>>, Counts(mat))
    BY DEF Store, Standing, Alive, Counts
<1>5. Fair(mat, Alive(mat), Counts(mat)) /\ Gone(<<>>, Alive(mat), Alive(mat))
    BY NothingGone DEF Fair, Alive, Counts
\* What is left when a Mat takes the place of another.
<1> DEFINE lived(count) == IF LastUser(b, count) THEN Alive(mat) \ {b} ELSE Alive(mat)
           frees(count) == IF LastUser(b, count) THEN Append(<<>>, b) ELSE <<>>
           put(x)       == [mat EXCEPT ![n] = x]
<1>7. ASSUME NEW x \in MatHandles, x.refcount # Nowhere => \E i \in Names \ {n} : mat[i].refcount = x.refcount,
             NEW count, count = More(Counts(mat), x.refcount)
      PROVE  Fair(put(x), lived(count), Fewer(count, b)) /\ Gone(frees(count), Alive(mat), lived(count))
    <2> HIDE DEF mat, n, m, s, r
    <2> QED
        BY <1>1, <1>7, ReplacedFairly
<1>8. ASSUME NEW count
      PROVE  Release(Standing(mat, Alive(mat), <<>>, count), n) = Standing(put(NoMat), lived(count), frees(count), Fewer(count, b))
    <2>1. b = mat[n].refcount
        OBVIOUS
    <2> HIDE DEF mat, n, b
    <2>2. Release(Standing(mat, Alive(mat), <<>>, count), n)
              = Standing(Put(mat, n, NoMat), Lives(Alive(mat), b, count), Frees(<<>>, b, count), Fewer(count, b))
        BY <2>1, ReleaseDone
    <2> QED
        BY <2>2 DEF Put, Lives, Frees
<1>9. AddRef(s, m) = Standing(mat, Alive(mat), <<>>, More(Counts(mat), m.refcount))
    <2> HIDE DEF s, mat, m
    <2>1. AddRef(Standing(mat, Alive(mat), <<>>, Counts(mat)), m)
              = Standing(mat, Alive(mat), <<>>, More(Counts(mat), m.refcount))
        BY AddRefDone
    <2> QED
        BY <1>4, <2>1
<1>10. ASSUME NEW x PROVE Named(put(x)) /\ put(x)[n] = x /\ \A i \in Names \ {n} : put(x)[i] = mat[i]
    BY <1>1, <1>2 DEF Named
<1>11. More(Counts(mat), Nowhere) = Counts(mat) /\ Named(mat)
    BY <1>2 DEF More, Named
<1> DEFINE view == [data |-> m.data, refcount |-> Nowhere]
<1>12. view \in MatHandles
    BY <1>3, HandleFields DEF MatHandles, NoMat
<1>13. r = CASE c.op = "assign"  -> Assign(s, n, k)
             [] c.op = "copy"    -> IF mat[n] = NoMat THEN CopyOf(s, n, k) ELSE s
             [] c.op = "destroy" -> Destroyed(s, n)
             [] c.op = "view"    -> IF n = k THEN s ELSE ViewOf(s, n, k)
    BY DEF Shared
<1>14. s.mat = mat
    BY <1>4 DEF Standing
<1>6. ASSUME NEW new, NEW live, NEW freed, NEW count, Fair(new, live, count), Gone(freed, Alive(mat), live),
             c.op = "assign" => new[n] = m,
             c.op = "copy" => freed = <<>> /\ (mat[n] = NoMat => new[n] = m),
             \A i \in Names \ {n} : new[i] = mat[i]
      PROVE  Settles(c, new, live, freed, count)
    BY <1>6 DEF Settles
<1> HIDE DEF r, s, mat, n, k, m, b
<1>15. CASE c.op = "destroy"
    <2>1. r = Standing(put(NoMat), lived(Counts(mat)), frees(Counts(mat)), Fewer(Counts(mat), b))
        BY <1>4, <1>8, <1>13, <1>15 DEF Destroyed
    <2>2. /\ Fair(put(NoMat), lived(Counts(mat)), Fewer(Counts(mat), b))
          /\ Gone(frees(Counts(mat)), Alive(mat), lived(Counts(mat)))
        BY <1>3, <1>7, <1>11
    <2> HIDE DEF lived, frees, put
    <2>3. Settles(c, put(NoMat), lived(Counts(mat)), frees(Counts(mat)), Fewer(Counts(mat), b))
        BY <1>6, <1>10, <1>15, <2>2
    <2> QED
        BY <2>1, <2>3, Settled DEF r
<1>16. CASE c.op = "view"
    <2>1. CASE n = k
        <3>1. r = Standing(mat, Alive(mat), <<>>, Counts(mat))
            BY <1>4, <1>13, <1>16, <2>1
        <3>9. Settles(c, mat, Alive(mat), <<>>, Counts(mat))
            BY <1>5, <1>6, <1>16
        <3> QED
            BY <3>1, <3>9, Settled DEF r
    <2>2. CASE n # k
        <3>1. r = [Release(s, n) EXCEPT !.mat[n] = view]
            BY <1>13, <1>14, <1>16, <2>2 DEF ViewOf, m
        <3>2. Release(s, n) = Standing(put(NoMat), lived(Counts(mat)), frees(Counts(mat)), Fewer(Counts(mat), b))
            BY <1>4, <1>8
        <3>3. [put(NoMat) EXCEPT ![n] = view] = put(view)
            BY <1>1, <1>2
        <3>4. view.refcount = Nowhere
            OBVIOUS
        <3> HIDE DEF view
        <3>5. /\ Fair(put(view), lived(Counts(mat)), Fewer(Counts(mat), b))
              /\ Gone(frees(Counts(mat)), Alive(mat), lived(Counts(mat)))
            BY <1>7, <1>11, <1>12, <3>4
        <3> HIDE DEF lived, frees, put
        <3>6. r = Standing(put(view), lived(Counts(mat)), frees(Counts(mat)), Fewer(Counts(mat), b))
            BY <3>1, <3>2, <3>3 DEF Standing
        <3>9. Settles(c, put(view), lived(Counts(mat)), frees(Counts(mat)), Fewer(Counts(mat), b))
            BY <1>6, <1>10, <1>16, <3>5
        <3> QED
            BY <3>6, <3>9, Settled DEF r
    <2> QED
        BY <2>1, <2>2
<1> DEFINE count == More(Counts(mat), m.refcount)
<1>17. CASE c.op = "copy"
    <2>1. CASE mat[n] # NoMat
        <3>1. r = Standing(mat, Alive(mat), <<>>, Counts(mat))
            BY <1>4, <1>13, <1>17, <2>1
        <3>9. Settles(c, mat, Alive(mat), <<>>, Counts(mat))
            BY <1>5, <1>6, <1>17, <2>1
        <3> QED
            BY <3>1, <3>9, Settled DEF r
    <2>2. CASE mat[n] = NoMat
        <3>1. r = [AddRef(s, m) EXCEPT !.mat[n] = m]
            BY <1>13, <1>14, <1>17, <2>2 DEF CopyOf, m
        <3>2. b = Nowhere /\ (n = k => m.refcount = Nowhere)
            BY <1>3, <2>2 DEF b, m
        <3>3. m.refcount # Nowhere => \E i \in Names \ {n} : mat[i].refcount = m.refcount
            BY <1>1, <3>2 DEF m
        <3>4. Fair(put(m), lived(count), Fewer(count, b)) /\ Gone(frees(count), Alive(mat), lived(count))
            BY <1>3, <1>7, <3>3
        <3>5. lived(count) = Alive(mat) /\ frees(count) = <<>> /\ Fewer(count, b) = count
            BY <3>2 DEF LastUser, Fewer
        <3>6. r = Standing(put(m), Alive(mat), <<>>, count)
            <4> HIDE DEF count
            <4> QED
                BY <1>9, <3>1 DEF Standing, count
        <3> HIDE DEF count, lived, frees, put
        <3>7. Fair(put(m), Alive(mat), count) /\ Gone(<<>>, Alive(mat), Alive(mat))
            BY <3>4, <3>5
        <3>9. Settles(c, put(m), Alive(mat), <<>>, count)
            BY <1>6, <1>10, <1>17, <3>7
        <3> QED
            BY <3>6, <3>9, Settled DEF r
    <2> QED
        BY <2>1, <2>2
<1>18. CASE c.op = "assign"
    <2>1. CASE n = k
        <3>1. r = Standing(mat, Alive(mat), <<>>, Counts(mat))
            BY <1>4, <1>13, <1>18, <2>1 DEF Assign
        <3>2. mat[n] = m
            BY <2>1 DEF m
        <3>9. Settles(c, mat, Alive(mat), <<>>, Counts(mat))
            BY <1>5, <1>6, <1>18, <3>2
        <3> QED
            BY <3>1, <3>9, Settled DEF r
    <2>2. CASE n # k
        <3>1. r = [Release(AddRef(s, m), n) EXCEPT !.mat[n] = m]
            BY <1>13, <1>14, <1>18, <2>2 DEF Assign, m
        <3>2. m.refcount # Nowhere => \E i \in Names \ {n} : mat[i].refcount = m.refcount
            BY <1>1, <2>2 DEF m
        <3>3. Fair(put(m), lived(count), Fewer(count, b)) /\ Gone(frees(count), Alive(mat), lived(count))
            BY <1>3, <1>7, <3>2
        <3>4. Release(AddRef(s, m), n) = Standing(put(NoMat), lived(count), frees(count), Fewer(count, b))
            <4> HIDE DEF lived, frees, put
            <4> QED
                BY <1>8, <1>9
        <3>5. [put(NoMat) EXCEPT ![n] = m] = put(m)
            BY <1>1, <1>2
        <3> HIDE DEF count, lived, frees, put
        <3>6. r = Standing(put(m), lived(count), frees(count), Fewer(count, b))
            BY <3>1, <3>4, <3>5 DEF Standing
        <3>9. Settles(c, put(m), lived(count), frees(count), Fewer(count, b))
            BY <1>6, <1>10, <1>18, <3>3
        <3> QED
            BY <3>6, <3>9, Settled DEF r
    <2> QED
        BY <2>1, <2>2
<1> QED
    BY <1>1, <1>15, <1>16, <1>17, <1>18

-----------------------------------------------------------------------------
(* The channel of a decoder.                                               *)

AskableDecoder ==
    [what : {"decoder"}, type : {"h264", "h265", "jpeg", "mjpeg", "mpeg4"}, mode : {"stream", "frame"},
     width : Nat \ {0}, height : Nat \ {0}, frame_buf_cnt : Nat, bit_width : {8, 10},
     format : {"420", "422"}, dec_mode : {"ip", "ipb"}, ref_frame_num : Nat]

\* A decoder's pictures fit the blocks of its pool, and it has a pool for its
\* motion if it uses any.
THEOREM EveryDecoderFits ==
    ASSUME NEW s \in AskableDecoder
    PROVE  DecoderFits(s, [attr |-> ConfigAttr(s), vb |-> VbSize(s)])
<1> DEFINE answer == [attr |-> ConfigAttr(s), vb |-> VbSize(s)]
           c == [what |-> "coder", type |-> BufType(s), width |-> s.width, height |-> s.height,
                 format |-> PicAttr(s).format, bit_width |-> PicAttr(s).bit_width, share_buf_en |-> FALSE,
                 frame_buf_ratio |-> 0]
           pic == VdecPicBufSize(BufType(s), PicAttr(s))
           tmv == VdecTmvBufSize(s.type, s.width, s.height)
<1>1. /\ answer.attr.frame_buf_size = (IF s.type = "mpeg4" THEN Unset ELSE pic)
      /\ answer.attr.temporal_mvp_en = (IF s.type \in {"h264", "h265"} THEN (IF HasMotion(s) THEN 1 ELSE 0) ELSE Unset)
      /\ answer.attr.mode = (IF s.type \in {"jpeg", "mjpeg"} THEN "frame" ELSE s.mode)
      /\ answer.vb.pic = pic /\ answer.vb.tmv = (IF HasMotion(s) THEN tmv ELSE 0)
    BY DEF ConfigAttr, VbSize
<1>2. c \in AskableCoder /\ c.type = BufType(s) /\ c.width = s.width /\ c.height = s.height
    BY DEF AskableDecoder, AskableCoder, BufType, PicAttr
<1>3. pic = VdecPicBufSize(c.type, c)
    BY DEF VdecPicBufSize, PicAttr
<1>4. s.type = c.type => tmv = VdecTmvBufSize(c.type, c.width, c.height)
    OBVIOUS
<1>5. HasMotion(s) => s.type = c.type /\ c.type # "jpeg" /\ s.type \in {"h264", "h265"}
    BY DEF HasMotion, BufType
<1> HIDE DEF c, pic, tmv, answer
<1>6. pic \in Nat /\ (pic > 0 <=> CheckPicSize(c.type, c.width, c.height))
    BY <1>2, <1>3, DecoderFitsPicture
<1>7. s.type = c.type => (tmv > 0 <=> CheckPicSize(c.type, c.width, c.height) /\ c.type # "jpeg")
    BY <1>2, <1>4, MotionFits
<1>8. DecoderFits(s, answer)
    BY <1>1, <1>5, <1>6, <1>7 DEF DecoderFits, Unset
<1> QED
    BY <1>8 DEF answer

-----------------------------------------------------------------------------
(* The views of a fish-eye picture.                                        *)

\* On any way, the views lie in the picture, one below the other.
THEOREM EveryViewFits ==
    ASSUME NEW route, NEW sns, NEW ch
    PROVE  ViewsFit(sns, Route(route, sns, ch).views)
<1> DEFINE views == Route(route, sns, ch).views
           height == GetSize(sns).height
           h == ((height \div 3) \div 2) * 2
<1>1. views = IF route = "fisheye" THEN FisheyeViews(GetSize(sns)) ELSE <<>>
    BY DEF Route
<1>2. height \in Nat
    BY DEF GetSize, Size
<1> HIDE DEF height
<1>3. h \in Nat /\ h % 2 = 0 /\ 2 * h <= height
    BY <1>2
<1>4. CASE route = "fisheye"
    <2>1. /\ DOMAIN views = {1, 2}
          /\ views[1].y = 0 /\ views[1].height = h /\ views[2].y = h /\ views[2].height = h
        BY <1>1, <1>4 DEF FisheyeViews, height
    <2> HIDE DEF views, h
    <2>2. ViewsFit(sns, views)
        BY <1>2, <1>3, <2>1 DEF ViewsFit, height
    <2> QED
        BY <2>2 DEF views
<1>5. CASE route # "fisheye"
    BY <1>1, <1>5 DEF ViewsFit
<1> QED
    BY <1>4, <1>5

-----------------------------------------------------------------------------
(* Pictures sent in time.                                                  *)

\* What has passed since the first picture is known, and no picture is ahead.
PaceKnown(pace) ==
    /\ pace \in [sent : Nat, elapsed : Nat, gap : Nat]
    /\ KeepsPace(pace) /\ (pace.sent = 0 => pace.gap = 0 /\ pace.elapsed = 0)

\* Whatever time passes before a picture is found to be due, the beat is kept.
THEOREM EveryPictureInTime ==
    ASSUME Beat \in Nat, NEW pace, PaceKnown(pace), NEW wait \in Nat, Due(pace, wait)
    PROVE  PaceKnown(HandleSendStream(pace, wait))
<1> DEFINE next == HandleSendStream(pace, wait)
<1>1. pace.sent \in Nat /\ pace.elapsed \in Nat /\ pace.gap \in Nat
    BY DEF PaceKnown
<1>2. CASE pace.sent = 0
    <2>1. next = [sent |-> 1, elapsed |-> 0, gap |-> 0]
        BY <1>2 DEF HandleSendStream, PaceKnown
    <2> HIDE DEF next
    <2>2. KeepsPace(next)
        BY <2>1 DEF KeepsPace
    <2>3. PaceKnown(next)
        BY <2>1, <2>2 DEF PaceKnown
    <2> QED
        BY <2>3 DEF next
<1>3. CASE pace.sent > 0
    <2>1. /\ next.sent = pace.sent + 1 /\ next.elapsed = pace.elapsed + wait
          /\ next.gap = (IF wait < Beat THEN 0 ELSE IF wait - Beat > Beat THEN Beat ELSE wait - Beat)
          /\ next = [sent |-> next.sent, elapsed |-> next.elapsed, gap |-> next.gap]
        BY <1>3 DEF HandleSendStream
    <2>2. pace.gap <= Beat /\ pace.elapsed - pace.gap >= (pace.sent - 1) * Beat /\ wait >= Beat - pace.gap
        BY <1>1, <1>3 DEF PaceKnown, KeepsPace, Due
    <2> HIDE DEF next
    <2>3. next.gap \in Nat /\ next.gap <= Beat /\ wait - next.gap >= Beat - pace.gap
        BY <1>1, <2>1, <2>2
    <2>4. pace.sent * Beat = (pace.sent - 1) * Beat + Beat /\ (pace.sent - 1) * Beat \in Nat
        BY <1>1, <1>3
    <2>5. next.elapsed - next.gap >= (next.sent - 1) * Beat
        <3>1. next.elapsed - next.gap >= (pace.elapsed - pace.gap) + Beat
            BY <1>1, <2>1, <2>3
        <3>2. next.sent - 1 = pace.sent
            BY <1>1, <2>1
        <3> DEFINE before == (pace.sent - 1) * Beat
                   late == pace.elapsed - pace.gap
        <3>3. (next.sent - 1) * Beat = before + Beat /\ before \in Nat
            BY <2>4, <3>2
        <3>4. late \in Int /\ late >= before
            BY <1>1, <2>2
        <3>5. next.elapsed - next.gap >= late + Beat
            BY <3>1
        <3>6. next.elapsed - next.gap \in Int
            BY <1>1, <2>1, <2>3
        <3> HIDE DEF before, late
        <3> QED
            BY <3>3, <3>4, <3>5, <3>6
    <2>6. KeepsPace(next)
        BY <2>3, <2>5 DEF KeepsPace
    <2>7. next \in [sent : Nat, elapsed : Nat, gap : Nat] /\ next.sent # 0
        BY <1>1, <2>1, <2>3
    <2>8. PaceKnown(next)
        BY <2>6, <2>7 DEF PaceKnown
    <2> QED
        BY <2>8 DEF next
<1> QED
    BY <1>1, <1>2, <1>3

-----------------------------------------------------------------------------
(* Planes, colours and the ring of a stream.                               *)

\* Two planes of any even number of samples become pairs, V before U, each in its
\* turn and none missing.
THEOREM EveryPlanePaired ==
    ASSUME NEW c, c.size \in Nat
    PROVE  PlanesPaired(c, PlanToSemi(c.size))
<1> DEFINE half == c.size \div 2
           o    == PlanToSemi(c.size)
<1>1. /\ o.u = [n \in 0..(2 * half - 1) |-> <<IF n % 2 = 0 THEN "v" ELSE "u", n \div 2>>]
      /\ o.v = [n \in 0..(2 * half - 1) |-> <<IF n % 2 = 0 THEN "v" ELSE "u", half + (n \div 2)>>]
    BY DEF PlanToSemi
<1> SUFFICES ASSUME c.size % 2 = 0, NEW n \in 0..(2 * c.size - 1)
             PROVE  (IF n < c.size THEN o.u[n] ELSE o.v[n - c.size]) = <<IF n % 2 = 0 THEN "v" ELSE "u", n \div 2>>
    BY DEF PlanesPaired
<1>2. half \in Nat /\ c.size = 2 * half
    OBVIOUS
<1> HIDE DEF half, o
<1>3. CASE n < c.size
  <2>1. n \in 0..(2 * half - 1)
      BY <1>2, <1>3
  <2>2. o.u[n] = <<IF n % 2 = 0 THEN "v" ELSE "u", n \div 2>>
      BY <1>1, <2>1
  <2> QED
      BY <1>3, <2>2
<1>4. CASE n >= c.size
  <2> DEFINE m == n - c.size
  <2>1. m \in 0..(2 * half - 1) /\ m % 2 = n % 2 /\ half + (m \div 2) = n \div 2
      BY <1>2, <1>4
  <2>2. o.v[m] = <<IF m % 2 = 0 THEN "v" ELSE "u", half + (m \div 2)>>
      BY <1>1, <2>1
  <2> QED
      BY <1>2, <1>4, <2>1, <2>2
<1> QED
    BY <1>2, <1>3, <1>4

\* What is not below 0 and not above 255 is left as it is.
LEMMA NotCutOff == ASSUME NEW x \in 0..255 PROVE Saturate(x) = x
<1>1. x \in Int /\ 255 >= x /\ x >= 0
    OBVIOUS
<1>2. Min({x, 255}) = x
    BY <1>1, GreaterOf
<1>3. Max({0, x}) = x
    BY <1>1, GreaterOf
<1> QED
    BY <1>2, <1>3 DEF Saturate

\* Every colour comes out the same from both, and none is cut off.
THEOREM EveryColourAgrees ==
    ASSUME NEW b \in 0..255, NEW g \in 0..255, NEW r \in 0..255,
           NEW o, o.eight = ByEight(b, g, r), o.two = ByTwo(b, g, r)
    PROVE  ColoursAgree(o)
<1> DEFINE y == (38 * r + 75 * g + 15 * b + 64) \div 128
           u == (-43 * r - 84 * g + 127 * b + 128) \div 256 + 128
           v == (127 * r - 107 * g - 20 * b + 128) \div 256 + 128
<1>1. b \in Int /\ g \in Int /\ r \in Int /\ 0 <= b /\ b <= 255 /\ 0 <= g /\ g <= 255 /\ 0 <= r /\ r <= 255
    OBVIOUS
<1>2. y \in 0..255 /\ u \in 0..255 /\ v \in 0..255
    BY <1>1, SMT
<1>3. /\ (128 * 256 + 128 + 127 * b - 84 * g - 43 * r) \div 256 = u
      /\ (128 * 256 + 128 + 127 * r - 107 * g - 20 * b) \div 256 = v
    BY <1>1, SMT
<1>4. o.eight = [y |-> y, u |-> u, v |-> v]
    BY <1>3 DEF ByEight
<1>5. o.two = [y |-> Saturate(y), u |-> Saturate(u), v |-> Saturate(v)]
    BY DEF ByTwo
<1> HIDE DEF y, u, v
<1>6. o.two = [y |-> y, u |-> u, v |-> v]
    BY <1>2, <1>5, NotCutOff
<1> QED
    BY <1>2, <1>4, <1>6 DEF ColoursAgree

\* What a pack may be: it begins in the ring and is no longer than the ring.
AskableRing ==
    {c \in [what : {"ring"}, ring : [base : Nat, size : Nat \ {0}], phys : Nat, len : Nat \ {0}, offset : Nat] :
        c.ring.base <= c.phys /\ c.phys <= c.ring.base + c.ring.size /\ c.offset < c.len /\ c.len <= c.ring.size}

\* A number less than twice the divisor: its remainder.
LEMMA OnceRound ==
    ASSUME NEW x \in Nat, NEW n \in Nat, n > 0, x < 2 * n
    PROVE  x % n = IF x < n THEN x ELSE x - n
<1>1. CASE x < n
    BY <1>1
<1>2. CASE x >= n
  <2>1. x \div n = 1
    BY <1>2, DivUnique
  <2>2. x = (x \div n) * n + (x % n) /\ x % n \in Nat
    OBVIOUS
  <2>3. x % n \in Nat /\ (x \div n) * n = n
    BY <2>1
  <2> QED
    BY <1>2, <2>2, <2>3
<1> QED
    BY <1>1, <1>2

\* Numbers one after the other, and what is added to them.
LEMMA Joined ==
    ASSUME NEW a \in Nat, NEW m \in Nat, NEW b \in Nat, NEW n \in Nat
    PROVE  [k \in 1..m |-> a + k - 1] \o [k \in 1..n |-> b + k - 1]
              = [k \in 1..(m + n) |-> IF k <= m THEN a + k - 1 ELSE b + (k - m) - 1]
<1> DEFINE s == [k \in 1..m |-> a + k - 1]
           t == [k \in 1..n |-> b + k - 1]
           u == [k \in 1..(m + n) |-> IF k <= m THEN a + k - 1 ELSE b + (k - m) - 1]
<1>1. s \in Seq(Int) /\ t \in Seq(Int) /\ Len(s) = m /\ Len(t) = n
    OBVIOUS
<1>2. u \in Seq(Int) /\ Len(u) = m + n
    OBVIOUS
<1>3. s \o t \in Seq(Int) /\ Len(s \o t) = m + n
    BY <1>1
<1>4. \A k \in 1..(m + n) : (s \o t)[k] = u[k]
    BY <1>1
<1> HIDE DEF s, t, u
<1> QED
    BY <1>2, <1>3, <1>4

\* From a ring of any size, the bytes of a pack that begins anywhere in it are
\* saved in their order round the ring.
THEOREM EveryPackSaved ==
    ASSUME NEW c \in AskableRing
    PROVE  RingSaved(c, SaveStreamPhysAddr(c.ring, c))
<1> DEFINE base == c.ring.base
           size == c.ring.size
           end  == base + size
           n    == c.len - c.offset
           round == [k \in 1..n |-> base + ((c.phys - base + c.offset + k - 1) % size)]
           pieces == SaveStreamPhysAddr(c.ring, c)
<1> SUFFICES RingSaved(c, pieces)
    OBVIOUS
<1>1. /\ base \in Nat /\ size \in Nat /\ size > 0 /\ c.phys \in Nat /\ c.len \in Nat /\ c.offset \in Nat
      /\ base <= c.phys /\ c.phys <= base + size /\ c.offset < c.len /\ c.len <= size
    BY DEF AskableRing
<1>2. n \in Nat
    BY <1>1
<1>3. ASSUME NEW k \in 1..n
      PROVE  round[k] = IF c.phys + c.offset + k - 1 < end THEN c.phys + c.offset + k - 1
                        ELSE c.phys + c.offset + k - 1 - size
  <2> DEFINE x == c.phys - base + c.offset + k - 1
  <2>1. x \in Nat /\ x < 2 * size
    BY <1>1, <1>3
  <2>2. round[k] = base + (x % size)
    BY <1>3
  <2>3. x = c.phys + c.offset + k - 1 - base
    BY <1>1, <1>3
  <2> HIDE DEF x, round
  <2>4. x % size = IF x < size THEN x ELSE x - size
    BY <1>1, <2>1, OnceRound
  <2> QED
    BY <1>1, <2>1, <2>2, <2>3, <2>4
<1> DEFINE bytes(p) == [k \in 1..p[2] |-> p[1] + k - 1]
<1>4. ASSUME NEW a \in Nat, pieces = <<<<a, n>>>>, \A k \in 1..n : round[k] = a + k - 1
      PROVE  RingSaved(c, pieces)
  <2>1. Len(pieces) = 1 /\ pieces[1] = <<a, n>>
    BY <1>4
  <2>2. bytes(pieces[1]) = [k \in 1..n |-> a + k - 1]
    BY <2>1
  <2>3. round = [k \in 1..n |-> a + k - 1]
    BY <1>4
  <2> QED
    BY <2>1, <2>2, <2>3 DEF RingSaved
<1> HIDE DEF pieces, round
<1>5. CASE c.phys > base /\ c.phys + c.len >= end
  <2>1. pieces = PhysAddrRetrace(c.ring, c)
    BY <1>1, <1>5 DEF SaveStreamPhysAddr, pieces
  <2>2. CASE c.phys + c.offset >= end
    <3>1. pieces = <<<<c.phys + c.offset - size, n>>>>
      BY <2>1, <2>2 DEF PhysAddrRetrace
    <3>2. c.phys + c.offset - size \in Nat
      BY <1>1, <2>2
    <3>3. \A k \in 1..n : round[k] = (c.phys + c.offset - size) + k - 1
      BY <1>1, <1>3, <2>2
    <3> QED
      BY <1>4, <3>1, <3>2, <3>3
  <2>3. CASE c.phys + c.offset < end
    <3> DEFINE first == c.phys + c.offset
               m     == end - c.phys - c.offset
               rest  == c.len - (end - c.phys)
    <3>1. pieces = <<<<first, m>>, <<base, rest>>>>
      BY <2>1, <2>3, <1>1 DEF PhysAddrRetrace
    <3>2. first \in Nat /\ m \in Nat /\ rest \in Nat /\ m + rest = n
      BY <1>1, <1>5, <2>3
    <3>3. /\ Len(pieces) = 2 /\ bytes(pieces[1]) = [k \in 1..m |-> first + k - 1]
          /\ bytes(pieces[2]) = [k \in 1..rest |-> base + k - 1]
      BY <3>1
    <3>4. \A k \in 1..n : round[k] = IF k <= m THEN first + k - 1 ELSE base + (k - m) - 1
      BY <1>1, <1>3, <2>3
    <3> HIDE DEF first, m, rest, n
    <3>5. [k \in 1..m |-> first + k - 1] \o [k \in 1..rest |-> base + k - 1]
             = [k \in 1..n |-> IF k <= m THEN first + k - 1 ELSE base + (k - m) - 1]
      BY <1>1, <3>2, Joined
    <3>6. round = [k \in 1..n |-> IF k <= m THEN first + k - 1 ELSE base + (k - m) - 1]
      BY <3>4 DEF round
    <3>7. round = [k \in 1..(c.len - c.offset) |->
                     c.ring.base + ((c.phys - c.ring.base + c.offset + k - 1) % c.ring.size)]
      BY DEF round, n
    <3>9. Len(pieces) # 1
      BY <3>3
    <3>8. bytes(pieces[1]) \o bytes(pieces[2]) = round
      BY <3>3, <3>5, <3>6
    <3> QED
      BY <3>9, <3>7, <3>8, Zenon DEF RingSaved
  <2> QED
    BY <1>1, <2>2, <2>3
<1>6. CASE ~(c.phys > base /\ c.phys + c.len >= end)
  <2>1. pieces = <<<<c.phys + c.offset, n>>>>
    BY <1>1, <1>6 DEF SaveStreamPhysAddr, pieces
  <2>2. c.phys + c.offset \in Nat
    BY <1>1
  <2>3. \A k \in 1..n : round[k] = (c.phys + c.offset) + k - 1
    BY <1>1, <1>3, <1>6
  <2> QED
    BY <1>4, <2>1, <2>2, <2>3
<1> QED
    BY <1>5, <1>6

-----------------------------------------------------------------------------
(* The elements of a Mat.                                                  *)

\* What may be asked of the layout of a Mat: a cube or a hypercube of any size,
\* of elements of any length; or a head of the model, of any even side.
AskableMat ==
    {c \in [what : {"mat"}, dims : {3, 4}, shape : [w : Nat \ {0}, h : Nat \ {0}, d : Nat \ {0}, c : Nat \ {0}],
            elem : (Nat \ {0}) \X (Nat \ {0})] :
        /\ c.dims = 3 => c.shape.d = 1
        /\ c.shape.w = 6 => /\ c.dims = 4 /\ c.shape.h = c.shape.d /\ c.shape.c = 3 /\ c.elem = <<4, 1>>
                            /\ c.shape.h % 2 = 0}

\* A number of two digits, the lesser below "s".
Digits(s, a, x) == s * a + x

\* Another number has another digit.
LEMMA TwoPlaces ==
    ASSUME NEW s \in Nat, NEW a \in Nat, NEW b \in Nat, NEW x \in Nat, NEW y \in Nat, x < s, y < s,
           Digits(s, a, x) = Digits(s, b, y)
    PROVE  a = b /\ x = y
<1>0. s * a + x = s * b + y
    BY DEF Digits
<1>1. ASSUME NEW p \in Nat, NEW q \in Nat, p < q
      PROVE  s * p + s <= s * q
  <2>1. PICK k \in Nat : q = p + 1 + k
    <3>1. q - p - 1 \in Nat /\ q = p + 1 + (q - p - 1)
      BY <1>1
    <3> QED
      BY <3>1
  <2>2. s * q = s * p + s + s * k /\ s * k \in Nat /\ s * p \in Nat
    BY <2>1
  <2> QED
    BY <2>2
<1>2. s * a \in Nat /\ s * b \in Nat
    OBVIOUS
<1>3. ~(a < b) /\ ~(b < a)
    BY <1>0, <1>1, <1>2
<1>4. a = b
    BY <1>3
<1> QED
    BY <1>0, <1>2, <1>4

\* One more digit: what the places before can hold is not exceeded.
LEMMA PlaceHolds ==
    ASSUME NEW s \in Nat, NEW n \in Nat, NEW a \in Nat, a < n, NEW x \in Nat, x < s
    PROVE  s * a + x \in Nat /\ s * a + x < s * n
<1>1. PICK k \in Nat : n = a + 1 + k
  <2>1. n - a - 1 \in Nat /\ n = a + 1 + (n - a - 1)
    OBVIOUS
  <2> QED
    BY <2>1
<1>2. s * n = s * a + s + s * k /\ s * k \in Nat /\ s * a \in Nat
    BY <1>1
<1> QED
    BY <1>2

\* The number of an element, from its place in row, plane, channel and Mat.
IndexOf(m, x, y, z, q) == m.cstep * q + ((m.w * m.h) * z + (m.w * y + x))

\* A Mat whose channels are far enough from each other for their planes.
Spaced(m) ==
    /\ m.w \in Nat /\ m.h \in Nat /\ m.d \in Nat /\ m.c \in Nat /\ m.cstep \in Nat /\ m.at \in Nat
    /\ m.elemsize \in Nat /\ m.elemsize > 0 /\ (m.w * m.h) * m.d <= m.cstep

\* An element is counted from the beginning of the Mat, and lies in it.
LEMMA IndexWithin ==
    ASSUME NEW m, Spaced(m), NEW x \in Nat, NEW y \in Nat, NEW z \in Nat, NEW q \in Nat,
           x < m.w, y < m.h, z < m.d, q < m.c
    PROVE  /\ m.w * y + x \in Nat /\ m.w * y + x < m.w * m.h
           /\ (m.w * m.h) * z + (m.w * y + x) \in Nat /\ (m.w * m.h) * z + (m.w * y + x) < m.cstep
           /\ IndexOf(m, x, y, z, q) \in Nat /\ IndexOf(m, x, y, z, q) < m.cstep * m.c
           /\ ElementAt(m, x, y, z, q) = m.at + IndexOf(m, x, y, z, q) * m.elemsize
<1>1. m.w * y + x \in Nat /\ m.w * y + x < m.w * m.h /\ m.w * m.h \in Nat
    BY PlaceHolds DEF Spaced
<1> DEFINE plane == m.w * m.h
           row   == m.w * y + x
<1>2. plane * z + row \in Nat /\ plane * z + row < plane * m.d
    BY <1>1, PlaceHolds DEF Spaced
<1>3. plane * z + row < m.cstep
  <2> plane * m.d \in Nat /\ plane * m.d <= m.cstep
    BY <1>1 DEF Spaced
  <2> HIDE DEF plane, row
  <2> QED
    BY <1>2 DEF Spaced
<1>4. m.cstep * q + (plane * z + row) \in Nat /\ m.cstep * q + (plane * z + row) < m.cstep * m.c
  <2> HIDE DEF plane, row
  <2> QED
    BY <1>2, <1>3, PlaceHolds DEF Spaced
<1>5. ElementAt(m, x, y, z, q) = m.at + IndexOf(m, x, y, z, q) * m.elemsize
  <2> DEFINE a == m.cstep * q
             b == plane * z
             e == m.w * y
  <2>1. a \in Nat /\ b \in Nat /\ e \in Nat
    BY <1>1 DEF Spaced
  <2>2. a + b + e + x = a + (b + (e + x))
    <3> HIDE DEF a, b, e
    <3> QED
      BY <2>1
  <2> QED
    BY <2>2 DEF ElementAt, IndexOf
<1> QED
    BY <1>1, <1>2, <1>3, <1>4, <1>5 DEF IndexOf

\* One of the elements of a Mat.
ElementOf(m, x, y, z, q) ==
    x \in Nat /\ y \in Nat /\ z \in Nat /\ q \in Nat /\ x < m.w /\ y < m.h /\ z < m.d /\ q < m.c

\* Two elements have two numbers.
LEMMA IndexTells ==
    ASSUME NEW m, Spaced(m), NEW x, NEW y, NEW z, NEW q, ElementOf(m, x, y, z, q), NEW x2, NEW y2, NEW z2, NEW q2,
           ElementOf(m, x2, y2, z2, q2), IndexOf(m, x, y, z, q) = IndexOf(m, x2, y2, z2, q2)
    PROVE  x = x2 /\ y = y2 /\ z = z2 /\ q = q2
<1> USE DEF ElementOf
<1> DEFINE row  == m.w * y + x
           row2 == m.w * y2 + x2
           in   == (m.w * m.h) * z + row
           in2  == (m.w * m.h) * z2 + row2
           plane == m.w * m.h
<1>1. row \in Nat /\ row < plane /\ in \in Nat /\ in < m.cstep
    BY IndexWithin
<1>2. row2 \in Nat /\ row2 < plane /\ in2 \in Nat /\ in2 < m.cstep
    BY IndexWithin
<1>3. plane \in Nat /\ m.cstep \in Nat /\ m.w \in Nat
    BY DEF Spaced
<1>4. Digits(m.cstep, q, in) = Digits(m.cstep, q2, in2)
    BY DEF IndexOf, Digits
<1> HIDE DEF in, in2, row, row2, plane
<1>5. q = q2 /\ in = in2
    BY <1>1, <1>2, <1>3, <1>4, TwoPlaces, SMTT(30)
<1>6. Digits(plane, z, row) = Digits(plane, z2, row2)
    BY <1>5 DEF in, in2, Digits, plane
<1>7. z = z2 /\ row = row2
    BY <1>1, <1>2, <1>3, <1>6, TwoPlaces
<1>8. Digits(m.w, y, x) = Digits(m.w, y2, x2)
    BY <1>7 DEF row, row2, Digits
<1>9. y = y2 /\ x = x2
    BY <1>3, <1>8, TwoPlaces
<1> QED
    BY <1>5, <1>7, <1>9

\* Of two different numbers the later element begins behind the earlier one.
LEMMA NumbersApart ==
    ASSUME NEW i \in Nat, NEW j \in Nat, i # j, NEW s \in Nat
    PROVE  i * s >= j * s + s \/ j * s >= i * s + s
<1>1. ASSUME NEW p \in Nat, NEW q \in Nat, p < q
      PROVE  q * s >= p * s + s
  <2>1. PICK k \in Nat : q = p + 1 + k
    <3>1. q - p - 1 \in Nat /\ q = p + 1 + (q - p - 1)
      BY <1>1
    <3> QED
      BY <3>1
  <2>2. q * s = p * s + s + k * s /\ k * s \in Nat /\ p * s \in Nat
    BY <2>1
  <2> QED
    BY <2>2
<1> QED
    BY <1>1

\* Two elements do not overlap.
LEMMA ElementsApart ==
    ASSUME NEW m, Spaced(m), NEW x \in Nat, NEW y \in Nat, NEW z \in Nat, NEW q \in Nat,
           x < m.w, y < m.h, z < m.d, q < m.c, NEW x2 \in Nat, NEW y2 \in Nat, NEW z2 \in Nat, NEW q2 \in Nat,
           x2 < m.w, y2 < m.h, z2 < m.d, q2 < m.c, x # x2 \/ y # y2 \/ z # z2 \/ q # q2
    PROVE  \/ ElementAt(m, x, y, z, q) >= ElementAt(m, x2, y2, z2, q2) + m.elemsize
           \/ ElementAt(m, x2, y2, z2, q2) >= ElementAt(m, x, y, z, q) + m.elemsize
<1> DEFINE i == IndexOf(m, x, y, z, q)
           j == IndexOf(m, x2, y2, z2, q2)
           s == m.elemsize
<1>1. i \in Nat /\ ElementAt(m, x, y, z, q) = m.at + i * s
    BY IndexWithin
<1>2. j \in Nat /\ ElementAt(m, x2, y2, z2, q2) = m.at + j * s
    BY IndexWithin
<1>3. i # j
  <2> SUFFICES ASSUME IndexOf(m, x, y, z, q) = IndexOf(m, x2, y2, z2, q2)
               PROVE  FALSE
    OBVIOUS
  <2>1. ElementOf(m, x, y, z, q) /\ ElementOf(m, x2, y2, z2, q2)
    BY DEF ElementOf
  <2>2. x = x2 /\ y = y2 /\ z = z2 /\ q = q2
    BY <2>1, IndexTells
  <2> QED
    BY <2>2
<1>4. s \in Nat /\ m.at \in Nat
    BY DEF Spaced
<1> HIDE DEF i, j, s
<1>5. i * s >= j * s + s \/ j * s >= i * s + s
    BY <1>1, <1>2, <1>3, <1>4, NumbersApart
<1>6. i * s \in Nat /\ j * s \in Nat
    BY <1>1, <1>2, <1>4
<1> QED
    BY <1>1, <1>2, <1>4, <1>5, <1>6 DEF s

\* What is known of a view.
ViewKnown(v) ==
    v.w \in Nat /\ v.h \in Nat /\ v.cstep \in Nat /\ v.at \in Nat /\ v.elemsize \in Nat /\ v.elemsize > 0

\* The step from channel to channel is a number.
LEMMA StepKnown ==
    ASSUME NEW n \in Nat, NEW s \in Nat, s > 0
    PROVE  AlignSize(n, 16) \div s \in Nat
<1>1. AlignUp(n, 16) \in Nat
    BY AlignedTo16
<1> QED
    BY <1>1, DivBounds DEF AlignSize

\* A channel begins where its first element is, and its planes follow one
\* another.
LEMMA ChannelAt ==
    ASSUME NEW m, ViewKnown(m), m.d \in Nat, NEW q \in Nat
    PROVE  LET v == Channel(m, q)
           IN /\ ViewKnown(v) /\ v.w = m.w /\ v.h = m.h /\ v.elemsize = m.elemsize /\ v.at = m.at + m.cstep * q * m.elemsize
              /\ v.c = m.d /\ v.elempack = m.elempack /\ v.dims = m.dims - 1
              /\ v.cstep = IF m.dims = 4 THEN m.w * m.h ELSE AlignSize(m.w * m.h * 1 * m.elemsize, 16) \div m.elemsize
<1> DEFINE n == m.w * m.h * 1 * m.elemsize
           v == Channel(m, q)
<1>1. n \in Nat /\ m.w * m.h \in Nat /\ m.cstep * q * m.elemsize \in Nat
    BY DEF ViewKnown
<1>2. AlignSize(n, 16) \div m.elemsize \in Nat
  <2> HIDE DEF n
  <2> QED
    BY <1>1, StepKnown DEF ViewKnown
<1>3. /\ v.w = m.w /\ v.h = m.h /\ v.elemsize = m.elemsize /\ v.at = m.at + m.cstep * q * m.elemsize
      /\ v.c = m.d /\ v.elempack = m.elempack /\ v.dims = m.dims - 1
      /\ v.cstep = IF m.dims = 4 THEN m.w * m.h ELSE AlignSize(n, 16) \div m.elemsize
    BY DEF Channel, External, Volume
<1> HIDE DEF v, n
<1>4. ViewKnown(v)
    BY <1>1, <1>2, <1>3 DEF ViewKnown
<1> QED
    BY <1>3, <1>4 DEF v, n

\* A plane of a channel.
LEMMA DepthAt ==
    ASSUME NEW m, ViewKnown(m), NEW z \in Nat
    PROVE  LET v == Depth(m, z)
           IN /\ ViewKnown(v) /\ v.w = m.w /\ v.h = m.h /\ v.elemsize = m.elemsize
              /\ v.at = m.at + m.w * m.h * z * m.elemsize
<1> DEFINE v == Depth(m, z)
<1>1. m.w * m.h \in Nat /\ m.w * m.h * z * m.elemsize \in Nat
    BY DEF ViewKnown
<1>2. /\ v.w = m.w /\ v.h = m.h /\ v.elemsize = m.elemsize /\ v.cstep = m.w * m.h
      /\ v.at = m.at + m.w * m.h * z * m.elemsize
    BY DEF Depth, External, Volume
<1> HIDE DEF v
<1>3. ViewKnown(v)
    BY <1>1, <1>2 DEF ViewKnown
<1> QED
    BY <1>2, <1>3 DEF v

\* Some of the rows of a plane.
LEMMA RowsAt ==
    ASSUME NEW m, ViewKnown(m), NEW y \in Nat, NEW rows \in Nat
    PROVE  LET v == RowRange(m, y, rows)
           IN ViewKnown(v) /\ v.elemsize = m.elemsize /\ v.at = m.at + m.w * y * m.elemsize
<1> DEFINE v == RowRange(m, y, rows)
<1>1. m.w * rows \in Nat /\ m.w * y * m.elemsize \in Nat
    BY DEF ViewKnown
<1>2. /\ v.w = m.w /\ v.h = rows /\ v.elemsize = m.elemsize /\ v.cstep = m.w * rows
      /\ v.at = m.at + m.w * y * m.elemsize
    BY DEF RowRange, RowAt, External, Volume
<1> HIDE DEF v
<1>3. ViewKnown(v)
    BY <1>1, <1>2 DEF ViewKnown
<1> QED
    BY <1>2, <1>3 DEF v

\* Some of the elements of a row.
LEMMA RangeAt ==
    ASSUME NEW m, ViewKnown(m), NEW x \in Nat, NEW n \in Nat
    PROVE  LET v == RangeOf(m, x, n)
           IN ViewKnown(v) /\ v.elemsize = m.elemsize /\ v.at = m.at + x * m.elemsize
<1> DEFINE v == RangeOf(m, x, n)
<1>1. n * 1 \in Nat /\ x * m.elemsize \in Nat
    BY DEF ViewKnown
<1>2. v.w = n /\ v.h = 1 /\ v.elemsize = m.elemsize /\ v.cstep = n * 1 /\ v.at = m.at + x * m.elemsize
    BY DEF RangeOf, External, Volume
<1> HIDE DEF v
<1>3. ViewKnown(v)
    BY <1>1, <1>2 DEF ViewKnown
<1> QED
    BY <1>2, <1>3 DEF v

\* Some of the channels of a Mat: its step is that of all.
LEMMA ChannelsAt ==
    ASSUME NEW m, ViewKnown(m), m.d \in Nat, NEW q \in Nat, NEW channels \in Nat
    PROVE  LET v == ChannelRange(m, q, channels)
           IN /\ ViewKnown(v) /\ v.w = m.w /\ v.h = m.h /\ v.elemsize = m.elemsize /\ v.at = m.at + m.cstep * q * m.elemsize
              /\ v.cstep = AlignSize(m.w * m.h * m.d * m.elemsize, 16) \div m.elemsize
<1> DEFINE n == m.w * m.h * m.d * m.elemsize
           v == ChannelRange(m, q, channels)
<1>1. n \in Nat /\ m.cstep * q * m.elemsize \in Nat
    BY DEF ViewKnown
<1>2. AlignSize(n, 16) \div m.elemsize \in Nat
  <2> HIDE DEF n
  <2> QED
    BY <1>1, StepKnown DEF ViewKnown
<1>3. /\ v.w = m.w /\ v.h = m.h /\ v.elemsize = m.elemsize /\ v.at = m.at + m.cstep * q * m.elemsize
      /\ v.cstep = AlignSize(n, 16) \div m.elemsize
    BY DEF ChannelRange, External, Volume
<1> HIDE DEF v, n
<1>4. ViewKnown(v)
    BY <1>1, <1>2, <1>3 DEF ViewKnown
<1> QED
    BY <1>3, <1>4 DEF v, n

\* Some of the planes of a channel.
LEMMA DepthsAt ==
    ASSUME NEW m, ViewKnown(m), NEW z \in Nat, NEW depths \in Nat
    PROVE  LET v == DepthRange(m, z, depths)
           IN /\ ViewKnown(v) /\ v.w = m.w /\ v.h = m.h /\ v.elemsize = m.elemsize
              /\ v.at = m.at + m.w * m.h * z * m.elemsize
<1> DEFINE v == DepthRange(m, z, depths)
<1>1. m.w * m.h \in Nat /\ m.w * m.h * z * m.elemsize \in Nat
    BY DEF ViewKnown
<1>2. /\ v.w = m.w /\ v.h = m.h /\ v.elemsize = m.elemsize /\ v.cstep = m.w * m.h
      /\ v.at = m.at + m.w * m.h * z * m.elemsize
    BY DEF DepthRange, External, Volume
<1> HIDE DEF v
<1>3. ViewKnown(v)
    BY <1>1, <1>2 DEF ViewKnown
<1> QED
    BY <1>2, <1>3 DEF v

\* What is not counted adds nothing: an element of the first channel, of the
\* first plane, of the first row, and the first of all.
LEMMA OfTheFirst ==
    ASSUME NEW v, ViewKnown(v), NEW x \in Nat, NEW y \in Nat, NEW z \in Nat
    PROVE  /\ ElementAt(v, x, y, z, 0) = v.at + (v.w * v.h * z + v.w * y + x) * v.elemsize
           /\ ElementAt(v, x, y, 0, z) = v.at + (v.cstep * z + v.w * y + x) * v.elemsize
           /\ ElementAt(v, x, y, 0, 0) = v.at + (v.w * y + x) * v.elemsize
           /\ ElementAt(v, x, 0, 0, 0) = v.at + x * v.elemsize
           /\ ElementAt(v, 0, 0, 0, 0) = v.at
<1>1. /\ v.cstep * 0 = 0 /\ v.w * v.h * 0 = 0 /\ v.w * 0 = 0 /\ 0 * v.elemsize = 0
      /\ v.w * v.h * z \in Nat /\ v.w * y \in Nat /\ v.cstep * z \in Nat /\ v.at \in Nat
    BY DEF ViewKnown
<1> DEFINE a == v.w * v.h * z
           b == v.w * y
           e == v.cstep * z
<1>2. /\ 0 + a + b + x = a + b + x /\ e + 0 + b + x = e + b + x /\ 0 + 0 + b + x = b + x
      /\ 0 + 0 + 0 + x = x /\ 0 + 0 + 0 + 0 = 0
  <2>1. a \in Nat /\ b \in Nat /\ e \in Nat
    BY <1>1
  <2> HIDE DEF a, b, e
  <2> QED
    BY <2>1
<1>3. v.at + 0 = v.at
    BY <1>1
<1> QED
    BY <1>1, <1>2, <1>3 DEF ElementAt

\* So many elements on, and so many more.
LEMMA Further ==
    ASSUME NEW at \in Nat, NEW a \in Nat, NEW b \in Nat, NEW s \in Nat
    PROVE  at + a * s + b * s = at + (a + b) * s
    OBVIOUS

\* An element is where it is in every view of it.
SameInViews(m, x, y, z, q) ==
    LET chn   == Channel(m, q)
        plane == IF m.dims = 4 THEN Depth(chn, z) ELSE chn
        here  == ElementAt(m, x, y, z, q)
    IN /\ ElementAt(chn, x, y, 0, IF m.dims = 4 THEN z ELSE 0) = here
       /\ ElementAt(plane, x, y, 0, 0) = here
       /\ ElementAt(RowRange(plane, y, m.h - y), x, 0, 0, 0) = here
       /\ ElementAt(RangeOf(RowRange(plane, y, 1), x, m.w - x), 0, 0, 0, 0) = here
       /\ ElementAt(ChannelRange(m, q, m.c - q), x, y, z, 0) = here
       /\ m.dims = 4 => /\ RowAt(chn, z * m.h + y) + x * m.elemsize = here
                        /\ ElementAt(DepthRange(chn, z, m.d - z), x, y, 0, 0) = here

\* The views of one element.
LEMMA ViewsAgree ==
    ASSUME NEW m, ViewKnown(m), m.d \in Nat, m.c \in Nat, m.dims \in {3, 4}, m.dims = 3 => m.d = 1,
           NEW x \in Nat, NEW y \in Nat, NEW z \in Nat, NEW q \in Nat, x < m.w, y < m.h, z < m.d, q < m.c
    PROVE  SameInViews(m, x, y, z, q)
<1> DEFINE chn   == Channel(m, q)
           plane == IF m.dims = 4 THEN Depth(chn, z) ELSE chn
           here  == ElementAt(m, x, y, z, q)
           s     == m.elemsize
           whole == m.cstep * q
           deep  == m.w * m.h * z
           down  == m.w * y
<1>1. /\ whole \in Nat /\ deep \in Nat /\ down \in Nat /\ s \in Nat /\ m.at \in Nat /\ m.w \in Nat /\ m.h \in Nat
      /\ m.w * m.h \in Nat /\ m.at + whole * s \in Nat
    BY DEF ViewKnown
<1>2. here = m.at + (whole + deep + down + x) * s
    BY DEF ElementAt
<1>3. /\ ViewKnown(chn) /\ chn.w = m.w /\ chn.h = m.h /\ chn.elemsize = s /\ chn.at = m.at + whole * s
      /\ m.dims = 4 => chn.cstep = m.w * m.h
    BY ChannelAt
<1>4. m.dims = 3 => z = 0 /\ deep = 0
    BY <1>1
<1> HIDE DEF chn, here, whole, deep, down, s
<1>5. here = (m.at + whole * s) + (deep + down + x) * s
    BY <1>1, <1>2, Further
<1>6. here = ((m.at + whole * s) + deep * s) + (down + x) * s
  <2>1. deep + down + x = deep + (down + x)
    BY <1>1
  <2> QED
    BY <1>1, <1>5, <2>1, Further
<1>7. here = (((m.at + whole * s) + deep * s) + down * s) + x * s
    BY <1>1, <1>6, Further
<1>8. ElementAt(chn, x, y, 0, IF m.dims = 4 THEN z ELSE 0) = here
  <2>1. CASE m.dims = 4
    <3>1. ElementAt(chn, x, y, 0, z) = chn.at + (chn.cstep * z + chn.w * y + x) * chn.elemsize
      BY <1>3, OfTheFirst
    <3> QED
      BY <1>3, <1>5, <2>1, <3>1 DEF deep, down
  <2>2. CASE m.dims = 3
    <3>1. ElementAt(chn, x, y, 0, 0) = chn.at + (chn.w * y + x) * chn.elemsize
      BY <1>3, OfTheFirst
    <3>2. deep + down + x = down + x
      BY <1>1, <1>4, <2>2
    <3>3. ElementAt(chn, x, y, 0, 0) = here
      BY <1>3, <1>5, <3>1, <3>2 DEF down
    <3> QED
      BY <2>2, <3>3
  <2> QED
    BY <2>1, <2>2
<1>9. /\ ViewKnown(plane) /\ plane.w = m.w /\ plane.h = m.h /\ plane.elemsize = s
      /\ plane.at = (m.at + whole * s) + deep * s
  <2>1. CASE m.dims = 4
    <3>1. /\ ViewKnown(Depth(chn, z)) /\ Depth(chn, z).w = m.w /\ Depth(chn, z).h = m.h /\ Depth(chn, z).elemsize = s
          /\ Depth(chn, z).at = chn.at + chn.w * chn.h * z * s
      BY <1>3, DepthAt
    <3> QED
      BY <1>3, <2>1, <3>1 DEF deep
  <2>2. CASE m.dims = 3
    <3>1. (m.at + whole * s) + deep * s = m.at + whole * s
      <4>1. deep * s = 0
        BY <1>1, <1>4, <2>2
      <4> QED
        BY <1>1, <4>1
    <3> QED
      BY <1>3, <2>2, <3>1
  <2> QED
    BY <2>1, <2>2
<1> HIDE DEF plane
<1>10. ElementAt(plane, x, y, 0, 0) = here
    BY <1>6, <1>9, OfTheFirst DEF down
<1>11. /\ ViewKnown(RowRange(plane, y, m.h - y)) /\ RowRange(plane, y, m.h - y).elemsize = s
       /\ RowRange(plane, y, m.h - y).at = plane.at + down * s
  <2>1. m.h - y \in Nat
    BY <1>1
  <2> DEFINE v == RowRange(plane, y, m.h - y)
  <2>2. ViewKnown(v) /\ v.elemsize = plane.elemsize /\ v.at = plane.at + plane.w * y * plane.elemsize
    BY <1>9, <2>1, RowsAt
  <2> HIDE DEF v
  <2>3. ViewKnown(v) /\ v.elemsize = s /\ v.at = plane.at + down * s
    BY <1>9, <2>2 DEF down
  <2> QED
    BY <2>3 DEF v
<1>12. ElementAt(RowRange(plane, y, m.h - y), x, 0, 0, 0) = here
    BY <1>7, <1>9, <1>11, OfTheFirst
<1>13. ElementAt(RangeOf(RowRange(plane, y, 1), x, m.w - x), 0, 0, 0, 0) = here
  <2> DEFINE row == RowRange(plane, y, 1)
  <2>1. ViewKnown(row) /\ row.elemsize = s /\ row.at = plane.at + down * s
    <3> DEFINE one == 1
    <3>1. one \in Nat
      OBVIOUS
    <3> HIDE DEF one
    <3>2. LET v == RowRange(plane, y, one)
          IN ViewKnown(v) /\ v.elemsize = plane.elemsize /\ v.at = plane.at + plane.w * y * plane.elemsize
      BY <1>9, <3>1, RowsAt
    <3>3. ViewKnown(row) /\ row.elemsize = plane.elemsize /\ row.at = plane.at + plane.w * y * plane.elemsize
      BY <3>2, Zenon DEF one
    <3> QED
      BY <1>9, <3>3 DEF down
  <2>2. m.w - x \in Nat
    BY <1>1
  <2> HIDE DEF row
  <2>3. ViewKnown(RangeOf(row, x, m.w - x)) /\ RangeOf(row, x, m.w - x).at = row.at + x * s
    BY <2>1, <2>2, RangeAt
  <2>4. ElementAt(RangeOf(row, x, m.w - x), 0, 0, 0, 0) = here
    BY <1>7, <1>9, <2>1, <2>3, OfTheFirst
  <2> QED
    BY <2>4 DEF row
<1>14. ElementAt(ChannelRange(m, q, m.c - q), x, y, z, 0) = here
  <2> DEFINE v == ChannelRange(m, q, m.c - q)
  <2>1. m.c - q \in Nat
    OBVIOUS
  <2>2. ViewKnown(v) /\ v.w = m.w /\ v.h = m.h /\ v.elemsize = s /\ v.at = m.at + whole * s
    BY <2>1, ChannelsAt DEF s, whole
  <2> HIDE DEF v
  <2>3. ElementAt(v, x, y, z, 0) = here
    BY <1>5, <2>2, OfTheFirst DEF deep, down
  <2> QED
    BY <2>3 DEF v
<1>15. ASSUME m.dims = 4
       PROVE  /\ RowAt(chn, z * m.h + y) + x * m.elemsize = here
              /\ ElementAt(DepthRange(chn, z, m.d - z), x, y, 0, 0) = here
  <2>1. m.w * (z * m.h + y) = deep + down
    BY <1>1 DEF deep, down
  <2>2. RowAt(chn, z * m.h + y) = (m.at + whole * s) + (deep + down) * s
    BY <1>3, <2>1 DEF RowAt
  <2>3. (m.at + whole * s) + (deep + down) * s + x * s = here
    <3>1. (deep + down) + x = deep + down + x /\ deep + down \in Nat
      BY <1>1
    <3> QED
      BY <1>1, <1>5, <3>1, Further
  <2> DEFINE v == DepthRange(chn, z, m.d - z)
  <2>4. m.d - z \in Nat
    OBVIOUS
  <2>5. ViewKnown(v) /\ v.w = m.w /\ v.h = m.h /\ v.elemsize = s /\ v.at = (m.at + whole * s) + deep * s
    <3>1. /\ ViewKnown(v) /\ v.w = chn.w /\ v.h = chn.h /\ v.elemsize = chn.elemsize
          /\ v.at = chn.at + chn.w * chn.h * z * chn.elemsize
      BY <1>3, <2>4, DepthsAt
    <3> QED
      BY <1>3, <3>1 DEF deep
  <2> HIDE DEF v
  <2>6. ElementAt(v, x, y, 0, 0) = here
    BY <1>6, <2>5, OfTheFirst DEF down
  <2> QED
    BY <2>2, <2>3, <2>6 DEF v, s
<1> QED
    BY <1>8, <1>10, <1>12, <1>13, <1>14, <1>15 DEF SameInViews, chn, plane, here

\* The Mat that is asked for.
CreatedFor(c) == Created(c.dims, c.shape, c.elem[1], c.elem[2])

\* Its channels have room for their planes, whatever is added to align them.
LEMMA CreatedSpaced ==
    ASSUME NEW c \in AskableMat
    PROVE  LET m == CreatedFor(c)
           IN /\ m.dims = c.dims /\ m.w = c.shape.w /\ m.h = c.shape.h /\ m.d = c.shape.d /\ m.c = c.shape.c /\ m.at = 0
              /\ m.elemsize = c.elem[1] /\ m.elempack = c.elem[2]
              /\ m.cstep = AlignSize(m.w * m.h * m.d * m.elemsize, 16) \div m.elemsize
              /\ m.w > 0 /\ m.h > 0 /\ m.d > 0 /\ m.c > 0 /\ m.elempack \in Nat /\ m.elempack > 0
              /\ Spaced(m) /\ ViewKnown(m)
<1> DEFINE m == CreatedFor(c)
           n == m.w * m.h * m.d
<1>1. /\ c.dims \in {3, 4} /\ c.shape.w \in Nat /\ c.shape.h \in Nat /\ c.shape.d \in Nat /\ c.shape.c \in Nat
      /\ c.shape.w > 0 /\ c.shape.h > 0 /\ c.shape.d > 0 /\ c.shape.c > 0
      /\ c.elem[1] \in Nat /\ c.elem[1] > 0 /\ c.elem[2] \in Nat /\ c.elem[2] > 0
    BY DEF AskableMat
<1>2. /\ m.dims = c.dims /\ m.w = c.shape.w /\ m.h = c.shape.h /\ m.d = c.shape.d /\ m.c = c.shape.c /\ m.at = 0
      /\ m.elemsize = c.elem[1] /\ m.elempack = c.elem[2]
      /\ m.cstep = AlignSize(n * m.elemsize, 16) \div m.elemsize
    BY <1>1 DEF CreatedFor, Created, External
<1> HIDE DEF m
<1>3. n \in Nat /\ n * m.elemsize \in Nat
    BY <1>1, <1>2
<1> HIDE DEF n
<1>4. AlignUp(n * m.elemsize, 16) \in Nat /\ AlignUp(n * m.elemsize, 16) >= n * m.elemsize
    BY <1>3, AlignedTo16
<1>5. m.cstep \in Nat /\ n <= m.cstep
  <2>1. (n * m.elemsize) \div m.elemsize = n
    BY <1>1, <1>2, <1>3, ProductMultiple
  <2> DEFINE a == AlignUp(n * m.elemsize, 16)
             b == n * m.elemsize
  <2>2. b \div m.elemsize <= a \div m.elemsize /\ a \div m.elemsize \in Nat
    <3>1. a \in Nat /\ b \in Nat /\ b <= a
      BY <1>3, <1>4
    <3> HIDE DEF a, b
    <3> QED
      BY <1>1, <1>2, <3>1, DivMono, DivBounds
  <2> QED
    BY <1>2, <2>1, <2>2 DEF AlignSize
<1>6. Spaced(m) /\ ViewKnown(m)
    BY <1>1, <1>2, <1>5 DEF Spaced, ViewKnown, n
<1> QED
    BY <1>1, <1>2, <1>6 DEF m, n

\* Filled is each element, four by four and one by one.
LEMMA FilledAll ==
    ASSUME NEW m, Total(m) \in Nat
    PROVE  Fill(m) = 0..(Total(m) - 1)
<1> DEFINE n == Total(m)
           k == 4 * (n \div 4)
<1> HIDE DEF n
<1>1. k \in Nat /\ k <= n
    BY DEF n
<1>2. Fill(m) = (0..(k - 1)) \cup (k..(n - 1))
    BY DEF Fill, n
<1> HIDE DEF k
<1> QED
    BY <1>1, <1>2 DEF n

\* A channel that is filled vector by vector ends before the next begins.
LEMMA FilledInside ==
    ASSUME NEW m, Spaced(m), ViewKnown(m), m.dims \in {3, 4}, m.dims = 3 => m.d = 1, m.elempack \in Nat, m.elempack > 0,
           m.cstep = AlignSize(m.w * m.h * m.d * m.elemsize, 16) \div m.elemsize
    PROVE  FillPacked(Channel(m, 0), m.elempack, m.elemsize \div m.elempack)
              \subseteq m.at..(m.at + m.cstep * m.elemsize - 1)
<1> DEFINE chn   == Channel(m, 0)
           lanes == m.elempack
           bytes == m.elemsize \div m.elempack
           s     == m.elemsize
<1>1. /\ m.d \in Nat /\ m.cstep \in Nat /\ m.at \in Nat /\ s \in Nat /\ lanes \in Nat /\ m.w \in Nat /\ m.h \in Nat
    BY DEF Spaced
<1>2. bytes \in Nat /\ lanes * bytes \in Nat /\ lanes * bytes <= s
  <2>1. bytes \in Nat /\ bytes * lanes <= s
    BY <1>1, DivBounds
  <2> HIDE DEF bytes, lanes, s
  <2>2. lanes * bytes = bytes * lanes /\ lanes * bytes \in Nat
    BY <1>1, <2>1
  <2> QED
    BY <2>1, <2>2
<1>3. chn.at = m.at /\ chn.c = m.d /\ chn.cstep \in Nat
  <2>1. ViewKnown(chn) /\ chn.at = m.at + m.cstep * 0 * s /\ chn.c = m.d
    BY <1>1, ChannelAt
  <2>2. m.cstep * 0 * s = 0
    BY <1>1
  <2> QED
    BY <1>1, <2>1, <2>2 DEF ViewKnown
<1>4. Total(chn) \in Nat /\ Total(chn) <= m.cstep
  <2>1. CASE m.dims = 4
    <3>1. chn.cstep = m.w * m.h
      BY <1>1, <2>1, ChannelAt
    <3> QED
      BY <1>1, <1>3, <3>1 DEF Total, Spaced
  <2>2. CASE m.dims = 3
    <3>1. chn.cstep = AlignSize(m.w * m.h * 1 * m.elemsize, 16) \div m.elemsize
      BY <1>1, <2>2, ChannelAt
    <3>2. chn.cstep = m.cstep
      BY <2>2, <3>1
    <3> QED
      BY <1>1, <1>3, <2>2, <3>2 DEF Total
  <2> QED
    BY <2>1, <2>2
<1> HIDE DEF chn, lanes, bytes, s
<1>5. Total(chn) * lanes * bytes \in Nat /\ Total(chn) * lanes * bytes <= m.cstep * s
  <2>1. Total(chn) * lanes * bytes = Total(chn) * (lanes * bytes)
    BY <1>1, <1>2, <1>4
  <2>2. Total(chn) * (lanes * bytes) <= m.cstep * s /\ Total(chn) * (lanes * bytes) \in Nat
    BY <1>1, <1>2, <1>4, ProdMono
  <2> QED
    BY <2>1, <2>2
<1>6. FillPacked(chn, lanes, bytes) = m.at..(m.at + Total(chn) * lanes * bytes - 1)
    BY <1>3 DEF FillPacked
<1> DEFINE a == Total(chn) * lanes * bytes
           b == m.cstep * s
<1>7. b \in Nat
    BY <1>1
<1>8. m.at..(m.at + a - 1) \subseteq m.at..(m.at + b - 1)
  <2> HIDE DEF a, b
  <2>1. a \in Nat /\ b \in Nat /\ a <= b
    BY <1>5, <1>7 DEF a, b
  <2> QED
    BY <1>1, <2>1
<1> QED
    BY <1>6, <1>8 DEF chn, lanes, bytes, s

\* A head of the model has no room between its channels.
LEMMA HeadDense ==
    ASSUME NEW c \in AskableMat, c.shape.w = 6
    PROVE  LET m == CreatedFor(c)
           IN /\ m.w = 6 /\ m.c = 3 /\ m.dims = 4 /\ m.elemsize = 4 /\ m.h > 1 /\ m.d > 1
              /\ m.cstep = m.w * m.h * m.d /\ Total(m) = 3 * m.h * m.d * 6
<1> DEFINE m == CreatedFor(c)
<1>1. /\ m.w = 6 /\ m.h = c.shape.h /\ m.d = c.shape.h /\ m.c = 3 /\ m.dims = 4 /\ m.elemsize = 4
      /\ m.cstep = AlignSize(m.w * m.h * m.d * m.elemsize, 16) \div m.elemsize
      /\ c.shape.h \in Nat /\ c.shape.h > 0 /\ c.shape.h % 2 = 0
    BY CreatedSpaced DEF AskableMat
<1> HIDE DEF m
<1>2. PICK k \in Nat : m.h = 2 * k /\ k > 0
  <2>1. c.shape.h \div 2 \in Nat /\ c.shape.h = 2 * (c.shape.h \div 2)
    BY <1>1
  <2> QED
    BY <1>1, <2>1
<1> DEFINE j == k * k
<1>3. j \in Nat
    OBVIOUS
<1>4. m.w * m.h * m.d = 24 * j /\ 3 * m.h * m.d * 6 = 72 * j
    BY <1>1, <1>2
<1> HIDE DEF j
<1>5. AlignUp((24 * j) * 4, 16) = (24 * j) * 4
    BY <1>3 DEF AlignUp
<1>6. m.cstep = 24 * j
    BY <1>1, <1>3, <1>4, <1>5 DEF AlignSize
<1>7. Total(m) = 72 * j
    BY <1>1, <1>3, <1>6 DEF Total
<1>8. m.h > 1 /\ m.d > 1
    BY <1>1, <1>2
<1> QED
    BY <1>1, <1>4, <1>6, <1>7, <1>8 DEF m

\* Where an element of a head lies, when it is copied as one block.
LEMMA HeadElement ==
    ASSUME NEW w \in Nat, NEW h \in Nat, NEW d \in Nat, NEW x \in Nat, NEW y \in Nat, NEW z \in Nat, NEW q \in Nat
    PROVE  ((w * h * d) * q + w * h * z + w * y + x) * 4 = 4 * (((q * d + z) * h + y) * w + x)
<1>1. ((q * d + z) * h + y) * w = (w * h * d) * q + w * h * z + w * y
  <2>1. ((q * d + z) * h + y) * w = (q * d + z) * h * w + y * w
    OBVIOUS
  <2>2. (q * d + z) * h * w = q * d * h * w + z * h * w
    OBVIOUS
  <2> QED
    BY <2>1, <2>2
<1> QED
    BY <1>1

\* A Mat of any size, of elements of any length: an element is where it is in
\* every view of it, elements do not overlap and lie in the memory, a view that
\* is filled touches no other channel; a head is found row by row.
THEOREM EveryMatPlaced ==
    ASSUME NEW c \in AskableMat
    PROVE  MatPlaced(c, CreatedFor(c))
<1> DEFINE m    == CreatedFor(c)
           head == c.shape.w = 6
           ends(n) == IF head THEN {0, 1, n - 1} ELSE 0..(n - 1)
           at(e) == ElementAt(m, e[1], e[2], e[3], e[4])
           elems == ends(m.w) \X ends(m.h) \X ends(m.d) \X ends(m.c)
           next  == m.at + m.cstep * m.elemsize
<1>1. /\ m.dims = c.dims /\ m.w = c.shape.w /\ m.h = c.shape.h /\ m.d = c.shape.d /\ m.c = c.shape.c /\ m.at = 0
      /\ m.elemsize = c.elem[1] /\ m.elempack = c.elem[2]
      /\ m.cstep = AlignSize(m.w * m.h * m.d * m.elemsize, 16) \div m.elemsize
      /\ m.w > 0 /\ m.h > 0 /\ m.d > 0 /\ m.c > 0 /\ m.elempack \in Nat /\ m.elempack > 0
      /\ Spaced(m) /\ ViewKnown(m)
    BY CreatedSpaced
<1>2. /\ m.w \in Nat /\ m.h \in Nat /\ m.d \in Nat /\ m.c \in Nat /\ m.cstep \in Nat /\ m.elemsize \in Nat
      /\ m.elemsize > 0
    BY <1>1 DEF Spaced
<1>3. m.dims \in {3, 4} /\ (m.dims = 3 => m.d = 1)
    BY <1>1 DEF AskableMat
<1>4. head => /\ m.w = 6 /\ m.c = 3 /\ m.dims = 4 /\ m.elemsize = 4 /\ m.h > 1 /\ m.d > 1
              /\ m.cstep = m.w * m.h * m.d /\ Total(m) = 3 * m.h * m.d * 6
    BY HeadDense
<1> SUFFICES MatPlaced(c, m)
    OBVIOUS
<1> HIDE DEF m
<1>5. ASSUME NEW n \in Nat, n > 0, head => n > 1, NEW i \in ends(n)
      PROVE  i \in Nat /\ i < n
    BY <1>5
<1>6. ASSUME NEW e \in elems
      PROVE  /\ e[1] \in Nat /\ e[2] \in Nat /\ e[3] \in Nat /\ e[4] \in Nat
             /\ e[1] < m.w /\ e[2] < m.h /\ e[3] < m.d /\ e[4] < m.c /\ e = <<e[1], e[2], e[3], e[4]>>
  <2> HIDE DEF head
  <2>1. e[1] \in ends(m.w) /\ e[2] \in ends(m.h) /\ e[3] \in ends(m.d) /\ e[4] \in ends(m.c)
        /\ e = <<e[1], e[2], e[3], e[4]>>
    OBVIOUS
  <2> HIDE DEF ends
  <2> QED
    BY <1>1, <1>2, <1>4, <1>5, <2>1
<1> DEFINE number(e) == IndexOf(m, e[1], e[2], e[3], e[4])
<1>7. ASSUME NEW e \in elems
      PROVE  number(e) \in Nat /\ number(e) < m.cstep * m.c /\ at(e) = number(e) * m.elemsize
  <2> HIDE DEF elems
  <2>1. number(e) \in Nat /\ number(e) < m.cstep * m.c /\ at(e) = m.at + number(e) * m.elemsize
    BY <1>1, <1>6, IndexWithin
  <2> HIDE DEF number, at
  <2>2. number(e) * m.elemsize \in Nat
    BY <1>2, <2>1
  <2> QED
    BY <1>1, <2>1, <2>2
<1>8. ASSUME NEW e \in elems, NEW f \in elems, e # f
      PROVE  at(e) >= at(f) + m.elemsize \/ at(f) >= at(e) + m.elemsize
  <2> HIDE DEF elems
  <2>1. /\ e[1] \in Nat /\ e[2] \in Nat /\ e[3] \in Nat /\ e[4] \in Nat
        /\ e[1] < m.w /\ e[2] < m.h /\ e[3] < m.d /\ e[4] < m.c
    BY <1>6
  <2>2. /\ f[1] \in Nat /\ f[2] \in Nat /\ f[3] \in Nat /\ f[4] \in Nat
        /\ f[1] < m.w /\ f[2] < m.h /\ f[3] < m.d /\ f[4] < m.c
    BY <1>6
  <2>3. e[1] # f[1] \/ e[2] # f[2] \/ e[3] # f[3] \/ e[4] # f[4]
    BY <1>6, <1>8
  <2>4. Spaced(m)
    BY <1>1
  <2> QED
    BY <2>1, <2>2, <2>3, <2>4, ElementsApart
<1>9. ASSUME NEW e \in elems
      PROVE  at(e) + m.elemsize <= m.at + Total(m) * m.elemsize
  <2> HIDE DEF elems
  <2> DEFINE k == number(e)
             n == Total(m)
             s == m.elemsize
  <2>1. k \in Nat /\ n \in Nat /\ k + 1 <= n /\ at(e) = k * s /\ s \in Nat
    BY <1>2, <1>7 DEF Total
  <2> HIDE DEF number, at, k, n, s
  <2>2. (k + 1) * s <= n * s /\ (k + 1) * s = k * s + s /\ n * s \in Nat
    BY <2>1, ProdMono
  <2> QED
    BY <1>1, <2>1, <2>2 DEF n, s
<1>10. ASSUME NEW e \in elems
       PROVE  SameInViews(m, e[1], e[2], e[3], e[4])
  <2> HIDE DEF elems
  <2> QED
    BY <1>1, <1>2, <1>3, <1>6, ViewsAgree
<1>11. ChannelRange(m, 0, m.c).cstep = m.cstep
  <2>1. ChannelRange(m, 0, m.c).cstep = AlignSize(m.w * m.h * m.d * m.elemsize, 16) \div m.elemsize
    BY DEF ChannelRange, External, Volume
  <2> QED
    BY <1>1, <2>1
<1>12. FillPacked(Channel(m, 0), m.elempack, m.elemsize \div m.elempack) \subseteq m.at..(next - 1)
  <2>1. Spaced(m) /\ ViewKnown(m) /\ m.elempack \in Nat /\ m.elempack > 0
    BY <1>1
  <2>2. m.cstep = AlignSize(m.w * m.h * m.d * m.elemsize, 16) \div m.elemsize
    BY <1>1
  <2>3. m.dims \in {3, 4}
    BY <1>3
  <2>4. m.dims = 3 => m.d = 1
    BY <1>3
  <2>5. FillPacked(Channel(m, 0), m.elempack, m.elemsize \div m.elempack)
           \subseteq m.at..(m.at + m.cstep * m.elemsize - 1)
    BY <2>1, <2>2, <2>3, <2>4, FilledInside, Zenon
  <2>6. m.at..(m.at + m.cstep * m.elemsize - 1) = m.at..(next - 1)
    BY <1>1, <1>2
  <2> QED
    BY <2>5, <2>6, Zenon
<1>13. Fill(m) = 0..(Total(m) - 1)
  <2>1. Total(m) \in Nat
    BY <1>2 DEF Total
  <2> QED
    BY <2>1, FilledAll
<1>14. LET s == ShapeOf(m) IN s.w * s.h * s.d * s.c = m.w * m.h * m.d * m.c * m.elempack /\ Elembits(s) = 32
  <2> DEFINE s == ShapeOf(m)
             p == m.elempack
  <2>1. s.elemsize = 4 /\ s.elempack = 1 /\ s.w = m.w /\ s.h = m.h /\ s.c = m.c * p /\ s.d = m.d
    BY <1>3 DEF ShapeOf, External, Volume
  <2> HIDE DEF s
  <2>2. Elembits(s) = 32
    BY <2>1 DEF Elembits
  <2>3. m.w * m.h * m.d * (m.c * p) = m.w * m.h * m.d * m.c * p
    BY <1>1, <1>2
  <2> QED
    BY <2>1, <2>2, <2>3 DEF s
<1>15. ASSUME head, NEW e \in elems
       PROVE  at(e) = 4 * (((e[4] * m.d + e[3]) * m.h + e[2]) * m.w + e[1])
  <2> DEFINE x == e[1]
             y == e[2]
             z == e[3]
             q == e[4]
             w == m.w
             h == m.h
             d == m.d
  <2>1. w \in Nat /\ h \in Nat /\ d \in Nat /\ x \in Nat /\ y \in Nat /\ z \in Nat /\ q \in Nat
    BY <1>2, <1>6
  <2>2. at(e) = m.at + (m.cstep * q + w * h * z + w * y + x) * m.elemsize
    BY DEF ElementAt
  <2>3. m.cstep = w * h * d /\ m.elemsize = 4 /\ m.at = 0
    BY <1>1, <1>4, <1>15
  <2> HIDE DEF elems, x, y, z, q, w, h, d, at
  <2>4. at(e) = ((w * h * d) * q + w * h * z + w * y + x) * 4
    <3>1. (w * h * d) * q + w * h * z + w * y + x \in Nat
      BY <2>1
    <3> QED
      BY <2>2, <2>3, <3>1
  <2>5. at(e) = 4 * (((q * d + z) * h + y) * w + x)
    BY <2>1, <2>4, HeadElement
  <2> QED
    BY <2>5 DEF x, y, z, q, w, h, d
<1>16. \A e, f \in elems : e # f => at(e) >= at(f) + m.elemsize \/ at(f) >= at(e) + m.elemsize
    BY <1>8
<1>17. \A e \in elems : at(e) + m.elemsize <= m.at + Total(m) * m.elemsize
    BY <1>9
<1>18. \A e \in elems : SameInViews(m, e[1], e[2], e[3], e[4])
    BY <1>10
<1> QED
    BY <1>4, <1>11, <1>12, <1>13, <1>14, <1>15, <1>16, <1>17, <1>18 DEF MatPlaced, SameInViews

-----------------------------------------------------------------------------
(* Bitmaps.                                                                *)

\* What a bitmap may be: of any size, into memory of its own, into a canvas
\* with room, or a whole image with a stride of its own or the caller's.
AskableBitmap ==
    {c \in [what : {"bitmap"}, way : {"map", "canvas", "image"}, width : Nat \ {0}, height : Nat \ {0}, bits : {8, 16, 24, 32},
            fmt : {"clut2", "clut4", "1555", "4444", "8888", "any"}, canvas : [stride : Nat, height : Nat]] :
        /\ c.way = "map" => c.fmt \in {"clut2", "clut4", "1555", "4444"} /\ c.canvas.stride = 0
        /\ c.way = "canvas" => c.fmt \in {"1555", "4444", "8888"} /\ c.canvas.stride > 0
        /\ c.way = "image" => c.fmt = "any"}

\* What is loaded.
Loaded(c) ==
    CASE c.way = "map" -> LoadBmpEx(c, c.fmt) [] c.way = "canvas" -> LoadBmpCanvas(c, c.fmt, c.canvas)
      [] c.way = "image" -> LoadBmp(c, c.canvas.stride)

\* The places of a bitmap's pixels: row and column.
PixelsOf(c) == (0..(c.height - 1)) \X (0..(c.width - 1))

\* A row of the file has all the bytes of its pixels.
LEMMA FileRows ==
    ASSUME NEW c, c.width \in Nat, NEW bpp \in {2, 3, 4}, bpp = c.bits \div 8
    PROVE  FileStride(c) \in Nat /\ c.width * bpp <= FileStride(c)
<1> DEFINE n == c.width * bpp
<1>1. n \in Nat
    OBVIOUS
<1>2. FileStride(c) = ((n + 3) \div 4) * 4
    BY DEF FileStride
<1> HIDE DEF n
<1>3. n <= ((n + 3) \div 4) * 4 /\ ((n + 3) \div 4) * 4 \in Nat
    BY <1>1
<1> QED
    BY <1>2, <1>3 DEF n

\* A piece of row "i" lies in the first "n" rows.
LEMMA RowInside ==
    ASSUME NEW i \in Nat, NEW n \in Nat, i < n, NEW s \in Nat, NEW x \in Nat, x <= s
    PROVE  i * s + x <= n * s /\ i * s + x \in Nat
<1>1. i + 1 <= n
    OBVIOUS
<1>2. (i + 1) * s <= n * s
    BY <1>1, ProdMono
<1>3. (i + 1) * s = i * s + s /\ i * s \in Nat /\ n * s \in Nat
    OBVIOUS
<1> QED
    BY <1>2, <1>3

\* The pixels of a bitmap copied row by row from the last row of the file: each
\* is read from the file; rows that do not reach into the next lie apart, as do
\* the pixels in them, and on the screen in the file's order turned round.
RowsTurned(c, bpp, stride, step) ==
    LET m == CopyRows(c, stride, step, step)
    IN /\ DOMAIN m = PixelsOf(c)
       /\ \A p \in PixelsOf(c) : /\ m[p].from + bpp <= FileStride(c) * c.height
                                 /\ m[p].to = p[1] * stride + p[2] * step /\ m[p].len = step
       /\ c.width * step <= stride =>
             \A p, q \in PixelsOf(c) : p # q =>
                /\ m[p].to + m[p].len <= m[q].to \/ m[q].to + m[q].len <= m[p].to
                /\ p[1] < q[1] => m[p].to < m[q].to /\ m[p].from > m[q].from

\* It is so for every size.
LEMMA RowsCopied ==
    ASSUME NEW c, c.width \in Nat \ {0}, c.height \in Nat \ {0}, NEW bpp \in {2, 3, 4}, bpp = c.bits \div 8,
           NEW stride \in Nat, NEW step \in Nat \ {0}
    PROVE  RowsTurned(c, bpp, stride, step)
<1> DEFINE m  == CopyRows(c, stride, step, step)
           w  == c.width
           h  == c.height
           fs == FileStride(c)
<1>1. /\ DOMAIN m = PixelsOf(c)
      /\ \A p \in PixelsOf(c) : m[p] = [to |-> p[1] * stride + p[2] * step, len |-> step,
                                        from |-> (h - 1 - p[1]) * fs + p[2] * bpp]
    BY DEF CopyRows, PixelsOf
<1>2. fs \in Nat /\ w * bpp <= fs /\ w \in Nat /\ h \in Nat /\ bpp \in Nat /\ bpp > 0
    BY FileRows
<1>3. ASSUME NEW p \in PixelsOf(c)
      PROVE  p[1] \in Nat /\ p[2] \in Nat /\ p[1] < h /\ p[2] < w /\ p = <<p[1], p[2]>>
    BY <1>3 DEF PixelsOf
<1> HIDE DEF m, w, h, fs
<1>4. ASSUME NEW p \in PixelsOf(c)
      PROVE  /\ p[2] * bpp \in Nat /\ p[2] * bpp + bpp <= fs /\ p[2] * bpp + bpp \in Nat
             /\ p[2] * step \in Nat /\ p[2] * step + step <= w * step /\ p[2] * step + step \in Nat /\ w * step \in Nat
  <2> DEFINE j == p[2]
  <2>1. j \in Nat /\ j < w
    BY <1>3
  <2> HIDE DEF j
  <2>2. j * bpp + bpp <= w * bpp /\ j * bpp + bpp \in Nat
    BY <1>2, <2>1, RowInside
  <2>3. j * step + step <= w * step /\ j * step + step \in Nat
    BY <1>2, <2>1, RowInside
  <2>4. j * bpp \in Nat /\ w * bpp \in Nat /\ j * step \in Nat /\ w * step \in Nat
    BY <1>2, <2>1
  <2> QED
    BY <1>2, <2>2, <2>3, <2>4 DEF j
<1>5. ASSUME NEW p \in PixelsOf(c)
      PROVE  m[p].from + bpp <= fs * h
  <2> DEFINE i == h - 1 - p[1]
             x == p[2] * bpp + bpp
  <2>1. i \in Nat /\ i < h
    BY <1>2, <1>3
  <2>2. x \in Nat /\ x <= fs /\ p[2] * bpp \in Nat
    BY <1>4
  <2>3. m[p].from + bpp = i * fs + p[2] * bpp + bpp
    BY <1>1
  <2> HIDE DEF i, x
  <2>4. i * fs + x <= h * fs
    BY <1>2, <2>1, <2>2, RowInside
  <2>5. i * fs \in Nat /\ h * fs = fs * h
    BY <1>2, <2>1
  <2>6. i * fs + p[2] * bpp + bpp = i * fs + x
    BY <1>2, <2>2, <2>5 DEF x
  <2> QED
    BY <2>3, <2>4, <2>5, <2>6
<1>6. ASSUME w * step <= stride, NEW p \in PixelsOf(c), NEW q \in PixelsOf(c), p[1] < q[1]
      PROVE  m[p].to + m[p].len <= m[q].to /\ m[p].to < m[q].to /\ m[p].from > m[q].from
  <2> DEFINE i == p[1]
             k == q[1]
             x == p[2] * step + step
             y == q[2] * step
             u == h - 1 - k
             v == h - 1 - i
             a == p[2] * bpp
             b == q[2] * bpp + bpp
  <2>1. i \in Nat /\ k \in Nat /\ i < k /\ u \in Nat /\ v \in Nat /\ u < v
    BY <1>2, <1>3, <1>6
  <2>2. x \in Nat /\ x <= stride /\ y \in Nat /\ a \in Nat /\ b \in Nat /\ b <= fs /\ p[2] * step \in Nat /\ q[2] * bpp \in Nat
    BY <1>4, <1>6
  <2>3. /\ m[p].to = i * stride + p[2] * step /\ m[p].len = step /\ m[q].to = k * stride + y
        /\ m[p].from = v * fs + a /\ m[q].from = u * fs + q[2] * bpp
    BY <1>1
  <2> HIDE DEF i, k, y, u, v, a
  <2>4. x = p[2] * step + step /\ b = q[2] * bpp + bpp
    OBVIOUS
  <2> HIDE DEF x, b
  <2>5. i * stride + x <= k * stride
    BY <2>1, <2>2, RowInside
  <2>6. u * fs + b <= v * fs
    BY <1>2, <2>1, <2>2, RowInside
  <2>7. i * stride \in Nat /\ k * stride \in Nat /\ u * fs \in Nat /\ v * fs \in Nat
    BY <1>2, <2>1
  <2>8. m[p].to + m[p].len <= m[q].to /\ m[p].to < m[q].to
    BY <2>2, <2>3, <2>4, <2>5, <2>7
  <2>9. m[p].from > m[q].from
    BY <1>2, <2>2, <2>3, <2>4, <2>6, <2>7
  <2> QED
    BY <2>8, <2>9
<1>7. ASSUME NEW p \in PixelsOf(c), NEW q \in PixelsOf(c), p[1] = q[1], p[2] < q[2]
      PROVE  m[p].to + m[p].len <= m[q].to
  <2> DEFINE i == p[1]
             j == p[2]
             k == q[2]
  <2>1. m[p].to = i * stride + j * step /\ m[p].len = step /\ m[q].to = i * stride + k * step
    BY <1>1, <1>7
  <2>2. i \in Nat /\ j \in Nat /\ k \in Nat /\ j < k
    BY <1>3, <1>7
  <2> HIDE DEF i, j, k
  <2>3. j * step + step <= k * step
    BY <2>2, RowInside
  <2>4. i * stride \in Nat /\ j * step \in Nat /\ k * step \in Nat
    BY <2>2
  <2> QED
    BY <2>1, <2>3, <2>4
<1>8. ASSUME w * step <= stride, NEW p \in PixelsOf(c), NEW q \in PixelsOf(c), p # q
      PROVE  /\ m[p].to + m[p].len <= m[q].to \/ m[q].to + m[q].len <= m[p].to
             /\ p[1] < q[1] => m[p].to < m[q].to /\ m[p].from > m[q].from
  <2>1. p[1] < q[1] \/ q[1] < p[1] \/ (p[1] = q[1] /\ (p[2] < q[2] \/ q[2] < p[2]))
    BY <1>3, <1>8
  <2>2. CASE p[1] < q[1]
    BY <1>6, <1>8, <2>2
  <2>3. CASE q[1] < p[1]
    <3>1. m[q].to + m[q].len <= m[p].to
      BY <1>6, <1>8, <2>3
    <3> QED
      BY <1>3, <2>3, <3>1
  <2>4. CASE p[1] = q[1] /\ (p[2] < q[2] \/ q[2] < p[2])
    <3>1. m[p].to + m[p].len <= m[q].to \/ m[q].to + m[q].len <= m[p].to
      BY <1>7, <2>4
    <3> QED
      BY <1>3, <2>4, <3>1
  <2> QED
    BY <2>1, <2>2, <2>3, <2>4
<1> QED
    BY <1>1, <1>5, <1>8 DEF RowsTurned, m, w, h, fs

\* The last byte written lies in the rows written.
LEMMA WrittenInside ==
    ASSUME NEW c, c.width \in Nat \ {0}, c.height \in Nat \ {0}, NEW stride \in Nat, NEW step \in Nat \ {0},
           c.width * step <= stride, NEW p \in PixelsOf(c)
    PROVE  p[1] * stride + p[2] * step + step <= stride * c.height
<1> DEFINE i == p[1]
           j == p[2]
<1>1. i \in Nat /\ i < c.height /\ j \in Nat /\ j < c.width
    BY DEF PixelsOf
<1> HIDE DEF i, j
<1>2. j * step + step <= c.width * step /\ j * step + step \in Nat
    BY <1>1, RowInside
<1> DEFINE x == j * step + step
<1>3. x \in Nat /\ x <= stride
  <2>1. c.width * step \in Nat
    OBVIOUS
  <2> QED
    BY <1>2, <2>1
<1> HIDE DEF x
<1>4. i * stride + x <= c.height * stride
    BY <1>1, <1>3, RowInside
<1>5. i * stride \in Nat /\ j * step \in Nat /\ c.height * stride = stride * c.height
    BY <1>1
<1>6. i * stride + j * step + step = i * stride + x
    BY <1>5 DEF x
<1> QED
    BY <1>4, <1>5, <1>6 DEF i, j

\* The bytes looked at for the transparent colour are the first ones of each
\* pixel.
LEMMA LookedAt ==
    ASSUME NEW c, c.width \in Nat \ {0}, c.height \in Nat \ {0}
    PROVE  FilBmp(c.width, c.height) = {p[1] * (c.width * 2) + p[2] * 2 : p \in PixelsOf(c)}
<1> DEFINE w == c.width
           h == c.height
<1>1. w \in Nat /\ h \in Nat /\ w > 0 /\ h > 0 /\ w * h \in Nat
    OBVIOUS
<1>2. ASSUME NEW p \in PixelsOf(c)
      PROVE  \E k \in 0..(w * h - 1) : 2 * k = p[1] * (w * 2) + p[2] * 2
  <2> DEFINE i == p[1]
             j == p[2]
  <2>1. i \in Nat /\ i < h /\ j \in Nat /\ j < w
    BY DEF PixelsOf
  <2> HIDE DEF i, j, w, h
  <2> DEFINE x == j + 1
  <2>2. x \in Nat /\ x <= w
    BY <1>1, <2>1
  <2> HIDE DEF x
  <2>3. i * w + x <= h * w
    BY <1>1, <2>1, <2>2, RowInside
  <2>4. i * w \in Nat /\ h * w = w * h /\ i * (w * 2) = 2 * (i * w)
    BY <1>1, <2>1
  <2>5. i * w + j \in 0..(w * h - 1) /\ 2 * (i * w + j) = i * (w * 2) + j * 2
    BY <1>1, <2>1, <2>3, <2>4 DEF x
  <2> QED
    BY <2>5 DEF i, j, w
<1>3. ASSUME NEW k \in 0..(w * h - 1)
      PROVE  \E p \in PixelsOf(c) : 2 * k = p[1] * (w * 2) + p[2] * 2
  <2> DEFINE i == k \div w
             j == k - i * w
  <2>1. k \in Nat /\ k < w * h
    BY <1>1
  <2> HIDE DEF w, h
  <2>2. i \in Nat /\ i * w <= k /\ k < i * w + w
    BY <1>1, <2>1, DivBounds
  <2> HIDE DEF i
  <2>3. i < h
    <3> SUFFICES ASSUME h <= i
                 PROVE  FALSE
      BY <1>1, <2>2
    <3>1. h * w <= i * w
      BY <1>1, <2>2, ProdMono
    <3> QED
      BY <1>1, <2>1, <2>2, <3>1
  <2>4. i * w \in Nat /\ i * (w * 2) = 2 * (i * w)
    BY <1>1, <2>2
  <2>5. j \in Nat /\ j < w /\ k = i * w + j
    BY <1>1, <2>1, <2>2, <2>4
  <2> HIDE DEF j
  <2>6. 2 * k = i * (w * 2) + j * 2
    BY <2>1, <2>4, <2>5
  <2>7. <<i, j>> \in PixelsOf(c)
    BY <1>1, <2>2, <2>3, <2>5 DEF PixelsOf, w, h
  <2> QED
    BY <2>6, <2>7
<1> QED
    BY <1>2, <1>3 DEF FilBmp

\* The bytes of a pixel in the file.
LEMMA PixelBytes ==
    /\ 16 \div 8 = 2 /\ 24 \div 8 = 3 /\ 32 \div 8 = 4
    OBVIOUS

\* A bitmap of any size is read from its file and written into its memory, pixel
\* beside pixel.
THEOREM EveryBitmapFits ==
    ASSUME NEW c \in AskableBitmap, NEW answer, answer.room = Loaded(c).room, answer.moves = Loaded(c).moves,
           answer.fil = FilBmp(c.width, c.height)
    PROVE  BitmapFits(c, answer)
<1> DEFINE kept    == Kept(c)
           bpp     == c.bits \div 8
           regular == c.bits = 24 \/ c.bits = 8 * kept
           step    == IF bpp = 3 \/ c.way = "image" THEN kept ELSE bpp
           stride  == CASE c.way = "map" -> c.width * 2 [] c.way = "canvas" -> c.canvas.stride
                        [] c.way = "image" -> IF c.canvas.stride = 0 THEN c.width * kept ELSE c.canvas.stride
           m       == CopyRows(c, stride, step, step)
<1> SUFFICES ASSUME c.bits > 8, c.canvas.stride > 0 => c.width * kept <= c.canvas.stride /\ c.height <= c.canvas.height
             PROVE  /\ \A p \in DOMAIN answer.moves : answer.moves[p].from + bpp <= FileStride(c) * c.height
                    /\ c.way = "map" \/ regular =>
                          \A p \in DOMAIN answer.moves : answer.moves[p].to + answer.moves[p].len <= answer.room
                    /\ regular /\ c.way = "map" /\ answer.moves # <<>> =>
                          answer.fil = {answer.moves[p].to : p \in DOMAIN answer.moves}
                    /\ regular => \A p, q \in DOMAIN answer.moves : p # q =>
                          /\ \/ answer.moves[p].to + answer.moves[p].len <= answer.moves[q].to
                             \/ answer.moves[q].to + answer.moves[q].len <= answer.moves[p].to
                          /\ p[1] < q[1] => /\ answer.moves[p].to < answer.moves[q].to
                                            /\ answer.moves[p].from > answer.moves[q].from
    BY DEF BitmapFits
<1>1. /\ c.width \in Nat \ {0} /\ c.height \in Nat \ {0} /\ c.bits \in {16, 24, 32} /\ c.way \in {"map", "canvas", "image"}
      /\ c.canvas.stride \in Nat /\ c.canvas.height \in Nat
      /\ c.way = "map" => c.fmt # "8888" /\ c.canvas.stride = 0
      /\ c.way = "canvas" => c.canvas.stride > 0
    BY DEF AskableBitmap
<1>2. /\ bpp \in {2, 3, 4} /\ (bpp = 2 <=> c.bits = 16) /\ (bpp = 3 <=> c.bits = 24) /\ (bpp = 4 <=> c.bits = 32)
    BY <1>1, PixelBytes
<1>3. kept \in {2, 4} /\ (c.way = "map" => kept = 2) /\ (c.way = "image" => (kept = 4 <=> bpp > 2))
    BY <1>1, <1>2 DEF Kept
<1>4. /\ step \in Nat \ {0} /\ (regular => step = kept) /\ (c.way = "map" => step <= bpp)
      /\ c.way = "image" => step = kept
  <2> HIDE DEF kept, bpp
  <2>1. regular => bpp = 3 \/ bpp = kept
    BY <1>2, <1>3
  <2> QED
    BY <1>2, <1>3, <2>1
<1>5. /\ stride \in Nat /\ (c.way # "map" => c.width * kept <= stride) /\ (c.way = "map" => stride = c.width * 2)
  <2> HIDE DEF kept
  <2>1. c.width * kept \in Nat /\ c.width * 2 \in Nat
    BY <1>1, <1>3
  <2> QED
    BY <1>1, <2>1
<1>6. /\ answer.moves = m
      /\ c.way = "map" => answer.room = c.width * bpp * c.height
      /\ c.way # "map" => answer.room \in Nat /\ stride * c.height <= answer.room
  <2>1. CASE c.way = "map"
    <3>1. Loaded(c) = LoadBmpEx(c, c.fmt) /\ c.fmt # "8888"
      BY <1>1, <2>1 DEF Loaded
    <3>2. LogoStride(c, c.fmt) = stride
      BY <3>1, <2>1 DEF LogoStride
    <3>3. kept = 2 /\ step = IF bpp = 3 THEN 2 ELSE bpp
      BY <1>3, <2>1
    <3> HIDE DEF stride, kept, step
    <3>4. answer.moves = CopyBmpData(c, c.fmt, stride) /\ answer.room = c.width * bpp * c.height
      <4>1. Loaded(c) = [room |-> c.width * bpp * c.height, moves |-> CopyBmpData(c, c.fmt, stride)]
        BY <3>1, <3>2, Zenon DEF LoadBmpEx
      <4> QED
        BY <4>1
    <3>5. CopyBmpData(c, c.fmt, stride) = m
      BY <3>1, <3>3 DEF CopyBmpData
    <3> HIDE DEF m, bpp
    <3> QED
      BY <2>1, <3>4, <3>5
  <2>2. CASE c.way = "canvas"
    <3>1. Loaded(c) = LoadBmpCanvas(c, c.fmt, c.canvas)
      BY <2>2 DEF Loaded
    <3>2. stride = c.canvas.stride
      BY <2>2
    <3>3. kept = (IF c.fmt = "8888" THEN 4 ELSE 2) /\ step = IF bpp = 3 THEN kept ELSE bpp
      BY <2>2 DEF Kept
    <3> HIDE DEF stride, kept, step
    <3>4. answer.moves = CopyBmpData(c, c.fmt, stride) /\ answer.room = stride * c.canvas.height
      <4>1. Loaded(c) = [room |-> stride * c.canvas.height, moves |-> CopyBmpData(c, c.fmt, stride)]
        BY <3>1, <3>2, Zenon DEF LoadBmpCanvas
      <4> QED
        BY <4>1
    <3>5. c.height <= c.canvas.height
      BY <1>1, <2>2
    <3>6. CopyBmpData(c, c.fmt, stride) = m
      BY <3>3 DEF CopyBmpData
    <3> HIDE DEF m, bpp
    <3>7. stride * c.height <= stride * c.canvas.height /\ stride * c.canvas.height \in Nat
      BY <1>1, <1>5, <3>5, ProdMono
    <3> QED
      BY <2>2, <3>4, <3>6, <3>7
  <2>3. CASE c.way = "image"
    <3>1. Loaded(c) = LoadBmp(c, c.canvas.stride)
      BY <2>3 DEF Loaded
    <3>2. stride = IF c.canvas.stride = 0 THEN c.width * kept ELSE c.canvas.stride
      BY <2>3
    <3>3. step = kept /\ kept = (IF bpp > 2 THEN 4 ELSE 2) /\ bpp >= 2
      BY <1>2, <1>3, <2>3
    <3>4. IsSupportBmpFile(c, 2)
      BY <3>3 DEF IsSupportBmpFile
    <3> HIDE DEF stride, kept, step
    <3>5. answer.moves = m /\ answer.room = stride * c.height
      BY <3>1, <3>2, <3>3, <3>4 DEF LoadBmp
    <3> HIDE DEF m, bpp
    <3>6. stride * c.height \in Nat
      BY <1>1, <1>5
    <3> QED
      BY <2>3, <3>5, <3>6
  <2> QED
    BY <1>1, <2>1, <2>2, <2>3
<1>7. /\ DOMAIN m = PixelsOf(c)
      /\ \A p \in PixelsOf(c) : /\ m[p].from + bpp <= FileStride(c) * c.height
                                /\ m[p].to = p[1] * stride + p[2] * step /\ m[p].len = step
      /\ c.width * step <= stride =>
            \A p, q \in PixelsOf(c) : p # q =>
               /\ m[p].to + m[p].len <= m[q].to \/ m[q].to + m[q].len <= m[p].to
               /\ p[1] < q[1] => m[p].to < m[q].to /\ m[p].from > m[q].from
  <2> HIDE DEF stride, step
  <2>1. bpp = c.bits \div 8
    OBVIOUS
  <2> HIDE DEF bpp, m
  <2>2. RowsTurned(c, bpp, stride, step)
    BY <1>1, <1>2, <1>4, <1>5, <2>1, RowsCopied
  <2> QED
    BY <2>2, Zenon DEF RowsTurned, m
<1>8. regular => c.width * step <= stride
  <2> HIDE DEF stride, step, kept, regular
  <2> QED
    BY <1>3, <1>4, <1>5
<1> HIDE DEF m, stride, step, kept, bpp, regular
<1>9. ASSUME c.way = "map" \/ regular, NEW p \in PixelsOf(c)
      PROVE  m[p].to + m[p].len <= answer.room
  <2>1. CASE c.way # "map"
    <3>1. c.width * step <= stride
      BY <1>8, <1>9, <2>1
    <3>2. p[1] * stride + p[2] * step + step <= stride * c.height
      BY <1>1, <1>4, <1>5, <3>1, WrittenInside
    <3>3. m[p].to + m[p].len <= stride * c.height
      BY <1>7, <3>2
    <3>4. p[1] \in Nat /\ p[2] \in Nat
      BY DEF PixelsOf
    <3>5. m[p].to + m[p].len \in Nat /\ stride * c.height \in Nat
      <4>1. p[1] * stride \in Nat /\ p[2] * step \in Nat /\ stride * c.height \in Nat
        BY <1>1, <1>4, <1>5, <3>4
      <4> QED
        BY <1>4, <1>7, <4>1
    <3>6. stride * c.height <= answer.room /\ answer.room \in Nat
      BY <1>6, <2>1
    <3> QED
      BY <3>3, <3>5, <3>6
  <2>2. CASE c.way = "map"
    <3> DEFINE wide == c.width * bpp
    <3>1. wide \in Nat /\ c.width * step <= wide /\ stride <= wide /\ answer.room = wide * c.height
      BY <1>1, <1>2, <1>4, <1>5, <1>6, <2>2, ProdMono
    <3> HIDE DEF wide
    <3>2. p[1] * wide + p[2] * step + step <= wide * c.height
      BY <1>1, <1>4, <3>1, WrittenInside
    <3>3. p[1] \in Nat /\ p[2] \in Nat
      BY DEF PixelsOf
    <3>4. p[1] * stride <= p[1] * wide /\ p[1] * stride \in Nat /\ p[1] * wide \in Nat
      BY <1>5, <3>1, <3>3, ProdMono
    <3>5. p[2] * step \in Nat /\ wide * c.height \in Nat /\ step \in Nat
      BY <1>1, <1>4, <3>1, <3>3
    <3>6. p[1] * stride + p[2] * step + step <= wide * c.height
      BY <3>2, <3>4, <3>5
    <3>7. m[p].to = p[1] * stride + p[2] * step /\ m[p].len = step
      BY <1>7
    <3> QED
      BY <3>1, <3>6, <3>7
  <2> QED
    BY <2>1, <2>2
<1>10. regular /\ c.way = "map" => answer.fil = {m[p].to : p \in PixelsOf(c)}
  <2> SUFFICES ASSUME regular, c.way = "map"
               PROVE  answer.fil = {m[p].to : p \in PixelsOf(c)}
    OBVIOUS
  <2>1. \A p \in PixelsOf(c) : m[p].to = p[1] * (c.width * 2) + p[2] * 2
    BY <1>3, <1>4, <1>5, <1>7
  <2>2. answer.fil = {p[1] * (c.width * 2) + p[2] * 2 : p \in PixelsOf(c)}
    BY <1>1, LookedAt
  <2> QED
    BY <2>1, <2>2, Zenon
<1>11. answer.moves = m /\ DOMAIN answer.moves = PixelsOf(c)
    BY <1>6, <1>7
<1>12. \A p \in PixelsOf(c) : m[p].from + bpp <= FileStride(c) * c.height
    BY <1>7
<1>13. c.way = "map" \/ regular => \A p \in PixelsOf(c) : m[p].to + m[p].len <= answer.room
    BY <1>9
<1>14. regular => \A p, q \in PixelsOf(c) : p # q =>
               /\ m[p].to + m[p].len <= m[q].to \/ m[q].to + m[q].len <= m[p].to
               /\ p[1] < q[1] => m[p].to < m[q].to /\ m[p].from > m[q].from
    BY <1>7, <1>8
<1> QED
    BY <1>10, <1>11, <1>12, <1>13, <1>14

-----------------------------------------------------------------------------
(* The file of a fixed pattern.                                            *)

\* What may be saved and asked for: frames of any size, with any gain.
AskableFpn ==
    [what : {"fpn"}, saved_size : (Nat \ {0}) \X (Nat \ {0}), saved_mode : FpnModes, iso : Nat,
     size : (Nat \ {0}) \X (Nat \ {0}), bits : {8, 10, 12, 14, 16}, mode : FpnModes, scene : Nat]

\* The frame's block has a number of words.
LEMMA FrameWords ==
    ASSUME NEW size \in (Nat \ {0}) \X (Nat \ {0}), NEW bits \in {8, 10, 12, 14, 16}, NEW mode \in FpnModes
    PROVE  BlkSize(size, bits, mode) \in Nat
<1> DEFINE asked == [width |-> size[1], height |-> size[2], align |-> DefaultAlign, bit_width |-> bits, format |-> "raw",
                     compress_mode |-> mode]
           block == GetPicBufCfg(asked).vb_size
<1>1. size[1] \in Nat /\ size[1] > 0 /\ size[2] \in Nat /\ size[2] > 0 /\ bits \in Nat /\ bits > 0
    OBVIOUS
<1>2. block \in Nat
  <2>1. CASE TooLarge(size[1], size[2])
    <3>1. GetPicBufCfg(asked) = NoBlock
      BY <2>1 DEF GetPicBufCfg
    <3> QED
      BY <3>1 DEF NoBlock
  <2>2. CASE ~TooLarge(size[1], size[2])
    <3>1. [asked EXCEPT !.align = Alignment(@)] = asked
      BY DEF Alignment, DefaultAlign, MaxAlign, AlignUp
    <3>2. GetPicBufCfg(asked) = ViRawBuf(asked, bits)
      BY <2>2, <3>1 DEF GetPicBufCfg
    <3>3. Sized(asked) /\ asked.compress_mode \in {"none", "line"} /\ asked.height \in Nat
      BY <1>1 DEF Sized, DefaultAlign, FpnModes
    <3> HIDE DEF asked
    <3>4. CASE asked.compress_mode = "none"
      <4>1. GetPicBufCfg(asked).vb_size = RawNone(asked, bits) * asked.height
        BY <3>2, <3>3, <3>4, RawVbSize
      <4>2. RawNone(asked, bits) \in Nat
        BY <1>1, <3>3, RawNoneHolds
      <4> QED
        BY <3>3, <4>1, <4>2, ProdMono
    <3>5. CASE asked.compress_mode = "line"
      <4>1. GetPicBufCfg(asked).vb_size = RawLine(asked, bits) * asked.height
        BY <3>2, <3>3, <3>5, RawVbSize
      <4>2. RawLine(asked, bits) \in Nat
        BY <1>1, <3>3, RawLineHolds
      <4> QED
        BY <3>3, <4>1, <4>2, ProdMono
    <3> QED
      BY <3>3, <3>4, <3>5
  <2> QED
    BY <2>1, <2>2
<1>3. BlkSize(size, bits, mode) = block \div 4
    BY DEF BlkSize
<1> HIDE DEF block
<1> QED
    BY <1>2, <1>3

\* A function of the first numbers is a sequence as long.
LEMMA OfLength ==
    ASSUME NEW S, NEW n \in Nat, NEW s \in [1..n -> S]
    PROVE  s \in Seq(S) /\ Len(s) = n
<1>1. s \in Seq(S)
    BY SeqDef
<1>2. Len(s) \in Nat /\ DOMAIN s = 1..Len(s) /\ DOMAIN s = 1..n
    BY <1>1, LenProperties
<1> DEFINE l == Len(s)
<1> HIDE DEF l
<1>3. l \in Nat /\ 1..l = 1..n
    BY <1>2 DEF l
<1>4. \A k \in Nat : k \in 1..l <=> k \in 1..n
    BY <1>3
<1>5. ~(l < n) /\ ~(n < l)
  <2>1. l \in 1..l <=> l \in 1..n
    BY <1>3, <1>4
  <2>2. n \in 1..l <=> n \in 1..n
    BY <1>4
  <2> QED
    BY <1>3, <2>1, <2>2
<1> QED
    BY <1>1, <1>3, <1>5 DEF l

\* A frame's words, three offsets and three more words.
FileParts(file, n, s, t, a, b, e) ==
    /\ DOMAIN file = 1..(n + 6)
    /\ \A k \in 1..n : file[k] = s[k]
    /\ \A i \in 1..3 : file[n + i] = t[i]
    /\ file[n + 4] = a /\ file[n + 5] = b /\ file[n + 6] = e

\* They are found one behind the other.
LEMMA InThreeParts ==
    ASSUME NEW S, NEW n \in Nat, NEW s \in [1..n -> S], NEW t \in [1..3 -> S], NEW a \in S, NEW b \in S, NEW e \in S
    PROVE  FileParts(s \o t \o <<a, b, e>>, n, s, t, a, b, e)
<1> DEFINE u == <<a, b, e>>
           file == s \o t \o u
<1>1. s \in Seq(S) /\ t \in Seq(S) /\ u \in Seq(S) /\ Len(s) = n /\ Len(t) = 3 /\ Len(u) = 3
  <2>1. u \in [1..3 -> S]
    OBVIOUS
  <2> HIDE DEF u
  <2> QED
    BY <2>1, OfLength
<1>2. u[1] = a /\ u[2] = b /\ u[3] = e
    OBVIOUS
<1> HIDE DEF u
<1> DEFINE v == s \o t
<1>3. v \in Seq(S) /\ Len(v) = n + 3 /\ \A k \in 1..(n + 3) : v[k] = IF k <= n THEN s[k] ELSE t[k - n]
  <2>1. /\ s \o t \in Seq(S) /\ Len(s \o t) = Len(s) + Len(t)
        /\ \A k \in 1..(Len(s) + Len(t)) : (s \o t)[k] = IF k <= Len(s) THEN s[k] ELSE t[k - Len(s)]
    BY <1>1, ConcatProperties, Zenon
  <2> HIDE DEF v
  <2>2. v = s \o t
    BY DEF v
  <2> QED
    BY <1>1, <2>1, <2>2, Zenon
<1> HIDE DEF v
<1> DEFINE f == v \o u
<1>4. f \in Seq(S) /\ Len(f) = n + 6 /\ \A k \in 1..(n + 6) : f[k] = IF k <= n + 3 THEN v[k] ELSE u[k - (n + 3)]
  <2>1. /\ v \o u \in Seq(S) /\ Len(v \o u) = Len(v) + Len(u)
        /\ \A k \in 1..(Len(v) + Len(u)) : (v \o u)[k] = IF k <= Len(v) THEN v[k] ELSE u[k - Len(v)]
    BY <1>1, <1>3, ConcatProperties, Zenon
  <2>2. n + 3 + 3 = n + 6
    OBVIOUS
  <2> HIDE DEF f
  <2>3. f = v \o u
    BY DEF f
  <2> QED
    BY <1>1, <1>3, <2>1, <2>2, <2>3, Zenon
<1>5. file = f
    BY DEF v
<1> HIDE DEF f, file
<1>6. DOMAIN file = 1..(n + 6)
    BY <1>4, <1>5
<1>7. \A k \in 1..n : file[k] = s[k]
    BY <1>3, <1>4, <1>5
<1>8. \A i \in 1..3 : file[n + i] = t[i]
  <2> TAKE i \in 1..3
  <2> DEFINE k == n + i
  <2>1. k \in 1..(n + 3) /\ k \in 1..(n + 6) /\ ~(k <= n) /\ k <= n + 3 /\ k - n = i
    OBVIOUS
  <2> HIDE DEF k
  <2>2. file[k] = t[i]
    BY <1>3, <1>4, <1>5, <2>1
  <2> QED
    BY <2>2 DEF k
<1>9. \A i \in 1..3 : file[n + 3 + i] = u[i]
  <2> TAKE i \in 1..3
  <2> DEFINE k == n + 3 + i
  <2>1. k \in 1..(n + 6) /\ ~(k <= n + 3) /\ k - (n + 3) = i
    OBVIOUS
  <2> HIDE DEF k
  <2>2. file[k] = u[i]
    BY <1>4, <1>5, <2>1
  <2> QED
    BY <2>2 DEF k
<1>10. file[n + 4] = a /\ file[n + 5] = b /\ file[n + 6] = e
  <2>1. n + 3 + 1 = n + 4 /\ n + 3 + 2 = n + 5 /\ n + 3 + 3 = n + 6
    OBVIOUS
  <2> QED
    BY <1>2, <1>9, <2>1
<1> QED
    BY <1>6, <1>7, <1>8, <1>10 DEF FileParts, file, u

\* A frame of any size and gain that is found again, in the mode it was
\* calibrated in, comes back as it was, and is read as it was saved.
THEOREM EveryPatternReturns ==
    ASSUME NEW c \in AskableFpn
    PROVE  FpnReturns(c, CorrectionAttr(c))
<1> DEFINE saved == Saved(c)
           n     == BlkSize(c.saved_size, CalibrateBits, c.saved_mode)
           file  == SaveFpnFile(saved)
           blk   == BlkSize(c.size, c.bits, c.mode)
           answer == CorrectionAttr(c)
           info  == ReadFpnFile(file, blk)
<1>1. /\ c.saved_size \in (Nat \ {0}) \X (Nat \ {0}) /\ c.saved_mode \in FpnModes /\ c.iso \in Nat
      /\ c.size \in (Nat \ {0}) \X (Nat \ {0}) /\ c.bits \in {8, 10, 12, 14, 16} /\ c.mode \in FpnModes /\ c.scene \in Nat
    BY DEF AskableFpn
<1>2. n \in Nat
  <2>1. CalibrateBits \in {8, 10, 12, 14, 16}
    BY DEF CalibrateBits
  <2> QED
    BY <1>1, <2>1, FrameWords
<1>3. /\ saved.frm_size = n /\ saved.offset = [i \in 1..SplitNodeNum |-> 10 * i]
      /\ saved.compress_mode = ModeNumber(c.saved_mode) /\ saved.iso = c.iso
    BY DEF Saved
<1> HIDE DEF n, saved
<1> DEFINE s == [k \in 1..n |-> <<"raw", k>>]
           t == [i \in 1..3 |-> <<"offset", saved.offset[i]>>]
           a == <<"mode", saved.compress_mode>>
           b == <<"size", n>>
           e == <<"iso", saved.iso>>
           S == {"raw", "offset", "mode", "size", "iso"} \X Int
<1>4. s \in [1..n -> S] /\ t \in [1..3 -> S] /\ a \in S /\ b \in S /\ e \in S
  <2>1. s \in [1..n -> S] /\ b \in S
    BY <1>2
  <2>2. saved.compress_mode \in Int /\ saved.iso \in Int
    BY <1>1, <1>3 DEF ModeNumber
  <2>3. \A i \in 1..3 : saved.offset[i] \in Int
    BY <1>3 DEF SplitNodeNum
  <2> QED
    BY <2>1, <2>2, <2>3
<1>5. file = s \o t \o <<a, b, e>>
    BY <1>3 DEF SaveFpnFile, SplitNodeNum
<1> HIDE DEF s, t, a, b, e, S, file
<1>6. /\ DOMAIN file = 1..(n + 6) /\ \A k \in 1..n : file[k] = s[k]
      /\ \A i \in 1..3 : file[n + i] = t[i]
      /\ file[n + 4] = a /\ file[n + 5] = b /\ file[n + 6] = e
  <2>1. FileParts(s \o t \o <<a, b, e>>, n, s, t, a, b, e)
    BY <1>2, <1>4, InThreeParts
  <2>2. FileParts(file, n, s, t, a, b, e)
    BY <1>5, <2>1
  <2> QED
    BY <2>2 DEF FileParts
<1>7. /\ \A k \in 1..n : Word(file, k) = s[k]
      /\ \A i \in 1..3 : Word(file, n + i) = t[i]
      /\ Word(file, n + 4) = a /\ Word(file, n + 5) = b /\ Word(file, n + 6) = e
    BY <1>2, <1>6 DEF Word
<1>8. ASSUME blk = n
      PROVE  /\ info.frame = [k \in 1..n |-> <<"raw", k>>] /\ info.offset = [i \in 1..SplitNodeNum |-> <<"offset", saved.offset[i]>>]
             /\ info.compress_mode = a /\ info.frm_size = b /\ info.iso = e
             /\ DOMAIN info = {"frame", "offset", "compress_mode", "frm_size", "iso"}
  <2>1. info = [frame |-> [k \in 1..n |-> Word(file, k)], offset |-> [i \in 1..3 |-> Word(file, n + i)],
                compress_mode |-> Word(file, n + 3 + 1), frm_size |-> Word(file, n + 3 + 2), iso |-> Word(file, n + 3 + 3)]
    BY <1>8 DEF ReadFpnFile, SplitNodeNum
  <2>2. n + 3 + 1 = n + 4 /\ n + 3 + 2 = n + 5 /\ n + 3 + 3 = n + 6
    BY <1>2
  <2>3. [k \in 1..n |-> Word(file, k)] = [k \in 1..n |-> <<"raw", k>>]
    BY <1>7 DEF s
  <2>4. [i \in 1..3 |-> Word(file, n + i)] = [i \in 1..3 |-> <<"offset", saved.offset[i]>>]
    BY <1>7 DEF t
  <2>5. info = [frame |-> [k \in 1..n |-> <<"raw", k>>], offset |-> [i \in 1..3 |-> <<"offset", saved.offset[i]>>],
                compress_mode |-> a, frm_size |-> b, iso |-> e]
    BY <1>7, <2>1, <2>2, <2>3, <2>4
  <2> QED
    BY <2>5 DEF SplitNodeNum
<1> HIDE DEF info, blk
<1>9. /\ answer.blk_size = blk
      /\ answer.found => c.size = c.saved_size /\ c.bits = CalibrateBits /\ (c.scene # 0 => c.scene = c.iso)
      /\ c.scene = 0 => answer.info = info
      /\ c.scene # 0 => answer.info = [info EXCEPT !.iso = <<"iso", c.scene>>, !.compress_mode = <<"mode", ModeNumber(c.mode)>>,
                                          !.offset = [i \in 1..SplitNodeNum |-> <<"offset", 0>>]]
    BY DEF CorrectionAttr, FpnFileName, FpnFileNameIso, info, file, saved, blk
<1> HIDE DEF answer
<1> SUFFICES ASSUME answer.found, c.mode = c.saved_mode
             PROVE  /\ answer.info.frame = [k \in 1..n |-> <<"raw", k>>]
                    /\ answer.info.frm_size = <<"size", answer.blk_size>>
                    /\ answer.info.iso = <<"iso", saved.iso>> /\ answer.info.compress_mode = <<"mode", saved.compress_mode>>
                    /\ c.scene = 0 => answer.info.offset = [i \in 1..SplitNodeNum |-> <<"offset", saved.offset[i]>>]
    BY <1>3 DEF FpnReturns, saved, answer
<1>10. blk = n
    BY <1>9 DEF blk, n
<1>11. CASE c.scene = 0
    BY <1>8, <1>9, <1>10, <1>11 DEF a, b, e
<1>12. CASE c.scene # 0
  <2>1. /\ answer.info.frame = info.frame /\ answer.info.frm_size = info.frm_size /\ answer.info.iso = <<"iso", c.scene>>
        /\ answer.info.compress_mode = <<"mode", ModeNumber(c.mode)>>
    BY <1>8, <1>9, <1>10, <1>12
  <2> QED
    BY <1>3, <1>8, <1>9, <1>10, <1>12, <2>1 DEF b
<1> QED
    BY <1>11, <1>12

-----------------------------------------------------------------------------
(* Every call.                                                             *)

\* What a call of each kind that is spoken of below is asked with.
Asked(c) ==
    /\ c.what = "venc"    => c \in VencParams
    /\ c.what = "aac"     => c \in Adjustable
    /\ c.what = "decoder" => c \in AskableDecoder
    /\ c.what = "block"   => c \in Askable
    /\ c.what = "coder"   => c \in AskableCoder
    /\ c.what = "map"     => c \in AskableMap
    /\ c.what = "share"   => c \in ShareCalls
    /\ c.what = "windows" => c \in Layers
    /\ c.what = "picture" => c \in Points
    /\ c.what = "regions" => c \in RegionCalls
    /\ c.what = "bitmap"  => c \in AskableBitmap
    /\ c.what = "roi"     => c \in AskableRoi
    /\ c.what = "label"   => c \in LabelCalls
    /\ c.what = "mat"     => c \in AskableMat
    /\ c.what = "ring"    => c \in AskableRing
    /\ c.what = "planes"  => c.size \in Nat
    /\ c.what = "fpn"     => c \in AskableFpn

Spoken == {"venc", "aac", "decoder", "block", "coder", "map", "share", "windows", "picture", "route", "regions",
           "bitmap", "roi", "label", "mat", "ring", "planes", "fpn", "pace"}
Unspoken == {"pools", "blobs", "stream", "screen", "size", "thumb", "colour", "report", "links", "chain",
             "lines", "model", "scores", "rois", "thresholds", "user_pic"}

\* What holds of the answer, and what is known of it when the same is asked
\* again.
Told(c, o) ==
    /\ c.what = "venc"    => RatesCoherent(c, o)
    /\ c.what = "aac"     => AdviceHolds(c, o)
    /\ c.what = "decoder" => DecoderFits(c, o)
    /\ c.what = "block"   => BlockFits(c, o)
    /\ c.what = "coder"   => CoderFits(c, o)
    /\ c.what = "map"     => MapsFit(c, o)
    /\ c.what = "share"   => SharedFairly(c, o)
    /\ c.what = "windows" => WindowsFit(c, o)
    /\ c.what = "picture" => BoxReturns(c, o)
    /\ c.what = "route"   => ViewsFit(c.sns, o.views)
    /\ c.what = "regions" => RegionsFit(c, o)
    /\ c.what = "bitmap"  => BitmapFits(c, o) /\ ClutKept(c, o)
    /\ c.what = "roi"     => RoiMarked(c, o)
    /\ c.what = "label"   => LabelFits(c, o)
    /\ c.what = "mat"     => MatPlaced(c, o)
    /\ c.what = "ring"    => RingSaved(c, o)
    /\ c.what = "planes"  => PlanesPaired(c, o)
    /\ c.what = "fpn"     => FpnReturns(c, o)
    /\ c.what # "pace"

\* The inductive invariant: what is asked is what may be asked, the answer is
\* right, and a thread that sends in time knows what has passed.
CallsInv ==
    /\ Asked(call)
    /\ phase = "done" => Told(call, out)
    /\ call.what = "pace" /\ phase = "busy" => PaceKnown(out)

\* Nothing is said of the kinds that are not spoken of.
LEMMA Silent ==
    ASSUME NEW c, c.what \in Unspoken
    PROVE  Asked(c) /\ c.what \notin Spoken /\ \A o : Told(c, o)
    BY DEF Asked, Told, Unspoken, Spoken

\* What is asked is as wide as what is spoken of.
LEMMA BlocksAsked == ASSUME NEW c \in BlockCalls PROVE c \in Askable /\ c.what = "block"
<1>1. \A s \in PictureSizes : s[1] \in Nat \ {0} /\ s[2] \in Nat \ {0}
    BY DEF PictureSizes
<1>2. PictureBlocks \subseteq Askable
    BY <1>1, SMTT(60) DEF PictureBlocks, Askable
<1>3. RawBlocks \subseteq Askable
    BY <1>1 DEF RawBlocks, Askable
<1>4. c \in Askable
    BY <1>2, <1>3 DEF BlockCalls
<1> QED
    BY <1>4 DEF Askable

\* The same of coders.
LEMMA CodersAsked == ASSUME NEW c \in CoderCalls PROVE c \in AskableCoder /\ c.what = "coder"
<1>1. \A s \in PictureSizes : s[1] \in Nat \ {0} /\ s[2] \in Nat \ {0}
    BY DEF PictureSizes
<1>2. CoderCalls \subseteq AskableCoder
    BY <1>1, SMTT(60) DEF CoderCalls, AskableCoder
<1> QED
    BY <1>2 DEF AskableCoder

\* The same of maps.
LEMMA MapsAsked == ASSUME NEW c \in MapCalls PROVE c \in AskableMap /\ c.what = "map"
<1>1. \A s \in PictureSizes : s[1] \in Nat \ {0} /\ s[2] \in Nat \ {0}
    BY DEF PictureSizes
<1>2. MapCalls \subseteq AskableMap
    BY <1>1 DEF MapCalls, AskableMap
<1> QED
    BY <1>2 DEF AskableMap

\* The same of Mats: what is 6 wide is a head.
LEMMA MatsAsked == ASSUME NEW c \in MatCalls PROVE c \in AskableMat /\ c.what = "mat"
<1> USE DEF AskableMat, Volume
<1>1. Elements \subseteq (Nat \ {0}) \X (Nat \ {0})
    BY DEF Elements
<1>2. ASSUME NEW dims \in {3, 4}, NEW w \in {1, 3, 5}, NEW h \in {1, 2, 3}, NEW d \in {1, 2}, NEW k \in {1, 3},
             NEW e \in Elements,
             c = [what |-> "mat", dims |-> dims, shape |-> Volume(w, h, IF dims = 4 THEN d ELSE 1, k), elem |-> e]
      PROVE  c \in AskableMat
  <2>1. e \in (Nat \ {0}) \X (Nat \ {0})
      BY <1>1
  <2> QED
      BY <1>2, <2>1
<1>3. ASSUME NEW g \in Heads, c = [what |-> "mat", dims |-> 4, shape |-> Volume(6, g, g, 3), elem |-> <<4, 1>>]
      PROVE  c \in AskableMat
    BY <1>3 DEF Heads
<1>4. CASE \E dims \in {3, 4}, w \in {1, 3, 5}, h \in {1, 2, 3}, d \in {1, 2}, k \in {1, 3}, e \in Elements :
              c = [what |-> "mat", dims |-> dims, shape |-> Volume(w, h, IF dims = 4 THEN d ELSE 1, k), elem |-> e]
  <2>1. PICK dims \in {3, 4}, w \in {1, 3, 5}, h \in {1, 2, 3}, d \in {1, 2}, k \in {1, 3}, e \in Elements :
              c = [what |-> "mat", dims |-> dims, shape |-> Volume(w, h, IF dims = 4 THEN d ELSE 1, k), elem |-> e]
    BY <1>4
  <2> HIDE DEF AskableMat, Volume
  <2> QED
    BY <1>2, <2>1
<1>5. CASE \E g \in Heads : c = [what |-> "mat", dims |-> 4, shape |-> Volume(6, g, g, 3), elem |-> <<4, 1>>]
    BY <1>3, <1>5
<1> QED
    BY <1>4, <1>5 DEF MatCalls

\* Each kind of call is told from the others, and may be asked.
LEMMA CallsAsked ==
    /\ \A c \in VencParams    : c.what = "venc"
    /\ \A c \in AacAttrs      : c.what = "aac" /\ c \in Adjustable
    /\ \A c \in Layers        : c.what = "windows"
    /\ \A c \in Points        : c.what = "picture"
    /\ \A c \in RouteCalls    : c.what = "route"
    /\ \A c \in RegionCalls   : c.what = "regions"
    /\ \A c \in BitmapCalls   : c.what = "bitmap" /\ c \in AskableBitmap
    /\ \A c \in RoiCalls      : c.what = "roi" /\ c \in AskableRoi
    /\ \A c \in LabelCalls    : c.what = "label"
    /\ \A c \in ShareCalls    : c.what = "share"
    /\ \A c \in PaceCalls     : c.what = "pace"
    /\ \A c \in DecoderCalls  : c.what = "decoder" /\ c \in AskableDecoder
    /\ \A c \in RingCalls     : c.what = "ring" /\ c \in AskableRing
    /\ \A c \in PlaneCalls    : c.what = "planes" /\ c.size \in Nat
    /\ \A c \in FpnCalls      : c.what = "fpn" /\ c \in AskableFpn
<1>1. \A c \in VencParams : c.what = "venc"
    BY DEF VencParams
<1>2. \A c \in AacAttrs : c.what = "aac" /\ c \in Adjustable
    BY DEF AacAttrs, Adjustable, AacTypes
<1>3. \A c \in Layers : c.what = "windows"
    BY DEF Layers
<1>4. \A c \in Points : c.what = "picture"
    BY DEF Points
<1>5. \A c \in RouteCalls : c.what = "route"
    BY DEF RouteCalls, Keys
<1>6. \A c \in RegionCalls : c.what = "regions"
    BY DEF RegionCalls
<1>7. \A c \in BitmapCalls : c.what = "bitmap" /\ c \in AskableBitmap
    BY DEF BitmapCalls, AskableBitmap
<1>8. \A c \in RoiCalls : c.what = "roi" /\ c \in AskableRoi
    <2> TAKE c \in RoiCalls
    <2>1. /\ c.what = "roi" /\ c.x \in {0, 16, 48, 64, 80} /\ c.y \in {0, 16, 32}
          /\ c.width \in {8, 16, 32, 48, 64, 80, 96, 112} /\ c.height \in {8, 16, 40, 48}
          /\ c.size \in {<<128, 48>>, <<1040, 48>>, <<80, 80>>, <<64, 1600>>}
          /\ c.x + c.width <= c.size[1] /\ c.y + c.height <= c.size[2]
          /\ c = [what |-> c.what, x |-> c.x, y |-> c.y, width |-> c.width, height |-> c.height, size |-> c.size]
        BY DEF RoiCalls
    <2>2. c.x % BlockSize = 0 /\ c.y % BlockSize = 0
        BY <2>1 DEF BlockSize
    <2>3. ~TooLarge(c.size[1], c.size[2]) /\ c.size \in Nat \X Nat
        BY <2>1 DEF TooLarge, MaxiNumLimit
    <2>4. c.x \in Nat /\ c.y \in Nat /\ c.width \in Nat /\ c.height \in Nat
        BY <2>1
    <2> QED
        BY <2>1, <2>2, <2>3, <2>4 DEF AskableRoi
<1>9. \A c \in LabelCalls : c.what = "label"
    BY DEF LabelCalls
<1>10. \A c \in ShareCalls : c.what = "share"
    BY DEF ShareCalls
<1>11. \A c \in PaceCalls : c.what = "pace"
    BY DEF PaceCalls
<1>12. \A c \in DecoderCalls : c.what = "decoder" /\ c \in AskableDecoder
    BY DEF DecoderCalls, AskableDecoder
<1>13. \A c \in RingCalls : c.what = "ring" /\ c \in AskableRing
    BY DEF RingCalls, AskableRing
<1>14. \A c \in PlaneCalls : c.what = "planes" /\ c.size \in Nat
    BY DEF PlaneCalls
<1>15. \A c \in FpnCalls : c.what = "fpn" /\ c \in AskableFpn
    BY DEF FpnCalls, FpnSizes, AskableFpn
<1> QED
    BY <1>1, <1>2, <1>3, <1>4, <1>5, <1>6, <1>7, <1>8, <1>9, <1>10, <1>11, <1>12, <1>13, <1>14, <1>15

\* The other kinds are not spoken of.
LEMMA OthersAsked ==
    /\ \A c \in PoolCalls \cup Blobs \cup StreamCalls \cup ScreenCalls \cup PictureCalls : c.what \in Unspoken
    /\ \A c \in ThumbCalls(MaxFile) \cup ColourCalls \cup ReportCalls : c.what \in Unspoken
    /\ \A c \in ListCalls \cup TensorCalls \cup UserCalls : c.what \in Unspoken
<1> USE DEF Unspoken
<1>1. \A c \in PoolCalls : c.what = "pools"
    BY DEF PoolCalls
<1>2. \A c \in Blobs : c.what = "blobs"
    BY DEF Blobs
<1>3. \A c \in StreamCalls : c.what = "stream"
    BY DEF StreamCalls
<1>4. \A c \in ScreenCalls : c.what = "screen"
    BY DEF ScreenCalls
<1>5. \A c \in PictureCalls : c.what = "size"
    BY DEF PictureCalls
<1>6. \A c \in ThumbCalls(MaxFile) : c.what = "thumb"
    BY DEF ThumbCalls
<1>7. \A c \in ColourCalls : c.what = "colour"
    BY DEF ColourCalls
<1>8. \A c \in ReportCalls : c.what = "report"
    BY DEF ReportCalls
<1>9. \A c \in ListCalls : c.what \in {"links", "chain"}
    BY DEF ListCalls
<1>10. \A c \in TensorCalls : c.what \in {"lines", "model", "scores", "rois", "thresholds"}
    BY DEF TensorCalls
<1>11. \A c \in UserCalls : c.what = "user_pic"
    BY DEF UserCalls
<1> QED
    BY <1>1, <1>2, <1>3, <1>4, <1>5, <1>6, <1>7, <1>8, <1>9, <1>10, <1>11

-----------------------------------------------------------------------------
(* The invariant.                                                          *)

\* What is asked first may be asked.
LEMMA AskedFirst == Init => CallsInv
<1> SUFFICES ASSUME Init
             PROVE  Asked(call)
    BY DEF CallsInv, Init
<1>1. CASE call \in PoolCalls \cup Blobs \cup StreamCalls \cup ScreenCalls \cup PictureCalls
    BY <1>1, OthersAsked, Silent
<1>2. CASE call \in ThumbCalls(MaxFile) \cup ColourCalls \cup ReportCalls
    BY <1>2, OthersAsked, Silent
<1>3. CASE call \in ListCalls \cup TensorCalls \cup UserCalls
    BY <1>3, OthersAsked, Silent
<1>4. CASE call \in BlockCalls
    BY <1>4, BlocksAsked DEF Asked
<1>5. CASE call \in CoderCalls
    BY <1>5, CodersAsked DEF Asked
<1>6. CASE call \in MapCalls
    BY <1>6, MapsAsked DEF Asked
<1>7. CASE call \in VencParams \cup AacAttrs \cup DecoderCalls \cup ShareCalls
    BY <1>7, CallsAsked DEF Asked
<1>8. CASE call \in Layers \cup Points \cup RouteCalls
    BY <1>8, CallsAsked DEF Asked
<1>9. CASE call \in RegionCalls \cup BitmapCalls \cup RoiCalls \cup LabelCalls \cup PaceCalls
    BY <1>9, CallsAsked DEF Asked
<1>10. CASE call \in MatCalls
    BY <1>10, MatsAsked DEF Asked
<1>11. CASE call \in RingCalls \cup PlaneCalls \cup FpnCalls
    BY <1>11, CallsAsked DEF Asked
<1> QED
    BY <1>1, <1>2, <1>3, <1>4, <1>5, <1>6, <1>7, <1>8, <1>9, <1>10, <1>11 DEF Init

\* An answer of those that are not spoken of says nothing of the others.
LEMMA SilentStep ==
    ASSUME CallsInv, call' = call, call.what \in Unspoken
    PROVE  CallsInv'
<1>1. call'.what \in Unspoken
    OBVIOUS
<1> QED
    BY <1>1, Silent DEF CallsInv, Spoken

\* An answer to what was asked, if it is right.
LEMMA AnsweredStep ==
    ASSUME CallsInv, NEW answer, Answers(answer), Asked(call) => Told(call, answer)
    PROVE  CallsInv'
    BY DEF CallsInv, Answers

\* Each answer, to what may be asked, is right.
LEMMA CoderSteps ==
    ASSUME CallsInv, CreateChannel \/ OpenEncoder \/ ConfigDecoder
    PROVE  CallsInv'
<1>1. Asked(call)
    BY DEF CallsInv
<1>2. CASE CreateChannel
  <2>1. call.what = "venc" /\ Answers(VencCreate(call)) /\ call \in VencParams
    BY <1>1, <1>2 DEF CreateChannel, Asks, Asked
  <2>2. Told(call, VencCreate(call))
    BY <2>1, EveryChannelCoherent DEF Told
  <2> QED
    BY <2>1, <2>2, AnsweredStep
<1>3. CASE OpenEncoder
  <2>1. call.what = "aac" /\ Answers(CheckAndInit(call)) /\ call \in Adjustable
    BY <1>1, <1>3 DEF OpenEncoder, Asks, Asked
  <2>3. AdviceHolds(call, CheckAndInit(call))
    BY <2>1, EveryAdviceHolds
  <2>4. Told(call, CheckAndInit(call))
    BY <2>1, <2>3 DEF Told
  <2> QED
    BY <2>1, <2>4, AnsweredStep
<1>4. CASE ConfigDecoder
  <2> DEFINE answer == [attr |-> ConfigAttr(call), vb |-> VbSize(call)]
  <2>1. call.what = "decoder" /\ Answers(answer) /\ call \in AskableDecoder
    BY <1>1, <1>4 DEF ConfigDecoder, Asks, Asked
  <2>2. Told(call, answer)
    BY <2>1, EveryDecoderFits DEF Told
  <2> QED
    BY <2>1, <2>2, AnsweredStep
<1> QED
    BY <1>2, <1>3, <1>4

\* The answers of ot_buffer.h and of the Mats are right.
LEMMA PoolSteps ==
    ASSUME CallsInv, AskBlock \/ AskCoder \/ AskMaps \/ ShareMat
    PROVE  CallsInv'
<1>1. Asked(call)
    BY DEF CallsInv
<1>2. CASE AskBlock
  <2>1. call.what = "block" /\ Answers(Block(call)) /\ call \in Askable
    BY <1>1, <1>2 DEF AskBlock, Asks, Asked
  <2>2. Told(call, Block(call))
    BY <2>1, EveryBlockFits DEF Told
  <2> QED
    BY <2>1, <2>2, AnsweredStep
<1>3. CASE AskCoder
  <2>1. call.what = "coder" /\ Answers(CoderBlocks(call)) /\ call \in AskableCoder
    BY <1>1, <1>3 DEF AskCoder, Asks, Asked
  <2>2. Told(call, CoderBlocks(call))
    BY <2>1, EveryCoderFits DEF Told
  <2> QED
    BY <2>1, <2>2, AnsweredStep
<1>4. CASE AskMaps
  <2>1. call.what = "map" /\ Answers(Maps(call)) /\ call \in AskableMap
    BY <1>1, <1>4 DEF AskMaps, Asks, Asked
  <2>2. Told(call, Maps(call))
    BY <2>1, EveryMapFits DEF Told
  <2> QED
    BY <2>1, <2>2, AnsweredStep
<1>5. CASE ShareMat
  <2>1. call.what = "share" /\ Answers(Shared(call)) /\ call \in ShareCalls
    BY <1>1, <1>5 DEF ShareMat, Asks, Asked
  <2>2. Told(call, Shared(call))
    BY <2>1, EveryShareFair DEF Told
  <2> QED
    BY <2>1, <2>2, AnsweredStep
<1> QED
    BY <1>2, <1>3, <1>4, <1>5

\* The answers of the layers, of the detector and of the routes are right.
LEMMA PlaceSteps ==
    ASSUME CallsInv, StartWindows \/ FindObject \/ SetUpRoute
    PROVE  CallsInv'
<1>1. Asked(call)
    BY DEF CallsInv
<1>2. CASE StartWindows
  <2> DEFINE answer == StartChn(call.mode, call.width, call.height)
  <2>1. call.what = "windows" /\ Answers(answer) /\ call \in Layers
    BY <1>1, <1>2 DEF StartWindows, Asks, Asked
  <2>2. call.mode \in DOMAIN WndInfo /\ call.width \in Nat /\ call.height \in Nat
    BY <2>1 DEF Layers
  <2>3. Told(call, answer)
    BY <2>1, <2>2, EveryWindowFits DEF Told
  <2> QED
    BY <2>1, <2>3, AnsweredStep
<1>3. CASE FindObject
  <2> DEFINE answer == Restore(call, Convert(call))
  <2>1. call.what = "picture" /\ Answers(answer) /\ call \in Points
    BY <1>1, <1>3 DEF FindObject, Asks, Asked
  <2>2. /\ call.width \in Nat /\ call.height \in Nat /\ call.x \in Nat /\ call.y \in Nat
        /\ call.x < call.width /\ call.y < call.height
    BY <2>1 DEF Points
  <2>3. Told(call, answer)
    BY <2>1, <2>2, EveryBoxReturns DEF Told
  <2> QED
    BY <2>1, <2>3, AnsweredStep
<1>4. CASE SetUpRoute
  <2> DEFINE answer == Route(call.route, call.sns, call.ch)
  <2>1. call.what = "route" /\ Answers(answer)
    BY <1>4 DEF SetUpRoute, Asks
  <2>2. Told(call, answer)
    BY <2>1, EveryViewFits DEF Told
  <2> QED
    BY <2>1, <2>2, AnsweredStep
<1> QED
    BY <1>2, <1>3, <1>4

\* The answers of the regions, the bitmaps, the maps of regions and the labels
\* are right.
LEMMA RegionSteps ==
    ASSUME CallsInv, AttachRegions \/ LoadBitmap \/ MarkRoi \/ DrawLabel
    PROVE  CallsInv'
<1>1. Asked(call)
    BY DEF CallsInv
<1>2. CASE AttachRegions
  <2>1. call.what = "regions" /\ Answers(Attached(call)) /\ call \in RegionCalls
    BY <1>1, <1>2 DEF AttachRegions, Asks, Asked, Attached
  <2>2. Told(call, Attached(call))
    BY <2>1, EveryRegionFits DEF Told
  <2> QED
    BY <2>1, <2>2, AnsweredStep
<1>3. CASE LoadBitmap
  <2>1. Answers([room |-> Loaded(call).room, moves |-> Loaded(call).moves, fil |-> FilBmp(call.width, call.height),
                 clut |-> ClutData(call)])
    BY <1>3, Zenon DEF LoadBitmap, Loaded
  <2> DEFINE answer == [room |-> Loaded(call).room, moves |-> Loaded(call).moves, fil |-> FilBmp(call.width, call.height),
                        clut |-> ClutData(call)]
  <2>2. call.what = "bitmap" /\ call \in AskableBitmap
    BY <1>1, <1>3 DEF LoadBitmap, Asks, Asked
  <2>3. call.width \in Nat /\ call.height \in Nat
    BY <2>2 DEF AskableBitmap
  <2>4. /\ answer.clut = ClutData(call) /\ answer.room = Loaded(call).room /\ answer.moves = Loaded(call).moves
        /\ answer.fil = FilBmp(call.width, call.height)
    OBVIOUS
  <2>5. Answers(answer)
    BY <2>1
  <2> HIDE DEF answer
  <2>6. ClutKept(call, answer)
    BY <2>3, <2>4, EveryClutKept
  <2>7. BitmapFits(call, answer)
    BY <2>2, <2>4, EveryBitmapFits
  <2>8. Told(call, answer)
    BY <2>2, <2>6, <2>7 DEF Told
  <2> QED
    BY <2>5, <2>8, AnsweredStep
<1>4. CASE MarkRoi
  <2> DEFINE answer == [marks |-> ProcessJpegRoi(call, RoimapStride("jpeg", call.size[1])),
                        stride |-> RoimapStride("jpeg", call.size[1]),
                        size |-> RoimapSize("jpeg", call.size[1], call.size[1])]
  <2>1. call.what = "roi" /\ Answers(answer) /\ call \in AskableRoi
    BY <1>1, <1>4 DEF MarkRoi, Asks, Asked
  <2>2. /\ answer.stride = RoimapStride("jpeg", call.size[1])
        /\ answer.size = RoimapSize("jpeg", call.size[1], call.size[1])
        /\ answer.marks = ProcessJpegRoi(call, answer.stride)
    OBVIOUS
  <2> HIDE DEF answer
  <2>3. RoiMarked(call, answer)
    BY <2>1, <2>2, EveryRoiMarked
  <2>4. Told(call, answer)
    BY <2>1, <2>3 DEF Told
  <2> QED
    BY <2>1, <2>4, AnsweredStep
<1>5. CASE DrawLabel
  <2>1. call.what = "label" /\ Answers(DrawObjects(call)) /\ call \in LabelCalls
    BY <1>1, <1>5 DEF DrawLabel, Asks, Asked
  <2>2. call.x \in Nat /\ call.y \in Nat /\ call.width \in Nat /\ call.height \in Nat /\ call.cols \in Nat
    BY <2>1 DEF LabelCalls
  <2>3. Told(call, DrawObjects(call))
    BY <2>1, <2>2, EveryLabelFits DEF Told
  <2> QED
    BY <2>1, <2>3, AnsweredStep
<1> QED
    BY <1>2, <1>3, <1>4, <1>5

\* What is saved from a ring, joined from planes, laid out as a Mat or read from
\* a fixed pattern's file is right.
LEMMA LaidSteps ==
    ASSUME CallsInv, SaveRing \/ JoinPlanes \/ LayMat \/ CorrectFpn
    PROVE  CallsInv'
<1>1. Asked(call)
    BY DEF CallsInv
<1>2. CASE SaveRing
  <2>1. call.what = "ring" /\ Answers(SaveStreamPhysAddr(call.ring, call)) /\ call \in AskableRing
    BY <1>1, <1>2 DEF SaveRing, Asks, Asked
  <2>2. Told(call, SaveStreamPhysAddr(call.ring, call))
    BY <2>1, EveryPackSaved DEF Told
  <2> QED
    BY <2>1, <2>2, AnsweredStep
<1>3. CASE JoinPlanes
  <2>1. call.what = "planes" /\ Answers(PlanToSemi(call.size)) /\ call.size \in Nat
    BY <1>1, <1>3 DEF JoinPlanes, Asks, Asked
  <2>2. Told(call, PlanToSemi(call.size))
    BY <2>1, EveryPlanePaired DEF Told
  <2> QED
    BY <2>1, <2>2, AnsweredStep
<1>4. CASE LayMat
  <2>1. call.what = "mat" /\ Answers(CreatedFor(call)) /\ call \in AskableMat
    BY <1>1, <1>4 DEF LayMat, Asks, Asked, CreatedFor
  <2>2. Told(call, CreatedFor(call))
    BY <2>1, EveryMatPlaced DEF Told
  <2> QED
    BY <2>1, <2>2, AnsweredStep
<1>5. CASE CorrectFpn
  <2>1. call.what = "fpn" /\ Answers(CorrectionAttr(call)) /\ call \in AskableFpn
    BY <1>1, <1>5 DEF CorrectFpn, Asks, Asked
  <2>2. Told(call, CorrectionAttr(call))
    BY <2>1, EveryPatternReturns DEF Told
  <2> QED
    BY <2>1, <2>2, AnsweredStep
<1> QED
    BY <1>2, <1>3, <1>4, <1>5

\* A thread that sends in time goes on knowing what has passed.
LEMMA PaceSteps ==
    ASSUME CallsInv, BeginPace \/ SendInTime
    PROVE  CallsInv'
<1>1. call' = call /\ phase' = "busy" /\ call.what = "pace"
    BY DEF BeginPace, SendInTime, Asks
<1>2. CASE BeginPace
  <2>1. out' = NotSent
    BY <1>2 DEF BeginPace
  <2>2. PaceKnown(NotSent)
    BY DEF NotSent, PaceKnown, KeepsPace
  <2> QED
    BY <1>1, <2>1, <2>2 DEF CallsInv
<1>3. CASE SendInTime
  <2>1. PICK wait \in 0..(Beat + MaxLate) : Due(out, wait) /\ out' = HandleSendStream(out, wait)
    BY <1>3 DEF SendInTime
  <2>2. Beat \in Nat /\ wait \in Nat
    BY <2>1, TimesAssumption
  <2>3. PaceKnown(out)
    BY <1>1, <1>3 DEF CallsInv, SendInTime
  <2>4. PaceKnown(out')
    BY <2>1, <2>2, <2>3, EveryPictureInTime
  <2> QED
    BY <1>1, <2>4 DEF CallsInv
<1> QED
    BY <1>2, <1>3

\* The others leave what is asked as it is.
LEMMA SilentSteps ==
    ASSUME CallsInv,
           \/ ConfigPools \/ SetUpScreen \/ NamePicture \/ FindThumb \/ MixColour
           \/ WriteReport \/ LinkLists \/ ChainLists \/ AskTensor \/ ShowUserPic
           \/ Goes \/ EndStream
    PROVE  CallsInv'
<1> USE DEF Asks, Answers, Unspoken
<1>1. call' = call
    BY DEF ConfigPools, SetUpScreen, NamePicture, FindThumb, MixColour, WriteReport,
           LinkLists, ChainLists, AskTensor, ShowUserPic, Goes, BlobToRect, GetThresh, BeginStream,
           SendStreamProcess, EndStream
<1>2. CASE ConfigPools \/ SetUpScreen \/ NamePicture \/ FindThumb \/ MixColour
    BY <1>1, <1>2, SilentStep DEF ConfigPools, SetUpScreen, NamePicture, FindThumb, MixColour
<1>3. CASE WriteReport \/ LinkLists \/ ChainLists \/ AskTensor \/ ShowUserPic
    BY <1>1, <1>3, SilentStep DEF WriteReport, LinkLists, ChainLists, AskTensor, TensorQuestions,
       ShowUserPic
<1>4. CASE Goes \/ EndStream
    BY <1>1, <1>4, SilentStep DEF Goes, BlobToRect, GetThresh, BeginStream, SendStreamProcess, EndStream
<1> QED
    BY <1>2, <1>3, <1>4

\* The invariant holds whatever is asked.
THEOREM CallsSafe == Spec => []CallsInv
<1>1. CallsInv /\ [Next]_callVars => CallsInv'
  <2> SUFFICES ASSUME CallsInv, [Next]_callVars
               PROVE  CallsInv'
    OBVIOUS
  <2>1. CASE CreateChannel \/ OpenEncoder \/ ConfigDecoder
    BY <2>1, CoderSteps
  <2>3. CASE AskBlock \/ AskCoder \/ AskMaps \/ ShareMat
    BY <2>3, PoolSteps
  <2>4. CASE StartWindows \/ FindObject \/ SetUpRoute
    BY <2>4, PlaceSteps
  <2>5. CASE AttachRegions \/ LoadBitmap \/ MarkRoi \/ DrawLabel
    BY <2>5, RegionSteps
  <2>6. CASE BeginPace \/ SendInTime
    BY <2>6, PaceSteps
  <2>7. CASE \/ ConfigPools \/ SetUpScreen \/ NamePicture \/ FindThumb \/ MixColour
             \/ WriteReport \/ LinkLists \/ ChainLists \/ AskTensor \/ ShowUserPic
             \/ Goes \/ EndStream
    BY <2>7, SilentSteps
  <2>8. CASE SaveRing \/ JoinPlanes \/ LayMat \/ CorrectFpn
    BY <2>8, LaidSteps
  <2>9. CASE UNCHANGED callVars
    BY <2>9 DEF callVars, CallsInv
  <2> QED
    BY <2>1, <2>3, <2>4, <2>5, <2>6, <2>7, <2>8, <2>9 DEF Next
<1> QED
    BY <1>1, AskedFirst, PTL DEF Spec

\* What is asked of a coder fits it, whatever channel, encoder or decoder it
\* is.
THEOREM AttributesSafe == Spec => []AttributesHold
<1>1. CallsInv => AttributesHold
    BY DEF CallsInv, Told, AttributesHold, Answered
<1> QED
    BY <1>1, CallsSafe, PTL

\* What is set aside is enough for what is put there, for every size, and goes
\* with its last user.
THEOREM PoolsSafe == Spec => []PoolsServe
<1>1. CallsInv => PoolsServe
    BY DEF CallsInv, Told, PoolsServe, Answered
<1> QED
    BY <1>1, CallsSafe, PTL

\* Whatever is placed is placed where it belongs.
THEOREM PlacesSafe == Spec => []PlacesHold
<1>1. CallsInv => PlacesHold
    BY DEF CallsInv, Told, PlacesHold, Answered
<1> QED
    BY <1>1, CallsSafe, PTL

\* No picture of a thread that sends them in time runs ahead of the beat.
THEOREM BeatSafe == Spec => []BeatKept
<1>1. CallsInv => BeatKept
    BY DEF CallsInv, PaceKnown, BeatKept
<1> QED
    BY <1>1, CallsSafe, PTL
=============================================================================
