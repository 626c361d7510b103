--------------------------------- MODULE ApngProofs --------------------------
(***************************************************************************)
(* apng.c and apng_save.c, for any file and any animation.  Blending keeps *)
(* what rounding can keep.  A load keeps the layers that the chunks        *)
(* describe, and gives the verdict they deserve; a save writes a valid     *)
(* file or none; and what is saved loads back.  Everything that a file has *)
(* of some kind is named by its position, so that a chunk that is added    *)
(* changes little.                                                         *)
(***************************************************************************)
EXTENDS ApngRoundTrip, ApngBlend, CountingProofs, TLAPS

------------------------------------------------------------------------------
(* apng_blend_over                                                           *)

\* A product with a factor of at most 255.
LEMMA ProductBound ==
  ASSUME NEW a \in Nat, NEW b \in Nat, NEW m \in Nat, b <= m
  PROVE  a * b \in Nat /\ a * b <= a * m
<1>1. PICK k \in Nat : m = b + k
  BY SMT
<1>2. a * m = a * b + a * k
  BY <1>1, SMT
<1>3. a * k \in Nat /\ a * b \in Nat
  BY <1>1, SMT
<1> QED
  BY <1>2, <1>3, SMT

\* The quotient by 255.
LEMMA Quotient ==
  ASSUME NEW x \in Nat
  PROVE  /\ x \div 255 \in Nat
         /\ 255 * (x \div 255) <= x
         /\ x < 255 * (x \div 255) + 255
  BY SMT

\* The alpha left by a half-transparent sample lies between both alphas and 255.
LEMMA OutAlphaBounds ==
  ASSUME NEW a \in 1..254, NEW b \in 0..255
  PROVE  /\ OutAlpha(a, b) \in 1..255
         /\ OutAlpha(a, b) >= a /\ OutAlpha(a, b) >= b
         /\ b = 255 => OutAlpha(a, b) = 255
         /\ b = 0 => OutAlpha(a, b) = a
<1> DEFINE p == b * (255 - a)
           q == p \div 255
<1>1. p \in Nat /\ p <= (255 - a) * 255
  <2>1. 255 - a \in Nat /\ b \in Nat /\ 255 \in Nat /\ b <= 255
    BY SMT
  <2>2. (255 - a) * b \in Nat /\ (255 - a) * b <= (255 - a) * 255
    <3> HIDE DEF p, q
    <3> QED
      BY <2>1, ProductBound, Zenon
  <2> QED
    BY <2>2, SMT
<1>2. q \in Nat /\ 255 * q <= p /\ p < 255 * q + 255
  <2> HIDE DEF p
  <2> QED
    BY <1>1, Quotient
<1>3. p = 255 * b - a * b /\ a * b <= a * 255
  <2>1. a \in Nat /\ b \in Nat /\ b <= 255
    BY SMT
  <2>2. a * b <= a * 255
    BY <2>1, ProductBound
  <2> QED
    BY <2>2, SMT
<1>4. OutAlpha(a, b) = a + q
  BY DEF OutAlpha
<1>5. b = 255 => p = 255 * (255 - a)
  BY SMT
<1>6. b = 0 => p = 0
  BY SMT
<1> DEFINE ab == a * b
<1>7. ab \in Int
  BY SMT
<1> HIDE DEF ab, p, q
<1>8. p = 255 * b - ab /\ ab <= a * 255
  BY <1>3 DEF ab
<1> QED
  BY <1>1, <1>2, <1>4, <1>5, <1>6, <1>7, <1>8, SMT

\* A byte is stored as it is.
LEMMA SmallByte ==
  ASSUME NEW v \in 0..255
  PROVE  uint8(v) = v
BY SMT DEF uint8

\* Whatever is stored in a byte is one.
LEMMA AnyByte ==
  ASSUME NEW v \in Int
  PROVE  uint8(v) \in 0..255
BY SMT DEF uint8

\* Over an opaque pixel the weights sum to 255, and nothing is lost.
LEMMA WeightedOverOpaque ==
  ASSUME NEW x \in 0..255, NEW a \in 1..254, NEW y \in 0..255
  PROVE  Weighted(x, a, y, 255) = x * a + y * (255 - a)
<1> DEFINE n == y * (255 - a)
<1>1. n \in Nat
  <2>1. y \in Nat /\ 255 - a \in Nat
    BY SMT
  <2>2. y <= 255 /\ 255 - a <= 255
    BY SMT
  <2> QED
    BY <2>1, <2>2, ProductBound
<1>2. y * 255 * (255 - a) = 255 * n
  BY SMT
<1>3. (255 * n) \div 255 = n
  <2> HIDE DEF n
  <2> QED
    BY <1>1, SMT
<1> QED
  BY <1>2, <1>3 DEF Weighted

\* A mean weighted by the alpha lies between what it is the mean of.
LEMMA MeanIsBetween ==
  ASSUME NEW x \in 0..255, NEW a \in 1..254, NEW y \in 0..255
  PROVE  /\ (x * a + y * (255 - a)) \div 255 \in 0..255
         /\ Between((x * a + y * (255 - a)) \div 255, x, y)
<1> DEFINE b == 255 - a
<1>1. a \in Nat /\ b \in Nat /\ a + b = 255 /\ x \in Nat /\ y \in Nat
  BY SMT
<1>2. ASSUME NEW low \in Nat, NEW high \in Nat, high <= 255,
             NEW u \in Nat, NEW w \in Nat, u + w = 255, low <= high
      PROVE  /\ (low * u + high * w) \div 255 \in 0..255
             /\ low <= (low * u + high * w) \div 255
             /\ (low * u + high * w) \div 255 <= high
  <2> DEFINE lu == low * u
             hw == high * w
  <2>1. u * low <= u * high /\ w * low <= w * high
    BY <1>2, ProductBound
  <2>2. u * low \in Nat /\ w * high \in Nat
    BY <1>2, ProductBound
  <2>3. u * low + w * low = 255 * low
    BY <1>2, SMT
  <2>4. u * high + w * high = 255 * high
    BY <1>2, SMT
  <2>5. lu = u * low /\ hw = w * high
    BY SMT
  <2> DEFINE ul == u * low
             wl == w * low
             uh == u * high
             wh == w * high
  <2>6. wl \in Int /\ uh \in Int
    BY SMT
  <2>7. /\ ul <= uh /\ wl <= wh /\ ul \in Nat /\ wh \in Nat
        /\ ul + wl = 255 * low /\ uh + wh = 255 * high
        /\ lu = ul /\ hw = wh
    BY <2>1, <2>2, <2>3, <2>4, <2>5
  <2> HIDE DEF ul, wl, uh, wh, lu, hw
  <2>8. lu + hw \in Nat /\ 255 * low <= lu + hw /\ lu + hw <= 255 * high
    BY <2>6, <2>7, <1>2, SMT
  <2> DEFINE n == lu + hw
  <2>9. n \in Nat /\ 255 * low <= n /\ n <= 255 * high
    BY <2>8
  <2> HIDE DEF n
  <2>10. n \div 255 \in 0..255 /\ low <= n \div 255 /\ n \div 255 <= high
    BY <2>9, <1>2, SMT
  <2> QED
    BY <2>10 DEF n, lu, hw
<1>3. CASE x <= y
  <2>1. y <= 255 /\ a \in Nat /\ b \in Nat /\ a + b = 255
    BY <1>1, SMT
  <2> HIDE DEF b
  <2>2. /\ (x * a + y * b) \div 255 \in 0..255
        /\ x <= (x * a + y * b) \div 255
        /\ (x * a + y * b) \div 255 <= y
    BY <2>1, <1>1, <1>2, <1>3, ZenonT(40)
  <2> QED
    BY <2>2 DEF Between, b
<1>4. CASE ~(x <= y)
  <2>1. x <= 255 /\ y <= x /\ b + a = 255
    BY <1>1, <1>4, SMT
  <2> HIDE DEF b
  <2>2. /\ (y * b + x * a) \div 255 \in 0..255
        /\ y <= (y * b + x * a) \div 255
        /\ (y * b + x * a) \div 255 <= x
    BY <2>1, <1>1, <1>2, ZenonT(40)
  <2>3. y * b + x * a = x * a + y * b
    BY <1>1, SMT
  <2> QED
    BY <2>2, <2>3 DEF Between, b
<1> QED
  BY <1>3, <1>4

\* Over a clear pixel the sample's colour comes back exactly.
LEMMA WeightedOverClear ==
  ASSUME NEW x \in 0..255, NEW a \in 1..254, NEW y \in 0..255
  PROVE  Weighted(x, a, y, 0) \div a = x
<1>1. (y * 0 * (255 - a)) \div 255 = 0
  BY SMT
<1>2. Weighted(x, a, y, 0) = x * a
  BY <1>1, SMT DEF Weighted
<1>3. (x * a) \div a = x
  <2> DEFINE q == (x * a) \div a
  <2>1. x * a \in Nat /\ a \in Nat /\ a > 0
    BY SMT
  <2> QED
    BY <2>1, SMT
<1> QED
  BY <1>2, <1>3

-----------------------------------------------------------------------------
\* Samples and canvas stay bytes.
THEOREM BytesStayBytes == BlendSpec => []BlendTypeOK
<1>1. BlendInit => BlendTypeOK
  BY SMT DEF BlendInit, BlendTypeOK
<1>2. BlendTypeOK /\ [BlendNext]_blendVars => BlendTypeOK'
  <2> SUFFICES ASSUME BlendTypeOK, BlendNext PROVE BlendTypeOK'
    BY DEF blendVars, BlendTypeOK
  <2>1. PICK x \in Colours, a \in Alphas : Lay(x, a)
    BY DEF BlendNext
  <2>2. s' \in 0..255 /\ sa' \in 0..255
    BY <2>1, BlendAssumption DEF Lay
  <2>3. CASE Replace
    BY <2>2, <2>3, SMT DEF Replace, BlendTypeOK
  <2>4. CASE Keep
    BY <2>2, <2>4, SMT DEF Keep, BlendTypeOK
  <2>5. CASE Over
    <3>1. sa' \in 1..254
      BY <2>2, <2>5, SMT DEF Over
    <3>2. da \in 0..255 /\ d \in 0..255
      BY DEF BlendTypeOK
    <3>3. OutAlpha(sa', da) \in 1..255
      BY <3>1, <3>2, OutAlphaBounds
    <3>4. da' \in 0..255
      BY <2>5, <3>3, SmallByte DEF Over
    <3>5. d' \in 0..255
      <4>1. Weighted(s', sa', d, da) \in Int
        BY <2>2, <3>2, SMT DEF Weighted
      <4>2. Weighted(s', sa', d, da) \div OutAlpha(sa', da) \in Int
        <5> HIDE DEF Weighted, OutAlpha
        <5> QED
          BY <4>1, <3>3, SMT
      <4> QED
        BY <2>5, <4>2, AnyByte DEF Over
    <3> QED
      BY <2>2, <3>4, <3>5 DEF BlendTypeOK
  <2> QED
    BY <2>1, <2>3, <2>4, <2>5 DEF Lay
<1> QED
  BY <1>1, <1>2, PTL DEF BlendSpec

\* What a step of drawing does to the alpha and to the colour.
LEMMA OneStep ==
  ASSUME BlendTypeOK, BlendNext
  PROVE  /\ da' >= da /\ da' >= sa'
         /\ sa' # 0 => /\ da = 255 => Between(d', s', d)
                       /\ da = 0 => d' = s'
<1>1. PICK x \in Colours, a \in Alphas : Lay(x, a)
  BY DEF BlendNext
<1>2. s' \in 0..255 /\ sa' \in 0..255 /\ d \in 0..255 /\ da \in 0..255
  BY <1>1, BlendAssumption DEF Lay, BlendTypeOK
<1>3. CASE Replace
  BY <1>2, <1>3, SMT DEF Replace, Between
<1>4. CASE Keep
  BY <1>2, <1>4, SMT DEF Keep
<1>5. CASE Over
  <2>1. sa' \in 1..254
    BY <1>2, <1>5, SMT DEF Over
  <2>2. /\ OutAlpha(sa', da) \in 1..255
        /\ OutAlpha(sa', da) >= sa' /\ OutAlpha(sa', da) >= da
        /\ da = 255 => OutAlpha(sa', da) = 255
        /\ da = 0 => OutAlpha(sa', da) = sa'
    BY <1>2, <2>1, OutAlphaBounds
  <2>3. da' = OutAlpha(sa', da)
    BY <1>5, <2>2, SmallByte DEF Over
  <2>4. ASSUME da = 255 PROVE Between(d', s', d)
    <3> DEFINE mean == (s' * sa' + d * (255 - sa')) \div 255
    <3>1. d' = uint8(mean)
      <4>1. d' = uint8(Weighted(s', sa', d, 255) \div 255)
        BY <1>5, <2>2, <2>4 DEF Over
      <4>2. Weighted(s', sa', d, 255) = s' * sa' + d * (255 - sa')
        <5> DEFINE W(p, q, r) == Weighted(p, q, r, 255)
                   M(p, q, r) == p * q + r * (255 - q)
        <5>1. \A p \in 0..255, q \in 1..254, r \in 0..255 : W(p, q, r) = M(p, q, r)
          BY WeightedOverOpaque
        <5> HIDE DEF W, M
        <5>2. W(s', sa', d) = M(s', sa', d)
          BY <1>2, <2>1, <5>1
        <5> QED
          BY <5>2 DEF W, M
      <4> QED
        BY <4>1, <4>2, Zenon
    <3>2. mean \in 0..255 /\ Between(mean, s', d)
      BY <1>2, <2>1, MeanIsBetween, ZenonT(40)
    <3> HIDE DEF mean
    <3> QED
      BY <3>1, <3>2, SmallByte
  <2>5. ASSUME da = 0 PROVE d' = s'
    <3>1. d' = uint8(Weighted(s', sa', d, 0) \div sa')
      BY <1>5, <2>2, <2>5 DEF Over
    <3>2. Weighted(s', sa', d, 0) \div sa' = s'
      BY <1>2, <2>1, WeightedOverClear
    <3> QED
      BY <1>2, <3>1, <3>2, SmallByte
  <2> QED
    BY <2>2, <2>3, <2>4, <2>5
<1> QED
  BY <1>1, <1>3, <1>4, <1>5 DEF Lay

\* Drawing never makes a pixel more transparent.
THEOREM AlphaOnlyGrows == BlendSpec => AlphaNeverFalls
<1>1. BlendTypeOK /\ [BlendNext]_blendVars => [da' >= da /\ da' >= sa']_blendVars
  BY OneStep
<1> QED
  BY <1>1, BytesStayBytes, PTL DEF BlendSpec, AlphaNeverFalls

\* Blending is exact over a clear canvas and a mean over an opaque one.
THEOREM BlendingIsSoundThere == BlendSpec => ExactOverOpaqueAndClear
<1>1. BlendTypeOK /\ [BlendNext]_blendVars =>
        [ sa' # 0 => /\ da = 255 => Between(d', s', d)
                     /\ da = 0 => d' = s' ]_blendVars
  BY OneStep
<1> QED
  BY <1>1, BytesStayBytes, PTL DEF BlendSpec, ExactOverOpaqueAndClear

(* Blending, for every sample and canvas, keeps what rounding can keep.       *)
THEOREM BlendingIsSound == BlendSpec => BlendIsSound
  BY AlphaOnlyGrows, BlendingIsSoundThere DEF BlendIsSound


------------------------------------------------------------------------------
(* A file that grows by a chunk.                                             *)

\* Some sequence: of what is not known to a decoder that reads any file.
IsSequence(x) == \E S : x \in Seq(S)

\* The places of the chunks of a kind are some of the places of the file.
LEMMA PositionsAre ==
  ASSUME IsSequence(file), NEW K
  PROVE  /\ Positions(K) \subseteq 1..Len(file) /\ Positions(K) \in SUBSET Nat
         /\ IsFiniteSet(Positions(K)) /\ Cardinality(Positions(K)) \in 0..Len(file)
         /\ Len(file) \in Nat
<1>1. Positions(K) \subseteq 1..Len(file) /\ Len(file) \in Nat
  <2>1. PICK S : file \in Seq(S)
    BY DEF IsSequence
  <2> QED
    BY <2>1, LenProperties DEF Positions
<1>2. IsFiniteSet(1..Len(file)) /\ Cardinality(1..Len(file)) = Len(file)
  <2>1. \A n \in Nat : IsFiniteSet(1..n) /\ Cardinality(1..n) = n
    BY FS_Interval
  <2> QED
    BY <1>1, <2>1
<1>3. IsFiniteSet(Positions(K)) /\ Cardinality(Positions(K)) <= Len(file)
  BY <1>1, <1>2, FS_Subset
<1>4. Cardinality(Positions(K)) \in Nat
  BY <1>3, FS_CardinalityType
<1> QED
  BY <1>1, <1>3, <1>4

\* The file after one more chunk.
LEMMA FileGrows ==
  ASSUME IsSequence(file), NEW c, file' = Append(file, c)
  PROVE  /\ IsSequence(file)' /\ Len(file) \in Nat /\ Len(file') = Len(file) + 1
         /\ file'[Len(file) + 1] = c
         /\ \A n \in 1..Len(file) : file'[n] = file[n]
BY SeqGrows, ZenonT(40) DEF IsSequence

\* A chunk adds its place to those of its kind.
LEMMA PositionsGrow ==
  ASSUME IsSequence(file), NEW c, file' = Append(file, c), NEW K
  PROVE  Positions(K)' = IF c.kind = K THEN Positions(K) \cup {Len(file) + 1}
                                       ELSE Positions(K)
<1>1. /\ Len(file') = Len(file) + 1 /\ Len(file) \in Nat
      /\ file'[Len(file) + 1] = c
      /\ \A n \in 1..Len(file) : file'[n] = file[n]
  BY FileGrows
<1>2. Positions(K)' = { n \in 1..Len(file') : file'[n].kind = K }
  BY DEF Positions
<1> HIDE DEF Positions
<1>3. ASSUME NEW n
      PROVE  n \in Positions(K)' <=>
               \/ n \in Positions(K)
               \/ c.kind = K /\ n = Len(file) + 1
  BY <1>1, <1>2 DEF Positions
<1> QED
  BY <1>3

\* The chunks behind control k and before the next.
UntilOf(k) == IF k < Cardinality(Positions("fcTL")) THEN ControlAt(k + 1) ELSE Len(file)
Following(k) == Positions("fdAT") \cap (ControlAt(k)..UntilOf(k))

\* The k-th control of a file is a control.
LEMMA ControlsAre ==
  ASSUME IsSequence(file), NEW k \in 1..Cardinality(Positions("fcTL"))
  PROVE  /\ ControlAt(k) \in Positions("fcTL") /\ ControlAt(k) \in 1..Len(file)
         /\ file[ControlAt(k)].kind = "fcTL"
<1>1. ControlAt(k) \in Positions("fcTL")
  BY PositionsAre, NthWorks DEF ControlAt
<1>2. ControlAt(k) \in 1..Len(file)
  BY <1>1, PositionsAre
<1>3. file[ControlAt(k)].kind = "fcTL"
  BY <1>1 DEF Positions
<1> QED
  BY <1>1, <1>2, <1>3

\* A chunk leaves the controls before it where they are, and a control is the last.
LEMMA ControlsGrow ==
  ASSUME IsSequence(file), NEW c, file' = Append(file, c)
  PROVE  /\ \A k \in 1..Cardinality(Positions("fcTL")) : ControlAt(k)' = ControlAt(k)
         /\ c.kind = "fcTL" =>
              /\ Cardinality(Positions("fcTL"))' = Cardinality(Positions("fcTL")) + 1
              /\ \A k : k = Cardinality(Positions("fcTL")) + 1
                        => ControlAt(k)' = Len(file) + 1
         /\ c.kind # "fcTL" =>
              Cardinality(Positions("fcTL"))' = Cardinality(Positions("fcTL"))
<1> DEFINE P == Positions("fcTL")
           e == Len(file) + 1
<1>1. P' = IF c.kind = "fcTL" THEN P \cup {e} ELSE P
  BY PositionsGrow
<1>2. P \in SUBSET Nat /\ IsFiniteSet(P) /\ e \in Nat /\ \A m \in P : m < e
  <2>1. P \subseteq 1..Len(file) /\ P \in SUBSET Nat /\ IsFiniteSet(P) /\ Len(file) \in Nat
    BY PositionsAre
  <2> HIDE DEF P
  <2> QED
    BY <2>1
<1>3. /\ Cardinality(P \cup {e}) = Cardinality(P) + 1
      /\ Nth(P \cup {e}, Cardinality(P) + 1) = e
      /\ \A n \in 1..Cardinality(P) : Nth(P \cup {e}, n) = Nth(P, n)
  BY <1>2, NthGrown
<1>4. \A k : ControlAt(k) = Nth(P, k) /\ ControlAt(k)' = Nth(P', k)
  BY DEF ControlAt
<1> HIDE DEF P, e
<1>5. ASSUME NEW k \in 1..Cardinality(P) PROVE ControlAt(k)' = ControlAt(k)
  BY <1>1, <1>3, <1>4
<1>6. c.kind # "fcTL" => Cardinality(P)' = Cardinality(P)
  BY <1>1
<1>7. c.kind = "fcTL" =>
        /\ Cardinality(P)' = Cardinality(P) + 1
        /\ \A k : k = Cardinality(P) + 1 => ControlAt(k)' = e
  BY <1>1, <1>3, <1>4
<1> QED
  BY <1>5, <1>6, <1>7 DEF P, e

\* Only the last control gets data, or there is a new one without.
LEMMA FollowingGrows ==
  ASSUME IsSequence(file), NEW c, file' = Append(file, c),
         NEW k \in 1..Cardinality(Positions("fcTL"))
  PROVE  Following(k)' = IF c.kind = "fdAT" /\ k = Cardinality(Positions("fcTL"))
                           THEN Following(k) \cup {Len(file) + 1}
                           ELSE Following(k)
<1> DEFINE e == Len(file) + 1
           last == Cardinality(Positions("fcTL"))
           D == Positions("fdAT")
<1>1. D \subseteq 1..Len(file) /\ Len(file) \in Nat /\ last \in Nat
  BY PositionsAre
<1>2. D' = IF c.kind = "fdAT" THEN D \cup {e} ELSE D
  BY PositionsGrow
<1>3. ControlAt(k)' = ControlAt(k) /\ ControlAt(k) \in 1..Len(file)
  BY ControlsGrow, ControlsAre
<1>4. Len(file') = e
  BY FileGrows
<1>5. CASE k < last
  <2>1. k + 1 \in 1..last
    BY <1>1, <1>5
  <2>2. ControlAt(k + 1)' = ControlAt(k + 1) /\ ControlAt(k + 1) \in 1..Len(file)
    BY <2>1, ControlsGrow, ControlsAre
  <2>3. k < last'
    BY <1>1, <1>5, ControlsGrow
  <2>4. UntilOf(k)' = ControlAt(k + 1) /\ UntilOf(k) = ControlAt(k + 1)
    BY <1>5, <2>2, <2>3 DEF UntilOf
  <2>5. Following(k)' = D' \cap (ControlAt(k)..ControlAt(k + 1))
    BY <1>3, <2>4 DEF Following
  <2>6. Following(k) = D \cap (ControlAt(k)..ControlAt(k + 1))
    BY <2>4 DEF Following
  <2>7. e \notin ControlAt(k)..ControlAt(k + 1)
    BY <1>1, <1>3, <2>2
  <2> HIDE DEF D, e
  <2> QED
    BY <1>2, <1>5, <2>5, <2>6, <2>7
<1>6. CASE k = last
  <2>1. UntilOf(k) = Len(file)
    BY <1>6, <1>1 DEF UntilOf
  <2>2. UntilOf(k)' = e
    <3>1. CASE c.kind = "fcTL"
      <4>1. last' = last + 1 /\ \A m : m = last + 1 => ControlAt(m)' = e
        BY <3>1, ControlsGrow
      <4>2. ControlAt(k + 1)' = e /\ k < last'
        BY <1>1, <1>6, <4>1
      <4> QED
        BY <4>2 DEF UntilOf
    <3>2. CASE c.kind # "fcTL"
      <4>1. ~(k < last')
        BY <3>2, <1>1, <1>6, ControlsGrow
      <4> QED
        BY <4>1, <1>4 DEF UntilOf
    <3> QED
      BY <3>1, <3>2
  <2>3. Following(k)' = D' \cap (ControlAt(k)..e) /\ Following(k) = D \cap (ControlAt(k)..Len(file))
    BY <1>3, <2>1, <2>2 DEF Following
  <2>4. \A n \in D : n \in ControlAt(k)..e <=> n \in ControlAt(k)..Len(file)
    BY <1>1, <1>3
  <2>5. e \in ControlAt(k)..e
    BY <1>1, <1>3
  <2> HIDE DEF D, e
  <2>6. Following(k)' = IF c.kind = "fdAT" THEN Following(k) \cup {e} ELSE Following(k)
    BY <1>2, <2>3, <2>4, <2>5
  <2> QED
    BY <1>6, <2>6 DEF e
<1>7. k < last \/ k = last
  BY <1>1
<1> QED
  BY <1>5, <1>6, <1>7

------------------------------------------------------------------------------
(* A growbuf holds the first pieces of its chunks, and all of them as long   *)
(* as no reallocation of it failed.                                          *)

Collected(f, short, data, P) ==
  \E m \in 0..Cardinality(P) :
    /\ data = [ pieces |-> [n \in 1..m |-> f[Nth(P, n)].piece],
                failed |-> data.failed ]
    /\ data.failed \in BOOLEAN
    /\ IF data.failed THEN short ELSE m = Cardinality(P)

\* Without a chunk nothing is collected.
LEMMA CollectedNone ==
  ASSUME NEW f, NEW short
  PROVE  Collected(f, short, NoData, {})
<1>1. Cardinality({}) = 0 /\ 0 \in 0..Cardinality({})
  BY FS_EmptySet
<1>2. [n \in 1..0 |-> f[Nth({}, n)].piece] = <<>>
  OBVIOUS
<1>3. NoData.failed = FALSE /\ NoData = [pieces |-> <<>>, failed |-> NoData.failed]
  BY DEF NoData
<1> QED
  BY <1>1, <1>2, <1>3 DEF Collected

\* What is collected depends on the chunks it comes from alone.
LEMMA CollectedStays ==
  ASSUME NEW P \in SUBSET Nat, IsFiniteSet(P), NEW f, NEW h, \A n \in P : h[n] = f[n],
         NEW short, NEW still, short => still,
         NEW data, Collected(f, short, data, P)
  PROVE  Collected(h, still, data, P)
<1>1. PICK m \in 0..Cardinality(P) :
        /\ data = [ pieces |-> [n \in 1..m |-> f[Nth(P, n)].piece],
                    failed |-> data.failed ]
        /\ data.failed \in BOOLEAN
        /\ IF data.failed THEN short ELSE m = Cardinality(P)
  BY DEF Collected
<1>2. Cardinality(P) \in Nat
  BY FS_CardinalityType
<1>3. [n \in 1..m |-> f[Nth(P, n)].piece] = [n \in 1..m |-> h[Nth(P, n)].piece]
  <2>1. ASSUME NEW n \in 1..m PROVE f[Nth(P, n)].piece = h[Nth(P, n)].piece
    <3>1. n \in 1..Cardinality(P)
      BY <1>2
    <3>2. Nth(P, n) \in P
      BY <3>1, NthWorks
    <3> QED
      BY <3>2
  <2> QED
    BY <2>1
<1>4. data = [ pieces |-> [n \in 1..m |-> h[Nth(P, n)].piece], failed |-> data.failed ]
  BY <1>1, <1>3
<1> QED
  BY <1>1, <1>4 DEF Collected

\* The two updates that growbuf_put makes.
LEMMA PutIs ==
  ASSUME NEW pieces, NEW failed, NEW more,
         NEW data, data = [pieces |-> pieces, failed |-> failed]
  PROVE  /\ [data EXCEPT !.failed = TRUE] = [pieces |-> pieces, failed |-> TRUE]
         /\ [data EXCEPT !.pieces = more] = [pieces |-> more, failed |-> failed]
<1>1. /\ [data EXCEPT !.failed = TRUE] \in [pieces : {pieces}, failed : {TRUE}]
      /\ [data EXCEPT !.pieces = more] \in [pieces : {more}, failed : {failed}]
  OBVIOUS
<1>2. \A p, q : \A x \in [pieces : {p}, failed : {q}] : x = [pieces |-> p, failed |-> q]
  OBVIOUS
<1> QED
  BY <1>1, <1>2

\* growbuf_put adds the piece of the next chunk, or fails for good.
LEMMA CollectedGrows ==
  ASSUME NEW P \in SUBSET Nat, IsFiniteSet(P), NEW f, NEW h, \A n \in P : h[n] = f[n],
         NEW e \in Nat, \A n \in P : n < e,
         NEW short, NEW oom, NEW still, short => still, oom => still,
         NEW data, Collected(f, short, data, P)
  PROVE  Collected(h, still, Put(data, h[e].piece, oom), P \cup {e})
<1> DEFINE Q == P \cup {e}
           after == Put(data, h[e].piece, oom)
           now(m) == [n \in 1..m |-> h[Nth(Q, n)].piece]
<1>1. PICK m \in 0..Cardinality(P) :
        /\ data = [ pieces |-> [n \in 1..m |-> f[Nth(P, n)].piece],
                    failed |-> data.failed ]
        /\ data.failed \in BOOLEAN
        /\ IF data.failed THEN short ELSE m = Cardinality(P)
  BY DEF Collected
<1>2. /\ Cardinality(P) \in Nat /\ Cardinality(Q) = Cardinality(P) + 1
      /\ Nth(Q, Cardinality(P) + 1) = e
      /\ \A n \in 1..Cardinality(P) : Nth(Q, n) = Nth(P, n)
  BY FS_CardinalityType, NthGrown
<1>3. ASSUME NEW n \in 1..m PROVE f[Nth(P, n)].piece = h[Nth(Q, n)].piece
  <2>1. n \in 1..Cardinality(P)
    BY <1>2
  <2>2. Nth(P, n) \in P /\ Nth(Q, n) = Nth(P, n)
    BY <1>2, <2>1, NthWorks
  <2> QED
    BY <2>2
<1>4. data.pieces = now(m)
  <2>1. [n \in 1..m |-> f[Nth(P, n)].piece] = now(m)
    BY <1>3
  <2> HIDE DEF now
  <2> QED
    BY <1>1, <2>1
<1>5. m \in 0..Cardinality(Q) /\ m \in Nat
  BY <1>2
<1>6. CASE data.failed
  <2>1. after = data
    BY <1>6 DEF Put
  <2>2. after = [pieces |-> now(m), failed |-> after.failed]
    <3> HIDE DEF now, after
    <3> QED
      BY <1>1, <1>4, <2>1
  <2> HIDE DEF now, after, Q
  <2>3. \E k \in 0..Cardinality(Q) :
          /\ after = [pieces |-> now(k), failed |-> after.failed]
          /\ after.failed \in BOOLEAN
          /\ IF after.failed THEN still ELSE k = Cardinality(Q)
    BY <1>1, <1>5, <1>6, <2>1, <2>2
  <2> QED
    BY <2>3 DEF Collected, now, after, Q
<1>7. CASE ~data.failed /\ oom
  <2>1. after = [data EXCEPT !.failed = TRUE]
    BY <1>7 DEF Put
  <2>2. after = [pieces |-> now(m), failed |-> TRUE]
    <3> HIDE DEF now, after
    <3>1. data = [pieces |-> now(m), failed |-> data.failed]
      BY <1>1, <1>4
    <3>2. [data EXCEPT !.failed = TRUE] = [pieces |-> now(m), failed |-> TRUE]
      BY <3>1, PutIs, Zenon
    <3> QED
      BY <2>1, <3>2
  <2> HIDE DEF now, after, Q
  <2>3. \E k \in 0..Cardinality(Q) :
          /\ after = [pieces |-> now(k), failed |-> after.failed]
          /\ after.failed \in BOOLEAN
          /\ IF after.failed THEN still ELSE k = Cardinality(Q)
    BY <1>5, <1>7, <2>2
  <2> QED
    BY <2>3 DEF Collected, now, after, Q
<1>8. CASE ~data.failed /\ ~oom
  <2>1. after = [data EXCEPT !.pieces = Append(@, h[e].piece)]
    BY <1>8 DEF Put
  <2>2. m = Cardinality(P)
    BY <1>1, <1>8
  <2>3. Append(data.pieces, h[e].piece) = now(m + 1)
    <3> DEFINE p == [n \in Nat |-> h[Nth(Q, n)].piece]
    <3>1. p[m + 1] = h[e].piece
      BY <1>2, <1>5, <2>2
    <3>2. \A k \in Nat : now(k) = [n \in 1..k |-> p[n]]
      OBVIOUS
    <3>3. data.pieces = [n \in 1..m |-> p[n]]
      BY <1>4, <1>5, <3>2
    <3> HIDE DEF p, now
    <3>4. Append(data.pieces, p[m + 1]) = [n \in 1..(m + 1) |-> p[n]]
      BY <1>5, <3>3, SeqAppended
    <3>5. now(m + 1) = [n \in 1..(m + 1) |-> p[n]]
      <4>1. m + 1 \in Nat
        BY <1>5
      <4> QED
        BY <4>1, <3>2
    <3> QED
      BY <3>1, <3>4, <3>5
  <2>4. after = [pieces |-> now(m + 1), failed |-> FALSE]
    <3> HIDE DEF now, after
    <3>1. data = [pieces |-> now(m), failed |-> data.failed] /\ data.failed = FALSE
      BY <1>1, <1>4, <1>8
    <3> DEFINE more == Append(data.pieces, h[e].piece)
    <3>2. after = [data EXCEPT !.pieces = more]
      BY <2>1
    <3>3. more = now(m + 1)
      BY <2>3
    <3> HIDE DEF more
    <3>4. [data EXCEPT !.pieces = more] = [pieces |-> more, failed |-> data.failed]
      BY <3>1, PutIs
    <3> QED
      BY <3>1, <3>2, <3>3, <3>4
  <2>5. m + 1 = Cardinality(Q) /\ m + 1 \in 0..Cardinality(Q)
    BY <1>2, <2>2
  <2> HIDE DEF now, after, Q
  <2>6. \E k \in 0..Cardinality(Q) :
          /\ after = [pieces |-> now(k), failed |-> after.failed]
          /\ after.failed \in BOOLEAN
          /\ IF after.failed THEN still ELSE k = Cardinality(Q)
    BY <2>4, <2>5
  <2> QED
    BY <2>6 DEF Collected, now, after, Q
<1> QED
  BY <1>1, <1>6, <1>7, <1>8

\* What is decoded is what the file has there.
LEMMA CollectedPieces ==
  ASSUME NEW P \in SUBSET Nat, IsFiniteSet(P), NEW short,
         NEW data, Collected(file, short, data, P)
  PROVE  /\ ~data.failed => data.pieces = PiecesAt(P)
         /\ data.pieces # <<>> => PiecesAt(P) # <<>> /\ PiecesAt(P)[1] = data.pieces[1]
         /\ data.failed \in BOOLEAN
         /\ data.failed => short
<1> DEFINE all(k) == [n \in 1..k |-> file[Nth(P, n)].piece]
<1>1. PICK m \in 0..Cardinality(P) :
        /\ data = [pieces |-> all(m), failed |-> data.failed]
        /\ data.failed \in BOOLEAN
        /\ IF data.failed THEN short ELSE m = Cardinality(P)
  BY DEF Collected
<1>2. Cardinality(P) \in Nat /\ m \in Nat /\ m <= Cardinality(P)
  BY FS_CardinalityType
<1>3. PiecesAt(P) = all(Cardinality(P))
  BY DEF PiecesAt, Those
<1>4. data.pieces = all(m)
  <2> HIDE DEF all
  <2> QED
    BY <1>1
<1>5. ~data.failed => data.pieces = PiecesAt(P)
  BY <1>1, <1>3, <1>4
<1>6. ASSUME data.pieces # <<>>
      PROVE  PiecesAt(P) # <<>> /\ PiecesAt(P)[1] = data.pieces[1]
  <2>1. m # 0
    <3>1. all(0) = <<>>
      OBVIOUS
    <3> HIDE DEF all
    <3> QED
      BY <1>4, <1>6, <3>1
  <2>2. 1 \in 1..m /\ 1 \in 1..Cardinality(P)
    BY <1>2, <2>1
  <2>3. all(m)[1] = file[Nth(P, 1)].piece /\ all(Cardinality(P))[1] = file[Nth(P, 1)].piece
    BY <2>2
  <2>4. DOMAIN all(Cardinality(P)) # {}
    BY <2>2
  <2>5. DOMAIN <<>> = {}
    OBVIOUS
  <2> HIDE DEF all
  <2> QED
    BY <1>3, <1>4, <2>3, <2>4, <2>5
<1> QED
  BY <1>1, <1>5, <1>6

------------------------------------------------------------------------------
(* What the first pass knows of the chunks it has read.                      *)

\* A step of the loader, on any chunk.
Take(c) == NumbersOk(c) /\ ReadChunk(c)
AnyChunk == \E c : Take(c)

\* The chunks read are within the bound, and their numbers are unsigned.
FileOk ==
  /\ IsSequence(file) /\ Len(file) <= MaxChunks
  /\ \A n \in 1..Len(file) : NumbersOk(file[n])

\* The last chunk of a kind: it overwrites what those before it said.
IsLast(K, n) == n \in Positions(K) /\ \A m \in Positions(K) : m <= n

\* IHDR, PLTE and acTL, as the last of each has them.
HeadersRead ==
  /\ IF Positions("IHDR") = {} THEN ihdr = NoHeader
       ELSE \E n : /\ IsLast("IHDR", n)
                   /\ ihdr = [size |-> file[n].size, color |-> file[n].color]
  /\ plte = (Positions("PLTE") # {}) /\ trns = (Positions("tRNS") # {})
  /\ IF Positions("acTL") = {} THEN num_plays = 0
       ELSE \E n : IsLast("acTL", n) /\ num_plays = file[n].plays

\* frames[k].ctl is the k-th fcTL of the file; the default image belongs to frame 0
\* if and only if the first fcTL comes before every IDAT.
ControlsRead ==
  /\ IsSequence(fctls) /\ Len(fctls) = Cardinality(Positions("fcTL"))
  /\ fcap \in Nat /\ Len(fctls) <= fcap
  /\ \A k \in 1..Len(fctls) : /\ fctls[k] = [ctl |-> fctls[k].ctl, data |-> fctls[k].data]
                              /\ fctls[k].ctl = file[ControlAt(k)]
  /\ default_is_frame \in BOOLEAN
  /\ default_is_frame <=> Len(fctls) > 0 /\ \A n \in Positions("IDAT") : ControlAt(1) < n
  /\ \A n \in Positions("fdAT") : \E m \in Positions("fcTL") : m < n

\* The data of the default image and of each frame are those of its chunks.
DataRead ==
  /\ idat_seen = (Positions("IDAT") # {})
  /\ Collected(file, starved, idat_default, Positions("IDAT"))
  /\ \A k \in 1..Len(fctls) : Collected(file, starved, fctls[k].data, Following(k))

\* apng_load forgets all this when it returns.
Reading == pc # "done" => ControlsRead /\ DataRead

\* A chunk that is taken is appended to the file.
LEMMA TakeReads ==
  ASSUME NEW c, Take(c)
  PROVE  /\ pc = "walk" /\ Len(file) < MaxChunks /\ file' = Append(file, c)
         /\ NumbersOk(c)
BY DEF Take, ReadChunk, ReadHeader, ReadActl, ReadPlte, ReadOther, ReadFctl, ReadIdat,
       ReadFdat, ReadEnd, ReadTrns, Read

\* Behind the chunks nothing that was read changes.
LEMMA LoadStepKeepsFile ==
  ASSUME LoadStep \/ UNCHANGED vars
  PROVE  UNCHANGED <<file, ihdr, plte, trns, num_plays, fctls, fcap, default_is_frame,
                     idat_default, idat_seen>>
BY DEF LoadStep, CheckCanvas, LoadStill, AllocateCanvas, Compose, ReturnFrames, vars,
       headVars, frameVars, dataVars

LEMMA FileStep ==
  ASSUME FileOk, AnyChunk \/ LoadStep \/ UNCHANGED vars
  PROVE  FileOk'
<1>1. CASE LoadStep \/ UNCHANGED vars
  BY <1>1, LoadStepKeepsFile DEF FileOk, IsSequence
<1>2. ASSUME NEW c, Take(c) PROVE FileOk'
  <2>1. Len(file) < MaxChunks /\ file' = Append(file, c) /\ NumbersOk(c)
    BY <1>2, TakeReads
  <2>2. /\ IsSequence(file)' /\ Len(file) \in Nat /\ Len(file') = Len(file) + 1
        /\ file'[Len(file) + 1] = c /\ \A n \in 1..Len(file) : file'[n] = file[n]
    BY <2>1, FileGrows DEF FileOk
  <2>3. ASSUME NEW n \in 1..Len(file') PROVE NumbersOk(file'[n])
    <3>1. n \in 1..Len(file) \/ n = Len(file) + 1
      BY <2>2
    <3> QED
      BY <2>1, <2>2, <3>1 DEF FileOk
  <2>4. Len(file') <= MaxChunks
    BY <2>1, <2>2, ApngAssumption
  <2> QED
    BY <2>2, <2>3, <2>4 DEF FileOk, NumbersOk
<1> QED
  BY <1>1, <1>2 DEF AnyChunk

\* A chunk of another kind leaves the last of a kind the last.
LEMMA LastStays ==
  ASSUME FileOk, NEW c, file' = Append(file, c), NEW K, c.kind # K, NEW n, IsLast(K, n)
  PROVE  IsLast(K, n)' /\ file'[n] = file[n]
<1>1. Positions(K)' = Positions(K) /\ Positions(K) \subseteq 1..Len(file)
  BY PositionsGrow, PositionsAre DEF FileOk
<1>2. \A m \in 1..Len(file) : file'[m] = file[m]
  BY FileGrows DEF FileOk
<1> QED
  BY <1>1, <1>2 DEF IsLast

\* A chunk is the last of its kind when it is read.
LEMMA LastIsNew ==
  ASSUME FileOk, NEW c, file' = Append(file, c)
  PROVE  /\ Positions(c.kind)' # {}
         /\ \A n : n = Len(file) + 1 => IsLast(c.kind, n)' /\ file'[n] = c
<1>1. /\ Positions(c.kind)' = Positions(c.kind) \cup {Len(file) + 1}
      /\ Positions(c.kind) \subseteq 1..Len(file) /\ Len(file) \in Nat
      /\ file'[Len(file) + 1] = c
  BY PositionsGrow, PositionsAre, FileGrows DEF FileOk
<1> DEFINE e == Len(file) + 1
<1>2. \A m \in Positions(c.kind)' : m <= e
  BY <1>1
<1>3. e \in Positions(c.kind)'
  BY <1>1
<1>4. \A n : n = e => IsLast(c.kind, n)'
  BY <1>2, <1>3 DEF IsLast
<1> QED
  BY <1>1, <1>3, <1>4

\* No step disagrees with the headers of the file.
LEMMA HeadersStep ==
  ASSUME FileOk, HeadersRead, AnyChunk \/ LoadStep \/ UNCHANGED vars
  PROVE  HeadersRead'
<1>1. CASE LoadStep \/ UNCHANGED vars
  BY <1>1, LoadStepKeepsFile DEF HeadersRead, IsLast, Positions
<1>2. ASSUME NEW c, Take(c) PROVE HeadersRead'
  <2>1. file' = Append(file, c) /\ NumbersOk(c)
    BY <1>2, TakeReads
  <2>2. /\ \A K : K # c.kind => Positions(K)' = Positions(K)
        /\ \A K, n : K # c.kind /\ IsLast(K, n) => IsLast(K, n)' /\ file'[n] = file[n]
    BY <2>1, PositionsGrow, LastStays DEF FileOk
  <2>3. \E n : IsLast(c.kind, n)' /\ file'[n] = c
    <3>1. \A n : n = Len(file) + 1 => IsLast(c.kind, n)' /\ file'[n] = c
      BY <2>1, LastIsNew
    <3> QED
      BY <3>1
  <2>4. Positions(c.kind)' # {}
    BY <2>1, LastIsNew
  <2>5. CASE ReadHeader(c)
    <3>1. /\ c.kind = "IHDR" /\ ihdr' = [size |-> c.size, color |-> c.color]
          /\ UNCHANGED <<plte, trns, num_plays>>
      BY <2>5 DEF ReadHeader
    <3> QED
      BY <2>2, <2>3, <2>4, <3>1 DEF HeadersRead
  <2>6. CASE ReadActl(c)
    <3>1. c.kind = "acTL" /\ num_plays' = c.plays /\ UNCHANGED <<plte, trns, ihdr>>
      BY <2>6 DEF ReadActl
    <3> QED
      BY <2>2, <2>3, <2>4, <3>1 DEF HeadersRead
  <2>7. CASE ReadPlte(c)
    <3>1. c.kind = "PLTE" /\ plte' = TRUE /\ UNCHANGED <<trns, num_plays, ihdr>>
      BY <2>7 DEF ReadPlte
    <3> QED
      BY <2>2, <2>4, <3>1 DEF HeadersRead
  <2>9. CASE ReadTrns(c)
    <3>1. c.kind = "tRNS" /\ trns' = TRUE /\ UNCHANGED <<plte, num_plays, ihdr>>
      BY <2>9 DEF ReadTrns
    <3> QED
      BY <2>2, <2>4, <3>1 DEF HeadersRead
  <2>8. CASE ReadOther(c) \/ ReadFctl(c) \/ ReadIdat(c) \/ ReadFdat(c) \/ ReadEnd(c)
    <3>1. /\ c.kind \notin {"IHDR", "acTL", "PLTE", "tRNS"}
          /\ UNCHANGED <<plte, trns, num_plays, ihdr>>
      BY <2>8 DEF ReadOther, ReadFctl, ReadIdat, ReadFdat, ReadEnd, headVars
    <3> QED
      BY <2>2, <3>1 DEF HeadersRead
  <2> QED
    BY <1>2, <2>5, <2>6, <2>7, <2>8, <2>9 DEF Take, ReadChunk
<1> QED
  BY <1>1, <1>2 DEF AnyChunk

\* Some of the places of a file are finitely many numbers.
LEMMA PlacesAre ==
  ASSUME NEW n \in Nat, NEW P \in SUBSET (1..n)
  PROVE  IsFiniteSet(P) /\ P \in SUBSET Nat
<1>1. IsFiniteSet(1..n)
  <2>1. 1 \in Int /\ n \in Int
    OBVIOUS
  <2> QED
    BY <2>1, FS_Interval
<1>2. IsFiniteSet(P)
  BY <1>1, FS_Subset
<1>3. P \in SUBSET Nat
  OBVIOUS
<1> QED
  BY <1>2, <1>3

\* So are the places of the data of a frame.
LEMMA FollowingAre ==
  ASSUME IsSequence(file), NEW k
  PROVE  /\ Following(k) \in SUBSET Nat /\ IsFiniteSet(Following(k))
         /\ Following(k) \subseteq 1..Len(file)
<1>1. /\ Positions("fdAT") \subseteq 1..Len(file) /\ Positions("fdAT") \in SUBSET Nat
      /\ IsFiniteSet(Positions("fdAT"))
  BY PositionsAre
<1>2. Following(k) \subseteq Positions("fdAT")
  BY DEF Following
<1> QED
  BY <1>1, <1>2, FS_Subset

\* The data collected before a chunk is read is still collected after it.
LEMMA DataStays ==
  ASSUME FileOk, NEW c, file' = Append(file, c), starved => starved',
         NEW P \in SUBSET (1..Len(file)), NEW data, Collected(file, starved, data, P)
  PROVE  Collected(file', starved', data, P)
<1>1. Len(file) \in Nat /\ \A n \in 1..Len(file) : file'[n] = file[n]
  BY FileGrows DEF FileOk
<1>2. IsFiniteSet(P) /\ P \in SUBSET Nat
  BY <1>1, PlacesAre
<1>3. \A n \in P : file'[n] = file[n]
  BY <1>1
<1> QED
  BY <1>2, <1>3, CollectedStays

\* And growbuf_put adds the piece of the chunk that is read.
LEMMA DataGrows ==
  ASSUME FileOk, NEW c, file' = Append(file, c),
         NEW oom, starved => starved', oom => starved',
         NEW P \in SUBSET (1..Len(file)), NEW data, Collected(file, starved, data, P)
  PROVE  Collected(file', starved', Put(data, c.piece, oom), P \cup {Len(file) + 1})
<1> DEFINE e == Len(file) + 1
<1>1. /\ Len(file) \in Nat /\ file'[e] = c
      /\ \A n \in 1..Len(file) : file'[n] = file[n]
  BY FileGrows DEF FileOk
<1>2. IsFiniteSet(P) /\ P \in SUBSET Nat
  BY <1>1, PlacesAre
<1>3. e \in Nat /\ \A n \in P : n < e
  BY <1>1
<1>4. \A n \in P : file'[n] = file[n]
  BY <1>1
<1> HIDE DEF e
<1>5. Collected(file', starved', Put(data, file'[e].piece, oom), P \cup {e})
  BY <1>2, <1>3, <1>4, CollectedGrows
<1> QED
  BY <1>1, <1>5 DEF e

\* A chunk that is no control leaves the controls.
LEMMA ControlsKept ==
  ASSUME FileOk, ControlsRead, NEW c, file' = Append(file, c), c.kind # "fcTL",
         c.kind = "fdAT" => Len(fctls) > 0,
         IsSequence(fctls)', Len(fctls') = Len(fctls),
         \A k \in 1..Len(fctls) :
           /\ fctls'[k] = [ctl |-> fctls'[k].ctl, data |-> fctls'[k].data]
           /\ fctls'[k].ctl = fctls[k].ctl,
         UNCHANGED <<fcap, default_is_frame>>
  PROVE  ControlsRead'
<1>1. /\ Len(file) \in Nat /\ \A n \in 1..Len(file) : file'[n] = file[n]
      /\ Positions("fcTL")' = Positions("fcTL")
      /\ Cardinality(Positions("fcTL"))' = Cardinality(Positions("fcTL"))
  BY FileGrows, PositionsGrow, ControlsGrow DEF FileOk
<1>2. ASSUME NEW k \in 1..Len(fctls)
      PROVE  /\ ControlAt(k)' = ControlAt(k) /\ ControlAt(k) \in 1..Len(file)
             /\ file'[ControlAt(k)] = file[ControlAt(k)]
  <2>1. k \in 1..Cardinality(Positions("fcTL"))
    BY DEF ControlsRead
  <2>2. ControlAt(k) \in 1..Len(file)
    BY <2>1, ControlsAre DEF FileOk
  <2> QED
    BY <1>1, <2>1, <2>2, ControlsGrow DEF FileOk
<1>3. Len(fctls) \in Nat
  <2>1. Cardinality(Positions("fcTL")) \in Nat
    <3>1. Cardinality(Positions("fcTL")) \in 0..Len(file)
      BY PositionsAre DEF FileOk
    <3> QED
      BY <1>1, <3>1
  <2> QED
    BY <2>1 DEF ControlsRead
<1>4. default_is_frame' <=> Len(fctls') > 0 /\ \A n \in Positions("IDAT")' : ControlAt(1)' < n
  <2>1. CASE Len(fctls) = 0
    BY <2>1 DEF ControlsRead
  <2>2. CASE Len(fctls) # 0
    <3>1. 1 \in 1..Len(fctls) /\ Len(fctls) > 0
      BY <1>3, <2>2
    <3>2. ControlAt(1)' = ControlAt(1) /\ ControlAt(1) < Len(file) + 1
      BY <1>1, <1>2, <3>1
    <3>3. Positions("IDAT")' = IF c.kind = "IDAT" THEN Positions("IDAT") \cup {Len(file) + 1}
                                                 ELSE Positions("IDAT")
      BY PositionsGrow DEF FileOk
    <3>4. (\A n \in Positions("IDAT")' : ControlAt(1)' < n)
            <=> \A n \in Positions("IDAT") : ControlAt(1) < n
      BY <3>2, <3>3
    <3> QED
      BY <3>1, <3>4 DEF ControlsRead
  <2> QED
    BY <2>1, <2>2
<1>5. \A n \in Positions("fdAT")' : \E m \in Positions("fcTL")' : m < n
  <2> SUFFICES ASSUME NEW n \in Positions("fdAT")'
               PROVE  \E m \in Positions("fcTL") : m < n
    BY <1>1
  <2>1. n \in Positions("fdAT") \/ (c.kind = "fdAT" /\ n = Len(file) + 1)
    BY PositionsGrow DEF FileOk
  <2>2. CASE n \in Positions("fdAT")
    BY <2>2 DEF ControlsRead
  <2>3. CASE c.kind = "fdAT" /\ n = Len(file) + 1
    <3>1. 1 \in 1..Len(fctls)
      BY <1>3, <2>3
    <3>2. 1 \in 1..Cardinality(Positions("fcTL"))
      BY <3>1 DEF ControlsRead
    <3>3. ControlAt(1) \in Positions("fcTL") /\ ControlAt(1) \in 1..Len(file)
      BY <3>2, ControlsAre DEF FileOk
    <3> QED
      BY <1>1, <2>3, <3>3
  <2> QED
    BY <2>1, <2>2, <2>3
<1> QED
  BY <1>1, <1>2, <1>4, <1>5 DEF ControlsRead

\* A chunk that is neither a control nor data.
LEMMA ReadsNothing ==
  ASSUME FileOk, ControlsRead, DataRead, NEW c, file' = Append(file, c),
         c.kind \notin {"fcTL", "IDAT", "fdAT"},
         UNCHANGED <<frameVars, dataVars, starved>>
  PROVE  ControlsRead' /\ DataRead'
<1>1. /\ Positions("fcTL")' = Positions("fcTL") /\ Positions("IDAT")' = Positions("IDAT")
      /\ Positions("fdAT")' = Positions("fdAT")
  BY PositionsGrow DEF FileOk
<1>2. ASSUME NEW k \in 1..Len(fctls)
      PROVE  /\ ControlAt(k)' = ControlAt(k) /\ Following(k)' = Following(k)
             /\ file'[ControlAt(k)] = file[ControlAt(k)]
  <2>1. k \in 1..Cardinality(Positions("fcTL"))
    BY DEF ControlsRead
  <2>2. ControlAt(k) \in 1..Len(file) /\ \A n \in 1..Len(file) : file'[n] = file[n]
    BY <2>1, ControlsAre, FileGrows DEF FileOk
  <2> QED
    BY <2>1, <2>2, ControlsGrow, FollowingGrows DEF FileOk
<1>3. UNCHANGED <<fctls, fcap, default_is_frame, idat_default, idat_seen>>
  BY DEF frameVars, dataVars
<1>4. ControlsRead'
  <2>1. IsSequence(fctls)'
    BY <1>3 DEF ControlsRead, IsSequence
  <2> QED
    BY <1>3, <2>1, ControlsKept DEF ControlsRead
<1>5. Positions("IDAT") \in SUBSET (1..Len(file))
  BY PositionsAre DEF FileOk
<1>6. Collected(file', starved', idat_default, Positions("IDAT"))
  BY <1>5, DataStays DEF DataRead
<1>7. ASSUME NEW k \in 1..Len(fctls)
      PROVE  Collected(file', starved', fctls[k].data, Following(k))
  <2>1. Following(k) \in SUBSET (1..Len(file))
    BY FollowingAre DEF FileOk
  <2> QED
    BY <2>1, DataStays DEF DataRead
<1>8. DataRead'
  BY <1>1, <1>2, <1>3, <1>6, <1>7 DEF DataRead
<1> QED
  BY <1>4, <1>8

\* A frame control: one frame more, without data yet.
LEMMA ReadsFctl ==
  ASSUME FileOk, ControlsRead, DataRead, NEW c, file' = Append(file, c), c.kind = "fcTL",
         fctls' = Append(fctls, [ctl |-> c, data |-> NoData]),
         fcap' = IF Full THEN Capacity ELSE fcap,
         default_is_frame' = (default_is_frame \/ OwnsDefault),
         starved => starved', UNCHANGED dataVars
  PROVE  ControlsRead' /\ DataRead'
<1> DEFINE m == Len(fctls)
           f == [ctl |-> c, data |-> NoData]
<1>1. /\ Positions("IDAT")' = Positions("IDAT") /\ Positions("fdAT")' = Positions("fdAT")
      /\ Positions("fcTL")' = Positions("fcTL") \cup {Len(file) + 1}
      /\ Len(file) \in Nat /\ file'[Len(file) + 1] = c
      /\ \A n \in 1..Len(file) : file'[n] = file[n]
  BY PositionsGrow, FileGrows DEF FileOk
<1>2. /\ m = Cardinality(Positions("fcTL")) /\ m \in Nat
      /\ Cardinality(Positions("fcTL"))' = m + 1
      /\ \A k : k = m + 1 => ControlAt(k)' = Len(file) + 1
  BY ControlsGrow, PositionsAre DEF FileOk, ControlsRead
<1>3. /\ IsSequence(fctls)' /\ Len(fctls') = m + 1 /\ fctls'[m + 1] = f
      /\ \A k \in 1..m : fctls'[k] = fctls[k]
  <2>1. fctls' = Append(fctls, f) /\ \E S : fctls \in Seq(S)
    BY DEF ControlsRead, IsSequence
  <2> HIDE DEF f, m
  <2>2. /\ \E S : Append(fctls, f) \in Seq(S)
        /\ Len(fctls) \in Nat /\ Len(Append(fctls, f)) = Len(fctls) + 1
        /\ Append(fctls, f)[Len(fctls) + 1] = f
        /\ \A n \in 1..Len(fctls) : Append(fctls, f)[n] = fctls[n]
    BY <2>1, SeqGrows
  <2>3. IsSequence(fctls)'
    BY <2>1, <2>2 DEF IsSequence
  <2> QED
    BY <2>1, <2>2, <2>3 DEF m
<1>4. ASSUME NEW k \in 1..m
      PROVE  /\ ControlAt(k)' = ControlAt(k) /\ Following(k)' = Following(k)
             /\ file'[ControlAt(k)] = file[ControlAt(k)]
  <2>1. k \in 1..Cardinality(Positions("fcTL"))
    BY <1>2
  <2>2. ControlAt(k) \in 1..Len(file)
    BY <2>1, ControlsAre DEF FileOk
  <2> QED
    BY <1>1, <2>1, <2>2, ControlsGrow, FollowingGrows DEF FileOk
<1>5. f.ctl = c /\ f.data = NoData /\ f = [ctl |-> f.ctl, data |-> f.data]
  OBVIOUS
<1>6. \A k : k = m + 1 => Following(k)' = {}
  <2> SUFFICES ASSUME NEW k, k = m + 1 PROVE Following(k)' = {}
    OBVIOUS
  <2>1. ControlAt(k)' = Len(file) + 1
    BY <1>2
  <2>2. UntilOf(k)' = Len(file) + 1
    <3>1. Len(file') = Len(file) + 1
      BY FileGrows DEF FileOk
    <3>2. ~(k < Cardinality(Positions("fcTL"))')
      BY <1>2
    <3> QED
      BY <3>1, <3>2 DEF UntilOf
  <2>3. Following(k)' = Positions("fdAT") \cap ((Len(file) + 1)..(Len(file) + 1))
    BY <1>1, <2>1, <2>2 DEF Following
  <2>4. Positions("fdAT") \subseteq 1..Len(file)
    BY PositionsAre DEF FileOk
  <2> QED
    BY <1>1, <2>3, <2>4
<1> HIDE DEF m, f
<1>7. ControlsRead'
  <2>1. /\ fcap' \in Nat /\ m + 1 <= fcap'
    <3>1. fcap \in Nat /\ m <= fcap /\ FirstCapacity \in Nat \ {0}
      BY ApngAssumption DEF ControlsRead, m
    <3> QED
      BY <1>2, <3>1 DEF Full, Capacity, m
  <2>2. \A k \in 1..(m + 1) :
          /\ fctls'[k] = [ctl |-> fctls'[k].ctl, data |-> fctls'[k].data]
          /\ fctls'[k].ctl = file'[ControlAt(k)']
    <3> SUFFICES ASSUME NEW k \in 1..(m + 1)
                 PROVE  /\ fctls'[k] = [ctl |-> fctls'[k].ctl, data |-> fctls'[k].data]
                        /\ fctls'[k].ctl = file'[ControlAt(k)']
      OBVIOUS
    <3>1. CASE k = m + 1
      <4>1. ControlAt(k)' = Len(file) + 1
        BY <1>2, <3>1
      <4>2. fctls'[k] = f
        BY <1>3, <3>1
      <4> QED
        BY <1>1, <1>5, <4>1, <4>2
    <3>2. CASE k \in 1..m
      BY <1>3, <1>4, <3>2 DEF ControlsRead, m
    <3>3. k = m + 1 \/ k \in 1..m
      BY <1>2
    <3> QED
      BY <3>1, <3>2, <3>3
  <2>3. default_is_frame' \in BOOLEAN
        /\ (default_is_frame' <=> m + 1 > 0 /\ \A n \in Positions("IDAT") : ControlAt(1)' < n)
    <3>1. CASE m = 0
      <4>1. ControlAt(1)' = Len(file) + 1
        BY <1>2, <3>1
      <4>2. (\A n \in Positions("IDAT") : Len(file) + 1 < n) <=> Positions("IDAT") = {}
        <5>1. Positions("IDAT") \subseteq 1..Len(file)
          BY PositionsAre DEF FileOk
        <5> QED
          BY <1>1, <5>1
      <4>3. ~default_is_frame
        BY <3>1 DEF ControlsRead, m
      <4>4. OwnsDefault <=> Positions("IDAT") = {}
        BY <3>1 DEF DataRead, OwnsDefault, m
      <4>5. default_is_frame' \in BOOLEAN
        BY DEF OwnsDefault, ControlsRead
      <4>6. default_is_frame' <=> Positions("IDAT") = {}
        BY <4>3, <4>4
      <4>7. (\A n \in Positions("IDAT") : ControlAt(1)' < n) <=> Positions("IDAT") = {}
        BY <4>1, <4>2
      <4>8. m + 1 > 0
        BY <1>2
      <4> QED
        BY <4>5, <4>6, <4>7, <4>8
    <3>2. CASE m # 0
      <4>1. ControlAt(1)' = ControlAt(1) /\ m > 0
        BY <1>2, <1>4, <3>2
      <4>2. ~OwnsDefault
        BY <3>2 DEF OwnsDefault, m
      <4>3. default_is_frame' = default_is_frame /\ default_is_frame \in BOOLEAN
        BY <4>2 DEF ControlsRead
      <4>4. default_is_frame <=> m > 0 /\ \A n \in Positions("IDAT") : ControlAt(1) < n
        BY DEF ControlsRead, m
      <4> QED
        BY <1>2, <4>1, <4>3, <4>4
    <3> QED
      BY <3>1, <3>2
  <2>4. \A n \in Positions("fdAT") : \E j \in Positions("fcTL")' : j < n
    BY <1>1 DEF ControlsRead
  <2> QED
    BY <1>1, <1>2, <1>3, <2>1, <2>2, <2>3, <2>4 DEF ControlsRead
<1>8. Positions("IDAT") \in SUBSET (1..Len(file))
  BY PositionsAre DEF FileOk
<1>9. Collected(file', starved', idat_default, Positions("IDAT"))
  BY <1>8, DataStays DEF DataRead
<1>10. ASSUME NEW k \in 1..m PROVE Collected(file', starved', fctls[k].data, Following(k))
  <2>1. Following(k) \in SUBSET (1..Len(file))
    BY FollowingAre DEF FileOk
  <2> QED
    BY <2>1, DataStays DEF DataRead, m
<1>11. Collected(file', starved', NoData, {})
  BY CollectedNone
<1>12. ASSUME NEW k \in 1..(m + 1)
       PROVE  Collected(file', starved', fctls'[k].data, Following(k)')
  <2>1. CASE k = m + 1
    <3>1. Following(k)' = {} /\ fctls'[k] = f
      BY <1>3, <1>6, <2>1
    <3> QED
      BY <1>5, <1>11, <3>1
  <2>2. CASE k \in 1..m
    BY <1>3, <1>4, <1>10, <2>2
  <2>3. k = m + 1 \/ k \in 1..m
    BY <1>2
  <2> QED
    BY <2>1, <2>2, <2>3
<1>13. idat_seen' = (Positions("IDAT")' # {}) /\ idat_default' = idat_default
  BY <1>1 DEF DataRead, dataVars
<1> QED
  BY <1>1, <1>3, <1>7, <1>9, <1>12, <1>13 DEF DataRead

\* Image data before any frame.
LEMMA ReadsIdat ==
  ASSUME FileOk, ControlsRead, DataRead, NEW c, file' = Append(file, c), c.kind = "IDAT",
         NEW oom, starved => starved', oom => starved',
         idat_default' = Put(idat_default, c.piece, oom), idat_seen' = TRUE,
         UNCHANGED frameVars
  PROVE  ControlsRead' /\ DataRead'
<1>1. /\ Positions("IDAT")' = Positions("IDAT") \cup {Len(file) + 1}
      /\ Positions("IDAT") \in SUBSET (1..Len(file))
  BY PositionsGrow, PositionsAre DEF FileOk
<1>2. UNCHANGED <<fctls, fcap, default_is_frame>>
  BY DEF frameVars
<1>3. ControlsRead'
  <2>1. IsSequence(fctls)'
    BY <1>2 DEF ControlsRead, IsSequence
  <2> QED
    BY <1>2, <2>1, ControlsKept DEF ControlsRead
<1>4. Collected(file', starved', Put(idat_default, c.piece, oom),
                Positions("IDAT") \cup {Len(file) + 1})
  BY <1>1, DataGrows DEF DataRead
<1>5. ASSUME NEW k \in 1..Len(fctls)
      PROVE  /\ Collected(file', starved', fctls[k].data, Following(k))
             /\ Following(k)' = Following(k)
  <2>1. Following(k) \in SUBSET (1..Len(file))
    BY FollowingAre DEF FileOk
  <2>2. k \in 1..Cardinality(Positions("fcTL"))
    BY DEF ControlsRead
  <2>3. Following(k)' = Following(k)
    BY <2>2, FollowingGrows DEF FileOk
  <2>4. Collected(file', starved', fctls[k].data, Following(k))
    BY <2>1, DataStays DEF DataRead
  <2> QED
    BY <2>3, <2>4
<1>6. idat_seen' = (Positions("IDAT")' # {})
  BY <1>1
<1>7. Collected(file', starved', idat_default', Positions("IDAT")')
  BY <1>1, <1>4
<1>8. \A k \in 1..Len(fctls') : Collected(file', starved', fctls'[k].data, Following(k)')
  BY <1>2, <1>5
<1> QED
  BY <1>3, <1>6, <1>7, <1>8 DEF DataRead

\* Image data of the last frame.
LEMMA ReadsFdat ==
  ASSUME FileOk, ControlsRead, DataRead, NEW c, file' = Append(file, c), c.kind = "fdAT",
         fctls # <<>>,
         NEW oom, starved => starved', oom => starved',
         fctls' = [fctls EXCEPT ![Len(fctls)].data = Put(@, c.piece, oom)],
         UNCHANGED <<fcap, default_is_frame, dataVars>>
  PROVE  /\ ControlsRead' /\ DataRead' /\ Len(fctls') = Len(fctls) /\ Len(fctls) > 0
         /\ \A k \in 1..Len(fctls) :
              k # Len(fctls) => fctls'[k] = fctls[k]
         /\ fctls'[Len(fctls)].data = Put(fctls[Len(fctls)].data, c.piece, oom)
<1> DEFINE m == Len(fctls)
           f == [ctl |-> fctls[m].ctl, data |-> Put(fctls[m].data, c.piece, oom)]
<1>1. m \in Nat /\ m > 0 /\ m = Cardinality(Positions("fcTL")) /\ m \in 1..m
      /\ DOMAIN fctls = 1..m
  <2>1. PICK S : fctls \in Seq(S)
    BY DEF ControlsRead, IsSequence
  <2>2. Len(fctls) \in Nat /\ Len(fctls) > 0 /\ DOMAIN fctls = 1..Len(fctls)
    BY <2>1, LenProperties, EmptySeq
  <2> QED
    BY <2>2 DEF ControlsRead
<1>2. [fctls[m] EXCEPT !.data = Put(@, c.piece, oom)] = f
  <2>1. fctls[m] = [ctl |-> fctls[m].ctl, data |-> fctls[m].data]
    BY <1>1 DEF ControlsRead
  <2> DEFINE x == fctls[m].ctl
             y == fctls[m].data
             z == Put(fctls[m].data, c.piece, oom)
             r == fctls[m]
  <2>2. r = [ctl |-> x, data |-> y]
    BY <2>1
  <2>3. [fctls[m] EXCEPT !.data = Put(@, c.piece, oom)] = [r EXCEPT !.data = z]
    OBVIOUS
  <2>4. f = [ctl |-> x, data |-> z]
    OBVIOUS
  <2> HIDE DEF x, y, z, r, f
  <2>5. [r EXCEPT !.data = z] = [ctl |-> x, data |-> z]
    <3>1. [r EXCEPT !.data = z] \in [ctl : {x}, data : {z}]
      BY <2>2
    <3>2. \A q \in [ctl : {x}, data : {z}] : q = [ctl |-> x, data |-> z]
      OBVIOUS
    <3> QED
      BY <3>1, <3>2
  <2> QED
    BY <2>3, <2>4, <2>5
<1>3. fctls' = [fctls EXCEPT ![m] = f]
  <2>1. fctls' = [fctls EXCEPT ![m] = [fctls[m] EXCEPT !.data = Put(@, c.piece, oom)]]
    OBVIOUS
  <2> HIDE DEF f, m
  <2> QED
    BY <1>2, <2>1
<1>4. f.ctl = fctls[m].ctl /\ f.data = Put(fctls[m].data, c.piece, oom)
      /\ f = [ctl |-> f.ctl, data |-> f.data]
  OBVIOUS
<1> HIDE DEF f
<1>5. IsSequence(fctls)' /\ Len(fctls') = m
  <2>1. PICK S : fctls \in Seq(S)
    BY DEF ControlsRead, IsSequence
  <2> DEFINE T == S \cup {f}
  <2>2. fctls \in Seq(T) /\ f \in T
    BY <2>1, SeqMonotonic
  <2> HIDE DEF T
  <2>3. fctls' \in Seq(T) /\ Len(fctls') = m
    BY <1>1, <1>3, <2>2, ExceptSeq
  <2> QED
    BY <2>3 DEF IsSequence
<1>6. fctls'[m] = f /\ \A k \in 1..m : k # m => fctls'[k] = fctls[k]
  BY <1>1, <1>3
<1> HIDE DEF m
<1>7. \A k \in 1..m : /\ fctls'[k] = [ctl |-> fctls'[k].ctl, data |-> fctls'[k].data]
                      /\ fctls'[k].ctl = fctls[k].ctl
  <2> SUFFICES ASSUME NEW k \in 1..m
               PROVE  /\ fctls'[k] = [ctl |-> fctls'[k].ctl, data |-> fctls'[k].data]
                      /\ fctls'[k].ctl = fctls[k].ctl
    OBVIOUS
  <2>1. CASE k = m
    BY <1>4, <1>6, <2>1
  <2>2. CASE k # m
    BY <1>6, <2>2 DEF ControlsRead, m
  <2> QED
    BY <2>1, <2>2
<1>8. ControlsRead'
  BY <1>1, <1>5, <1>7, ControlsKept DEF m
<1>9. Positions("IDAT")' = Positions("IDAT") /\ Positions("IDAT") \in SUBSET (1..Len(file))
  BY PositionsGrow, PositionsAre DEF FileOk
<1>10. UNCHANGED <<idat_default, idat_seen>>
  BY DEF dataVars
<1>11. Collected(file', starved', idat_default, Positions("IDAT"))
  BY <1>9, DataStays DEF DataRead
<1>12. ASSUME NEW k \in 1..m
       PROVE  Collected(file', starved', fctls'[k].data, Following(k)')
  <2>1. Following(k) \in SUBSET (1..Len(file))
    BY FollowingAre DEF FileOk
  <2>2. Collected(file, starved, fctls[k].data, Following(k))
    BY DEF DataRead, m
  <2>3. k \in 1..Cardinality(Positions("fcTL"))
    BY <1>1
  <2>4. CASE k = m
    <3>1. Following(k)' = Following(k) \cup {Len(file) + 1}
      BY <1>1, <2>3, <2>4, FollowingGrows DEF FileOk
    <3>2. Collected(file', starved', Put(fctls[k].data, c.piece, oom),
                    Following(k) \cup {Len(file) + 1})
      BY <2>1, <2>2, DataGrows
    <3> QED
      BY <1>4, <1>6, <2>4, <3>1, <3>2
  <2>5. CASE k # m
    <3>1. Following(k)' = Following(k)
      BY <1>1, <2>3, <2>5, FollowingGrows DEF FileOk
    <3>2. Collected(file', starved', fctls[k].data, Following(k))
      BY <2>1, <2>2, DataStays
    <3> QED
      BY <1>6, <2>5, <3>1, <3>2
  <2> QED
    BY <2>4, <2>5
<1>13. DataRead'
  BY <1>5, <1>9, <1>10, <1>11, <1>12 DEF DataRead
<1> QED
  BY <1>1, <1>4, <1>5, <1>6, <1>8, <1>13 DEF m

\* No chunk and no later step makes the first pass forget.
LEMMA ReadingStep ==
  ASSUME FileOk, Reading, AnyChunk \/ LoadStep \/ UNCHANGED vars
  PROVE  Reading'
<1>1. CASE LoadStep \/ UNCHANGED vars
  <2>1. /\ UNCHANGED <<file, fctls, fcap, default_is_frame, idat_default, idat_seen>>
        /\ starved => starved'
        /\ pc = "done" => pc' = "done"
    <3>1. UNCHANGED <<file, fctls, fcap, default_is_frame, idat_default, idat_seen>>
      BY <1>1, LoadStepKeepsFile
    <3>2. CASE CheckCanvas
      BY <3>1, <3>2 DEF CheckCanvas
    <3>3. CASE LoadStill
      <4>1. pc # "done"
        BY <3>3 DEF LoadStill
      <4>2. starved' = starved \/ starved' = TRUE \/ \E x : starved' = (starved \/ x)
        BY <3>3 DEF LoadStill, TakeMetadata
      <4>3. starved => starved'
        BY <4>2, Zenon
      <4> QED
        BY <3>1, <4>1, <4>3
    <3>4. CASE AllocateCanvas
      BY <3>1, <3>4 DEF AllocateCanvas
    <3>5. CASE Compose
      <4>1. pc # "done"
        BY <3>5 DEF Compose
      <4>2. starved' = starved \/ starved' = TRUE
        BY <3>5 DEF Compose
      <4> QED
        BY <3>1, <4>1, <4>2
    <3>6. CASE ReturnFrames
      BY <3>1, <3>6 DEF ReturnFrames, TakeMetadata
    <3>7. CASE UNCHANGED vars
      BY <3>1, <3>7 DEF vars
    <3> QED
      BY <1>1, <3>2, <3>3, <3>4, <3>5, <3>6, <3>7 DEF LoadStep
  <2> SUFFICES ASSUME pc # "done", pc' # "done" PROVE ControlsRead' /\ DataRead'
    BY <2>1 DEF Reading
  <2>2. ControlsRead /\ DataRead
    BY DEF Reading
  <2>3. ControlsRead'
    BY <2>1, <2>2 DEF ControlsRead, IsSequence, Positions, ControlAt
  <2>4. Positions("IDAT") \in SUBSET Nat /\ IsFiniteSet(Positions("IDAT"))
    BY PositionsAre DEF FileOk
  <2>5. Collected(file, starved', idat_default, Positions("IDAT"))
    BY <2>1, <2>2, <2>4, CollectedStays DEF DataRead
  <2>6. ASSUME NEW k \in 1..Len(fctls)
        PROVE  Collected(file, starved', fctls[k].data, Following(k))
    <3>1. Following(k) \in SUBSET Nat /\ IsFiniteSet(Following(k))
      BY FollowingAre DEF FileOk
    <3>2. Collected(file, starved, fctls[k].data, Following(k))
      BY <2>2 DEF DataRead
    <3> QED
      BY <2>1, <3>1, <3>2, CollectedStays
  <2>7. \A K : Positions(K)' = Positions(K)
    BY <2>1 DEF Positions
  <2>8. \A k : Following(k)' = Following(k)
    BY <2>1, <2>7 DEF Following, UntilOf, ControlAt
  <2> QED
    BY <2>1, <2>2, <2>3, <2>5, <2>6, <2>7, <2>8 DEF DataRead
<1>2. ASSUME NEW c, Take(c) PROVE Reading'
  <2>1. pc = "walk" /\ file' = Append(file, c) /\ ControlsRead /\ DataRead
    BY <1>2, TakeReads DEF Reading
  <2>2. CASE ReadHeader(c) \/ ReadActl(c) \/ ReadPlte(c) \/ ReadTrns(c) \/ ReadOther(c)
             \/ ReadEnd(c)
    <3>1. c.kind \notin {"fcTL", "IDAT", "fdAT"} /\ UNCHANGED <<frameVars, dataVars, starved>>
      BY <2>2 DEF ReadHeader, ReadActl, ReadPlte, ReadTrns, ReadOther, ReadEnd
    <3> QED
      BY <2>1, <3>1, ReadsNothing DEF Reading
  <2>3. CASE ReadFctl(c)
    <3> SUFFICES ASSUME pc' # "done" PROVE ControlsRead' /\ DataRead'
      BY DEF Reading
    <3>1. PICK oom \in OutOfMemory :
            /\ oom => Full
            /\ starved' = (starved \/ oom)
            /\ IF oom
                 THEN Fail({}) /\ UNCHANGED frameVars
                 ELSE /\ fctls' = Append(fctls, [ctl |-> c, data |-> NoData])
                      /\ fcap' = IF Full THEN Capacity ELSE fcap
                      /\ default_is_frame' = (default_is_frame \/ OwnsDefault)
                      /\ heap' = heap \cup {Block("fctls")}
                      /\ UNCHANGED <<pc, drawVars>>
      BY <2>3 DEF ReadFctl
    <3>2. ~oom
      BY <3>1 DEF Fail
    <3>3. c.kind = "fcTL" /\ UNCHANGED dataVars
      BY <2>3 DEF ReadFctl
    <3>4. starved => starved'
      <4>1. starved' = (starved \/ oom)
        BY <3>1
      <4> QED
        BY <4>1, Zenon
    <3> QED
      BY <2>1, <3>1, <3>2, <3>3, <3>4, ReadsFctl
  <2>4. CASE ReadIdat(c)
    <3>1. PICK oom \in OutOfMemory :
            starved' = (starved \/ oom) /\ idat_default' = Put(idat_default, c.piece, oom)
      BY <2>4 DEF ReadIdat
    <3>2. c.kind = "IDAT" /\ idat_seen' = TRUE /\ UNCHANGED frameVars
      BY <2>4 DEF ReadIdat
    <3>3. (starved => starved') /\ (oom => starved')
      BY <3>1
    <3> QED
      BY <2>1, <3>1, <3>2, <3>3, ReadsIdat DEF Reading
  <2>5. CASE ReadFdat(c)
    <3> SUFFICES ASSUME pc' # "done" PROVE ControlsRead' /\ DataRead'
      BY DEF Reading
    <3>1. fctls # <<>>
      BY <2>5 DEF ReadFdat, Fail
    <3>2. PICK oom \in OutOfMemory :
            /\ starved' = (starved \/ oom)
            /\ fctls' = [fctls EXCEPT ![Len(fctls)].data = Put(@, c.piece, oom)]
            /\ UNCHANGED <<pc, fcap, default_is_frame, drawVars>>
      BY <2>5, <3>1 DEF ReadFdat
    <3>3. c.kind = "fdAT" /\ UNCHANGED dataVars
      BY <2>5 DEF ReadFdat
    <3>4. (starved => starved') /\ (oom => starved')
      BY <3>2
    <3> QED
      BY <2>1, <3>1, <3>2, <3>3, <3>4, ReadsFdat
  <2> QED
    BY <1>2, <2>2, <2>3, <2>4, <2>5 DEF Take, ReadChunk
<1> QED
  BY <1>1, <1>2 DEF AnyChunk

------------------------------------------------------------------------------
(* Types and memory.                                                         *)

\* A file without a control has one frame to show.
LEMMA MaxOfTwo ==
  ASSUME NEW n \in Nat
  PROVE  Max({1, n}) = IF n <= 1 THEN 1 ELSE n
<1>1. {1, n} \in SUBSET Int
  OBVIOUS
<1>2. n <= 1 => Max({1, n}) = 1
  BY <1>1, MaxIs
<1>3. ~(n <= 1) => Max({1, n}) = n
  BY <1>1, MaxIs
<1> QED
  BY <1>2, <1>3

\* apng_load has composed no frame yet.
Early == {"walk", "check", "still", "canvas"}

\* Where apng_load is, and how many frames it has read and composed.
Typed ==
  /\ pc \in Early \cup {"compose", "done"}
  /\ plte \in BOOLEAN /\ default_is_frame \in BOOLEAN /\ idat_seen \in BOOLEAN
  /\ metadata \in BOOLEAN /\ loaded \in BOOLEAN /\ starved \in BOOLEAN
  /\ IsSequence(fctls) /\ Len(fctls) <= Len(file)
  /\ fcap \in Nat /\ Len(fctls) <= fcap
  /\ pc # "walk" => Len(file) > 0
  /\ IsSequence(shots)
  /\ pc \in Early => shots = <<>>
  /\ pc = "compose" => Len(shots) <= Len(fctls)
  /\ pc = "done" => Len(shots) <= 1 \/ Len(shots) <= Len(fctls)
  /\ pc # "done" => ~loaded /\ ~metadata

\* Until it returns, a load holds its scratch blocks, the frames and their shots.
HeapOk ==
  /\ pc \in Early => heap \subseteq Scratch
  /\ pc = "compose" => heap \subseteq Scratch \cup {Block("frames")} \cup Shots(Len(shots))
  /\ NothingLeaks

\* A failure leaves nothing allocated.
LEMMA FailIs ==
  ASSUME Typed, HeapOk, pc # "done",
         NEW also \in SUBSET {Block("frames"), Block("canvas"), Block("prevbuf")},
         Fail(also)
  PROVE  /\ pc' = "done" /\ heap' = {}
         /\ UNCHANGED <<canvas, shots, metadata, loaded>> /\ ~loaded'
<1>1. heap \subseteq Scratch \cup {Block("frames")} \cup Shots(Len(shots))
  BY DEF Typed, HeapOk
<1>2. also \subseteq Scratch \cup {Block("frames")}
  BY DEF Scratch
<1>3. heap' = {}
  <2>1. heap' = (heap \cup also) \ (Scratch \cup {Block("frames")} \cup Shots(Len(shots)))
    BY DEF Fail
  <2> QED
    BY <1>1, <1>2, <2>1
<1> QED
  BY <1>3 DEF Fail, drawVars, Typed

\* The data blocks do not depend on what is put behind them.
LEMMA PutKeeps ==
  ASSUME NEW f, NEW short, NEW P, NEW data, Collected(f, short, data, P),
         IsFiniteSet(P), NEW piece, NEW oom
  PROVE  data.pieces # <<>> => Put(data, piece, oom).pieces # <<>>
<1>1. PICK m \in 0..Cardinality(P) :
        data = [ pieces |-> [n \in 1..m |-> f[Nth(P, n)].piece], failed |-> data.failed ]
  BY DEF Collected
<1> DEFINE x == data.pieces
<1>2. \E S : x \in Seq(S)
  <2>1. m \in Nat
    BY FS_CardinalityType
  <2> DEFINE p == [n \in Nat |-> f[Nth(P, n)].piece]
  <2>2. [n \in 1..m |-> f[Nth(P, n)].piece] = [n \in 1..m |-> p[n]]
    BY <2>1
  <2> DEFINE q == [n \in 1..m |-> f[Nth(P, n)].piece]
  <2>3. x = q
    <3>1. data = [pieces |-> q, failed |-> data.failed]
      BY <1>1
    <3> HIDE DEF q
    <3> QED
      BY <3>1
  <2> HIDE DEF p, x, q
  <2>4. \E S : [n \in 1..m |-> p[n]] \in Seq(S)
    BY <2>1, SeqIs
  <2> QED
    BY <2>2, <2>3, <2>4 DEF q
<1>3. data = [pieces |-> x, failed |-> data.failed]
  <2> DEFINE q == [n \in 1..m |-> f[Nth(P, n)].piece]
  <2>1. data = [pieces |-> q, failed |-> data.failed]
    BY <1>1
  <2> HIDE DEF q
  <2> QED
    BY <2>1
<1>4. ASSUME ~data.failed, ~oom PROVE Put(data, piece, oom).pieces # <<>>
  <2> DEFINE more == Append(x, piece)
  <2>1. Put(data, piece, oom) = [data EXCEPT !.pieces = more]
    BY <1>4 DEF Put
  <2>2. more # <<>>
    <3> HIDE DEF x
    <3>1. Len(x) \in Nat /\ Len(more) = Len(x) + 1
      BY <1>2, SeqGrows
    <3>2. Len(<<>>) = 0
      OBVIOUS
    <3> HIDE DEF more
    <3> QED
      BY <3>1, <3>2
  <2> HIDE DEF more, x
  <2>3. [data EXCEPT !.pieces = more] = [pieces |-> more, failed |-> data.failed]
    BY <1>3, PutIs
  <2> QED
    BY <2>1, <2>2, <2>3
<1>5. ASSUME ~data.failed, oom PROVE Put(data, piece, oom).pieces = data.pieces
  <2>1. Put(data, piece, oom) = [data EXCEPT !.failed = TRUE]
    BY <1>5 DEF Put
  <2> HIDE DEF x
  <2>2. [data EXCEPT !.failed = TRUE] = [pieces |-> x, failed |-> TRUE]
    BY <1>3, PutIs, Zenon
  <2> QED
    BY <2>1, <2>2 DEF x
<1>6. data.failed => Put(data, piece, oom) = data
  BY DEF Put
<1> QED
  BY <1>4, <1>5, <1>6

\* A chunk keeps the types, and allocates nothing that is not released.
LEMMA ChunkTyped ==
  ASSUME FileOk, Reading, Typed, HeapOk, AnyChunk
  PROVE  Typed' /\ HeapOk'
<1>0. PICK c : Take(c)
  BY DEF AnyChunk
<1>1. /\ pc = "walk" /\ ControlsRead /\ DataRead /\ shots = <<>> /\ heap \subseteq Scratch
      /\ ~loaded /\ ~metadata
      /\ Len(file) \in Nat /\ Len(file') = Len(file) + 1 /\ Len(fctls) \in Nat
  <2>1. pc = "walk" /\ file' = Append(file, c)
    BY <1>0, TakeReads
  <2>2. Len(file) \in Nat /\ Len(file') = Len(file) + 1
    BY <2>1, FileGrows DEF FileOk
  <2>3. Len(fctls) \in Nat
    <3>1. PICK S : fctls \in Seq(S)
      BY DEF Typed, IsSequence
    <3> QED
      BY <3>1, LenProperties
  <2> QED
    BY <2>1, <2>2, <2>3 DEF Reading, Typed, HeapOk, Early
<1>2. ASSUME pc' \in {"walk", "check"}, UNCHANGED <<drawVars, frameVars>>,
             plte' \in BOOLEAN, idat_seen' \in BOOLEAN, starved' \in BOOLEAN,
             heap' \subseteq Scratch'
      PROVE  Typed' /\ HeapOk'
  <2>1. UNCHANGED <<shots, metadata, loaded, fctls, fcap, default_is_frame>>
    BY <1>2 DEF drawVars, frameVars
  <2>2. IsSequence(fctls)' /\ IsSequence(shots)'
    BY <2>1 DEF Typed, IsSequence
  <2>3. Typed'
    BY <1>1, <1>2, <2>1, <2>2 DEF Typed, Early
  <2> QED
    BY <1>2, <2>3 DEF HeapOk, NothingLeaks
<1>3. ASSUME Fail({}), UNCHANGED <<plte, idat_seen, frameVars>>, starved' \in BOOLEAN
      PROVE  Typed' /\ HeapOk'
  <2>1. /\ pc' = "done" /\ heap' = {}
        /\ UNCHANGED <<canvas, shots, metadata, loaded>> /\ ~loaded'
    BY <1>1, <1>3, FailIs
  <2>2. UNCHANGED <<fctls, fcap, default_is_frame>>
    BY <1>3 DEF frameVars
  <2>3. IsSequence(fctls)' /\ IsSequence(shots)'
    BY <2>1, <2>2 DEF Typed, IsSequence
  <2>4. Len(shots') <= 1
    BY <1>1, <2>1
  <2>5. Typed'
    BY <1>1, <1>3, <2>1, <2>2, <2>3, <2>4 DEF Typed, Early
  <2> QED
    BY <2>1, <2>5 DEF HeapOk, NothingLeaks, Early
<1>4. CASE ReadHeader(c) \/ ReadActl(c) \/ ReadPlte(c) \/ ReadTrns(c) \/ ReadOther(c)
             \/ ReadEnd(c)
  <2>1. /\ UNCHANGED <<frameVars, dataVars, drawVars, heap, starved>>
        /\ pc' \in {"walk", "check"} /\ plte' \in BOOLEAN
    BY <1>1, <1>4
    DEF ReadHeader, ReadActl, ReadPlte, ReadTrns, ReadOther, ReadEnd, Typed, headVars
  <2>2. Scratch' = Scratch /\ idat_seen' = idat_seen
    BY <2>1 DEF Scratch, DataBlocks, frameVars, dataVars
  <2> QED
    BY <1>1, <1>2, <2>1, <2>2 DEF Typed
<1>5. CASE ReadFctl(c)
  <2>1. PICK oom \in OutOfMemory :
          /\ starved' = (starved \/ oom)
          /\ IF oom
               THEN Fail({}) /\ UNCHANGED frameVars
               ELSE /\ fctls' = Append(fctls, [ctl |-> c, data |-> NoData])
                    /\ fcap' = IF Full THEN Capacity ELSE fcap
                    /\ default_is_frame' = (default_is_frame \/ OwnsDefault)
                    /\ heap' = heap \cup {Block("fctls")}
                    /\ UNCHANGED <<pc, drawVars>>
    BY <1>5 DEF ReadFctl
  <2>2. starved' \in BOOLEAN
    BY <2>1 DEF Typed
  <2>3. UNCHANGED <<plte, idat_seen, idat_default>>
    BY <1>5 DEF ReadFctl, headVars, dataVars
  <2>4. CASE oom
    BY <1>3, <2>1, <2>2, <2>3, <2>4
  <2>5. CASE ~oom
    <3> DEFINE f == [ctl |-> c, data |-> NoData]
    <3>1. /\ fctls' = Append(fctls, f)
          /\ default_is_frame' = (default_is_frame \/ OwnsDefault)
          /\ heap' = heap \cup {Block("fctls")}
          /\ UNCHANGED <<pc, canvas, shots, metadata, loaded>>
      BY <2>1, <2>5 DEF drawVars
    <3> HIDE DEF f
    <3>2. /\ IsSequence(fctls)' /\ Len(fctls') = Len(fctls) + 1
          /\ \A k \in 1..Len(fctls) : fctls'[k] = fctls[k]
      <4>1. /\ \E S : Append(fctls, f) \in Seq(S)
            /\ Len(Append(fctls, f)) = Len(fctls) + 1
            /\ \A k \in 1..Len(fctls) : Append(fctls, f)[k] = fctls[k]
        BY SeqGrows, ZenonT(40) DEF Typed, IsSequence
      <4>2. IsSequence(fctls)'
        BY <3>1, <4>1 DEF IsSequence
      <4> QED
        BY <3>1, <4>1, <4>2
    <3>3. default_is_frame' \in BOOLEAN
      BY <3>1 DEF Typed
    <3>4. fcap' \in Nat /\ Len(fctls') <= fcap'
      <4>1. fcap' = IF Len(fctls) = fcap THEN IF fcap = 0 THEN FirstCapacity ELSE 2 * fcap
                                         ELSE fcap
        BY <2>1, <2>5 DEF Full, Capacity
      <4>2. fcap \in Nat /\ Len(fctls) <= fcap /\ FirstCapacity \in Nat \ {0}
        BY ApngAssumption DEF Typed
      <4> QED
        BY <1>1, <3>2, <4>1, <4>2
    <3>5. Scratch \subseteq Scratch' /\ Block("fctls") \in Scratch'
      <4>1. DataBlocks \subseteq DataBlocks'
        <5>1. ASSUME NEW k \in 1..Len(fctls), fctls[k].data.pieces # <<>>
              PROVE  k \in 1..Len(fctls') /\ fctls'[k].data.pieces # <<>>
          BY <1>1, <3>2, <5>1
        <5> QED
          BY <2>3, <5>1 DEF DataBlocks
      <4> QED
        BY <4>1 DEF Scratch
    <3>6. heap' \subseteq Scratch'
      BY <1>1, <3>1, <3>5
    <3>7. IsSequence(shots)'
      BY <3>1 DEF Typed, IsSequence
    <3>8. Typed'
      BY <1>1, <2>2, <2>3, <3>1, <3>2, <3>3, <3>4, <3>7 DEF Typed, Early
    <3> QED
      BY <1>1, <3>1, <3>6, <3>8 DEF HeapOk, NothingLeaks
  <2> QED
    BY <2>4, <2>5
<1>6. CASE ReadIdat(c)
  <2>1. PICK oom \in OutOfMemory :
          starved' = (starved \/ oom) /\ idat_default' = Put(idat_default, c.piece, oom)
    BY <1>6 DEF ReadIdat
  <2>2. /\ idat_seen' = TRUE /\ heap' = heap \cup DataBlocks'
        /\ UNCHANGED <<pc, headVars, frameVars, drawVars>>
    BY <1>6 DEF ReadIdat
  <2>3. starved' \in BOOLEAN /\ plte' \in BOOLEAN /\ idat_seen' \in BOOLEAN
    BY <2>1, <2>2 DEF Typed, headVars
  <2>4. idat_default.pieces # <<>> => idat_default'.pieces # <<>>
    <3>1. IsFiniteSet(Positions("IDAT"))
      BY PositionsAre DEF FileOk
    <3> QED
      BY <1>1, <2>1, <3>1, PutKeeps DEF DataRead
  <2>5. Scratch \subseteq Scratch' /\ DataBlocks' \subseteq Scratch'
    BY <2>2, <2>4 DEF Scratch, DataBlocks, frameVars
  <2>6. heap' \subseteq Scratch'
    BY <1>1, <2>2, <2>5
  <2> QED
    BY <1>1, <1>2, <2>2, <2>3, <2>6
<1>7. CASE ReadFdat(c)
  <2>1. UNCHANGED <<headVars, dataVars>>
    BY <1>7 DEF ReadFdat
  <2>2. CASE fctls = <<>>
    <3>1. Fail({}) /\ UNCHANGED <<frameVars, starved>>
      BY <1>7, <2>2 DEF ReadFdat
    <3> QED
      BY <1>3, <2>1, <3>1 DEF headVars, dataVars, Typed
  <2>3. CASE fctls # <<>>
    <3>1. PICK oom \in OutOfMemory :
            /\ starved' = (starved \/ oom)
            /\ fctls' = [fctls EXCEPT ![Len(fctls)].data = Put(@, c.piece, oom)]
            /\ heap' = heap \cup DataBlocks'
            /\ UNCHANGED <<pc, fcap, default_is_frame, drawVars>>
      BY <1>7, <2>3 DEF ReadFdat
    <3>2. starved' \in BOOLEAN
      BY <3>1 DEF Typed
    <3>3. /\ ControlsRead' /\ Len(fctls') = Len(fctls) /\ Len(fctls) > 0
          /\ \A k \in 1..Len(fctls) : k # Len(fctls) => fctls'[k] = fctls[k]
          /\ fctls'[Len(fctls)].data = Put(fctls[Len(fctls)].data, c.piece, oom)
      <4>1. (starved => starved') /\ (oom => starved')
        BY <3>1
      <4>2. file' = Append(file, c) /\ c.kind = "fdAT"
        BY <1>7 DEF ReadFdat, Read
      <4> QED
        BY <1>1, <2>1, <2>3, <3>1, <4>1, <4>2, ReadsFdat
    <3>4. ASSUME NEW k \in 1..Len(fctls), fctls[k].data.pieces # <<>>
          PROVE  fctls'[k].data.pieces # <<>>
      <4>1. IsFiniteSet(Following(k))
        BY FollowingAre DEF FileOk
      <4>2. Collected(file, starved, fctls[k].data, Following(k))
        BY <1>1 DEF DataRead
      <4>3. Put(fctls[k].data, c.piece, oom).pieces # <<>>
        BY <3>4, <4>1, <4>2, PutKeeps
      <4> QED
        BY <3>3, <3>4, <4>3
    <3>5. UNCHANGED <<idat_default, idat_seen, plte>>
      BY <2>1 DEF dataVars, headVars
    <3>6. Scratch \subseteq Scratch' /\ DataBlocks' \subseteq Scratch'
      BY <3>3, <3>4, <3>5 DEF Scratch, DataBlocks
    <3>7. heap' \subseteq Scratch'
      BY <1>1, <3>1, <3>6
    <3>8. UNCHANGED <<shots, metadata, loaded>>
      BY <3>1 DEF drawVars
    <3>9. IsSequence(fctls)' /\ IsSequence(shots)'
      BY <3>3, <3>8 DEF Typed, IsSequence, ControlsRead
    <3>10. Typed'
      BY <1>1, <3>1, <3>2, <3>3, <3>5, <3>8, <3>9 DEF Typed, Early
    <3> QED
      BY <1>1, <3>1, <3>7, <3>10 DEF HeapOk, NothingLeaks
  <2> QED
    BY <2>2, <2>3
<1> QED
  BY <1>0, <1>4, <1>5, <1>6, <1>7 DEF Take, ReadChunk

\* A load that succeeds keeps what it returns.
LEMMA Returned ==
  ASSUME NEW before, before \subseteq Scratch \cup {Block("frames")} \cup Shots(Len(shots)'),
         heap' = ((before \ Scratch) \cup {Block("frames")} \cup Shots(Len(shots)'))
                     \cup (IF metadata' THEN {Block("metadata")} ELSE {}),
         loaded' = TRUE
  PROVE  NothingLeaks'
<1>1. heap' = ({Block("frames")} \cup Shots(Len(shots)'))
                \cup (IF metadata' THEN {Block("metadata")} ELSE {})
  OBVIOUS
<1> QED
  BY <1>1 DEF NothingLeaks, Shots, Block

\* So does every step behind the chunks.
LEMMA StepTyped ==
  ASSUME FileOk, Typed, HeapOk, LoadStep \/ UNCHANGED vars
  PROVE  Typed' /\ HeapOk'
<1>1. /\ UNCHANGED <<file, fctls, fcap, default_is_frame, idat_default, idat_seen, plte>>
      /\ Scratch' = Scratch /\ IsSequence(fctls)' /\ Len(fctls) \in Nat
  <2>1. UNCHANGED <<file, fctls, fcap, default_is_frame, idat_default, idat_seen, plte>>
    BY LoadStepKeepsFile
  <2>2. PICK S : fctls \in Seq(S)
    BY DEF Typed, IsSequence
  <2> QED
    BY <2>1, <2>2, LenProperties DEF Scratch, DataBlocks, Typed, IsSequence
<1>2. ASSUME pc \notin {"walk", "done"}, UNCHANGED shots, starved' \in BOOLEAN,
             pc' = "done" /\ heap' = {} /\ UNCHANGED metadata /\ ~loaded' /\ loaded' = loaded
      PROVE  Typed' /\ HeapOk'
  <2>1. IsSequence(shots)' /\ (Len(shots') <= 1 \/ Len(shots') <= Len(fctls'))
    <3>1. shots = <<>> \/ Len(shots) <= Len(fctls)
      BY <1>2 DEF Typed
    <3> QED
      BY <1>1, <1>2, <3>1 DEF Typed, IsSequence
  <2>2. Len(file) > 0
    BY <1>2, <1>1 DEF Typed
  <2>3. Typed'
    BY <1>1, <1>2, <2>1, <2>2 DEF Typed, Early
  <2> QED
    BY <1>2, <2>3 DEF HeapOk, NothingLeaks, Early
<1>3. CASE UNCHANGED vars
  <2>1. UNCHANGED <<pc, metadata, loaded, starved, shots, heap>>
    BY <1>3 DEF vars, drawVars
  <2> QED
    BY <1>1, <2>1 DEF Typed, HeapOk, NothingLeaks, IsSequence
<1>4. ASSUME pc \notin {"walk", "done"}, starved' \in BOOLEAN,
             NEW also \in SUBSET {Block("frames"), Block("canvas"), Block("prevbuf")},
             Fail(also)
      PROVE  Typed' /\ HeapOk'
  <2>1. /\ pc' = "done" /\ heap' = {}
        /\ UNCHANGED <<canvas, shots, metadata, loaded>> /\ ~loaded'
    BY <1>4, FailIs
  <2> QED
    BY <1>2, <1>4, <2>1
<1>5. CASE CheckCanvas
  <2>1. pc = "check" /\ starved' = starved /\ starved' \in BOOLEAN
    BY <1>5 DEF CheckCanvas, Typed
  <2>2. CASE ihdr.size = "canvas"
    <3>1. pc' \in {"still", "canvas"} /\ UNCHANGED <<heap, shots, metadata, loaded>>
      BY <1>5, <2>2 DEF CheckCanvas, drawVars
    <3>2. IsSequence(shots)'
      BY <3>1 DEF Typed, IsSequence
    <3>3. Typed'
      BY <1>1, <2>1, <3>1, <3>2 DEF Typed, Early
    <3> QED
      BY <1>1, <2>1, <3>1, <3>3 DEF HeapOk, NothingLeaks, Early
  <2>3. CASE ihdr.size # "canvas"
    <3>1. Fail({})
      BY <1>5, <2>3 DEF CheckCanvas
    <3> QED
      BY <1>4, <2>1, <3>1
  <2> QED
    BY <2>2, <2>3
<1>6. ASSUME pc \notin {"walk", "done"}, Return, TakeMetadata, IsSequence(shots)',
             Len(shots') <= 1 \/ Len(shots') <= Len(fctls),
             heap \subseteq Scratch \cup {Block("frames")} \cup Shots(Len(shots)')
      PROVE  Typed' /\ HeapOk'
  <2>1. PICK oom \in OutOfMemory :
          /\ metadata' = (HasMetadata /\ ~oom)
          /\ starved' = (starved \/ (HasMetadata /\ oom))
          /\ heap' = ((heap \ Scratch) \cup {Block("frames")} \cup Shots(Len(shots')))
                       \cup (IF metadata' THEN {Block("metadata")} ELSE {})
    BY <1>6 DEF TakeMetadata
  <2>2. pc' = "done" /\ loaded' = TRUE
    BY <1>6 DEF Return
  <2>3. metadata' \in BOOLEAN /\ starved' \in BOOLEAN
    BY <2>1
  <2>4. NothingLeaks'
    BY <1>6, <2>1, <2>2, Returned
  <2>5. Len(file) > 0
    BY <1>6 DEF Typed
  <2>6. Typed'
    BY <1>1, <1>6, <2>2, <2>3, <2>5 DEF Typed, Early
  <2> QED
    BY <2>2, <2>4, <2>6 DEF HeapOk, Early
<1>7. CASE LoadStill
  <2>1. /\ pc = "still" /\ heap \subseteq Scratch
        /\ \/ Fail({}) /\ (starved' = starved \/ starved' = TRUE)
           \/ /\ shots' = <<[pixels |-> Samples(idat_default.pieces[1].pic), delay |-> 0]>>
              /\ Return /\ TakeMetadata
    BY <1>7 DEF LoadStill, HeapOk, Early
  <2>2. CASE Fail({}) /\ (starved' = starved \/ starved' = TRUE)
    <3>1. starved' \in BOOLEAN
      BY <2>2 DEF Typed
    <3> QED
      BY <1>4, <2>1, <2>2, <3>1
  <2>3. CASE /\ shots' = <<[pixels |-> Samples(idat_default.pieces[1].pic), delay |-> 0]>>
             /\ Return /\ TakeMetadata
    <3> DEFINE f == [pixels |-> Samples(idat_default.pieces[1].pic), delay |-> 0]
    <3>1. <<f>> \in Seq({f}) /\ Len(<<f>>) = 1 /\ shots' = <<f>>
      BY <2>3
    <3> HIDE DEF f
    <3>2. IsSequence(shots)' /\ Len(shots') <= 1
      <4>1. shots' \in Seq({f}) /\ Len(shots') = 1
        BY <3>1
      <4>2. IsSequence(shots)'
        BY <4>1, Zenon DEF IsSequence
      <4> QED
        BY <4>1, <4>2
    <3>3. heap \subseteq Scratch \cup {Block("frames")} \cup Shots(Len(shots)')
      BY <2>1
    <3> QED
      BY <1>6, <2>1, <2>3, <3>2, <3>3
  <2> QED
    BY <2>1, <2>2, <2>3
<1>8. CASE AllocateCanvas
  <2> DEFINE wanted == {Block("frames"), Block("canvas"), Block("prevbuf")}
  <2>1. PICK missed \in SUBSET wanted :
          /\ starved' = (starved \/ missed # {})
          /\ IF missed = {}
               THEN pc' = "compose" /\ heap' = heap \cup wanted /\ UNCHANGED drawVars
               ELSE Fail(wanted \ missed)
    BY <1>8 DEF AllocateCanvas
  <2>2. pc = "canvas" /\ heap \subseteq Scratch /\ shots = <<>> /\ starved' \in BOOLEAN
    BY <1>8, <2>1 DEF AllocateCanvas, HeapOk, Early, Typed
  <2>3. CASE missed = {}
    <3>1. /\ pc' = "compose" /\ heap' = heap \cup wanted
          /\ UNCHANGED <<shots, metadata, loaded>>
      BY <2>1, <2>3 DEF drawVars
    <3>2. IsSequence(shots)' /\ Len(shots') = 0
      BY <2>2, <3>1 DEF Typed, IsSequence
    <3>3. Typed'
      BY <1>1, <2>2, <3>1, <3>2 DEF Typed, Early
    <3>4. heap' \subseteq Scratch' \cup {Block("frames")} \cup Shots(Len(shots'))
      BY <1>1, <2>2, <3>1 DEF Scratch
    <3> QED
      BY <3>1, <3>3, <3>4 DEF HeapOk, NothingLeaks, Early
  <2>4. CASE missed # {}
    <3>1. Fail(wanted \ missed) /\ wanted \ missed \in SUBSET wanted
      BY <2>1, <2>4
    <3> QED
      BY <1>4, <2>2, <3>1
  <2> QED
    BY <2>3, <2>4
<1>9. Len(shots) \in Nat
  <2>1. PICK S : shots \in Seq(S)
    BY DEF Typed, IsSequence
  <2> QED
    BY <2>1, LenProperties
<1>10. CASE Compose
  <2>1. /\ pc = "compose" /\ Len(shots) < Len(fctls)
        /\ \/ Fail({}) /\ (starved' = starved \/ starved' = TRUE)
           \/ /\ \E f : shots' = Append(shots, f)
              /\ heap' = heap \cup Shots(Len(shots'))
              /\ UNCHANGED <<pc, metadata, loaded, starved>>
    BY <1>10 DEF Compose
  <2>2. CASE Fail({}) /\ (starved' = starved \/ starved' = TRUE)
    <3>1. starved' \in BOOLEAN
      BY <2>2 DEF Typed
    <3> QED
      BY <1>4, <2>1, <2>2, <3>1
  <2>3. ASSUME NEW f, shots' = Append(shots, f), heap' = heap \cup Shots(Len(shots')),
               UNCHANGED <<pc, metadata, loaded, starved>>
        PROVE  Typed' /\ HeapOk'
    <3>1. IsSequence(shots)' /\ Len(shots') = Len(shots) + 1
      <4>1. (\E S : Append(shots, f) \in Seq(S)) /\ Len(Append(shots, f)) = Len(shots) + 1
        BY SeqGrows DEF Typed, IsSequence
      <4>2. IsSequence(shots)'
        BY <2>3, <4>1 DEF IsSequence
      <4> QED
        BY <2>3, <4>1, <4>2
    <3>2. Len(shots') <= Len(fctls)
      BY <1>1, <1>9, <2>1, <3>1
    <3>3. Typed'
      BY <1>1, <2>1, <2>3, <3>1, <3>2 DEF Typed, Early
    <3>4. Shots(Len(shots)) \subseteq Shots(Len(shots'))
      <4>1. \A k \in 1..Len(shots) : k \in 1..Len(shots')
        BY <1>9, <3>1
      <4> QED
        BY <4>1 DEF Shots
    <3>5. heap \subseteq Scratch \cup {Block("frames")} \cup Shots(Len(shots))
      BY <2>1 DEF HeapOk
    <3>6. heap' \subseteq Scratch' \cup {Block("frames")} \cup Shots(Len(shots'))
      BY <1>1, <2>3, <3>4, <3>5
    <3> QED
      BY <2>1, <2>3, <3>3, <3>6 DEF HeapOk, NothingLeaks, Early
  <2> QED
    BY <2>1, <2>2, <2>3
<1>11. CASE ReturnFrames
  <2>1. pc = "compose" /\ Return /\ TakeMetadata /\ shots' = shots
    BY <1>11 DEF ReturnFrames
  <2>2. IsSequence(shots)' /\ Len(shots') <= Len(fctls)
    BY <2>1 DEF Typed, IsSequence
  <2>3. heap \subseteq Scratch \cup {Block("frames")} \cup Shots(Len(shots)')
    BY <2>1 DEF HeapOk
  <2> QED
    BY <1>6, <2>1, <2>2, <2>3
<1> QED
  BY <1>3, <1>5, <1>7, <1>8, <1>10, <1>11 DEF LoadStep

------------------------------------------------------------------------------
(* Layers, one by one.                                                       *)

\* What is added behind a sequence is added behind a longer one.
LEMMA AppendedBehind ==
  ASSUME NEW b, NEW x, \E S : x \in Seq(S), NEW e
  PROVE  Append(<<b>> \o x, e) = <<b>> \o Append(x, e)
<1>1. PICK S : x \in Seq(S)
  OBVIOUS
<1> DEFINE T == S \cup {b, e}
<1>2. x \in Seq(T) /\ b \in T /\ e \in T
  BY <1>1, SeqMonotonic
<1> HIDE DEF T
<1>3. <<b>> \in Seq(T) /\ Len(<<b>>) = 1
  BY <1>2
<1>4. /\ <<b>> \o x \in Seq(T) /\ Len(<<b>> \o x) = 1 + Len(x) /\ Len(x) \in Nat
      /\ \A n \in 1..(1 + Len(x)) : (<<b>> \o x)[n] = IF n <= 1 THEN <<b>>[n] ELSE x[n - 1]
  BY <1>2, <1>3, ConcatProperties, LenProperties
<1>5. /\ Append(x, e) \in Seq(T) /\ Len(Append(x, e)) = Len(x) + 1
      /\ Append(x, e)[Len(x) + 1] = e /\ \A n \in 1..Len(x) : Append(x, e)[n] = x[n]
  BY <1>2, AppendProperties
<1>6. /\ <<b>> \o Append(x, e) \in Seq(T) /\ Len(<<b>> \o Append(x, e)) = Len(x) + 2
      /\ \A n \in 1..(Len(x) + 2) :
           (<<b>> \o Append(x, e))[n] = IF n <= 1 THEN <<b>>[n] ELSE Append(x, e)[n - 1]
  <2> DEFINE y == Append(x, e)
  <2>1. y \in Seq(T) /\ Len(y) = Len(x) + 1
    BY <1>5
  <2> HIDE DEF y
  <2>2. /\ <<b>> \o y \in Seq(T) /\ Len(<<b>> \o y) = 1 + Len(y)
        /\ \A n \in 1..(1 + Len(y)) : (<<b>> \o y)[n] = IF n <= 1 THEN <<b>>[n] ELSE y[n - 1]
    BY <1>3, <2>1, ConcatProperties
  <2> QED
    BY <1>4, <2>1, <2>2 DEF y
<1>7. LET z == <<b>> \o x
      IN  /\ Append(z, e) \in Seq(T) /\ Len(Append(z, e)) = Len(x) + 2
          /\ Append(z, e)[Len(x) + 2] = e
          /\ \A n \in 1..(Len(x) + 1) : Append(z, e)[n] = z[n]
  <2> DEFINE z == <<b>> \o x
  <2>1. z \in Seq(T) /\ Len(z) = 1 + Len(x)
    BY <1>4
  <2> HIDE DEF z
  <2>2. /\ Append(z, e) \in Seq(T) /\ Len(Append(z, e)) = Len(z) + 1
        /\ Append(z, e)[Len(z) + 1] = e /\ \A n \in 1..Len(z) : Append(z, e)[n] = z[n]
    BY <1>2, <2>1, AppendProperties
  <2>3. Len(z) + 1 = Len(x) + 2 /\ Len(z) = Len(x) + 1
    BY <1>4, <2>1
  <2> QED
    BY <2>2, <2>3 DEF z
<1> DEFINE l == Append(<<b>> \o x, e)
           r == <<b>> \o Append(x, e)
<1>8. ASSUME NEW n \in 1..(Len(x) + 2) PROVE l[n] = r[n]
  <2>1. CASE n = 1
    <3>1. n \in 1..(Len(x) + 1) /\ n \in 1..(1 + Len(x)) /\ n <= 1
      BY <1>4, <2>1
    <3>2. l[n] = (<<b>> \o x)[n]
      BY <1>7, <3>1
    <3> QED
      BY <1>4, <1>6, <3>1, <3>2
  <2>2. CASE n # 1 /\ n # Len(x) + 2
    <3>1. n \in 1..(Len(x) + 1) /\ n \in 1..(1 + Len(x)) /\ ~(n <= 1) /\ n - 1 \in 1..Len(x)
      BY <1>4, <2>2
    <3>2. l[n] = (<<b>> \o x)[n]
      BY <1>7, <3>1
    <3>3. r[n] = Append(x, e)[n - 1]
      BY <1>6, <3>1
    <3> QED
      BY <1>4, <1>5, <3>1, <3>2, <3>3
  <2>3. CASE n = Len(x) + 2
    <3>1. ~(n <= 1) /\ n - 1 = Len(x) + 1
      BY <1>4, <2>3
    <3>2. l[n] = e
      BY <1>7, <2>3
    <3>3. r[n] = Append(x, e)[n - 1]
      BY <1>6, <3>1
    <3> QED
      BY <1>5, <3>1, <3>2, <3>3
  <2> QED
    BY <2>1, <2>2, <2>3
<1> HIDE DEF l, r
<1>9. l \in Seq(T) /\ r \in Seq(T) /\ Len(l) = Len(x) + 2 /\ Len(r) = Len(x) + 2
  BY <1>6, <1>7 DEF l, r
<1>10. l = r
  BY <1>8, <1>9, SeqEqual
<1> QED
  BY <1>10 DEF l, r

\* The layers that still lie on the canvas when it waits for the next, and what is
\* seen then: behind layer n nothing of its own turn is left.
Lasting(layers, j, p) ==
  /\ p \in layers[j].area /\ layers[j].paint[p].kind # "nothing"
  /\ layers[j].dispose # "previous"

Wiped(layers, j, p) == p \in layers[j].area /\ layers[j].dispose = "background"

LeftHides(layers, n, p) ==
  { j \in 1..n : \/ Wiped(layers, j, p)
                 \/ Lasting(layers, j, p) /\ layers[j].paint[p].kind = "solid" }

LeftGround(layers, n, p) == Max({0} \cup LeftHides(layers, n, p))

LeftGlazes(layers, n, h, p) ==
  { j \in (h + 1)..n : Lasting(layers, j, p) /\ layers[j].paint[p].kind = "glaze" }

Seen(layers, h, bare, G, p) ==
  <<IF h = 0 \/ bare THEN Empty ELSE layers[h].paint[p].colour>>
    \o [n \in 1..Cardinality(G) |-> layers[Nth(G, n)].paint[p].colour]

Left(layers, n, p) ==
  LET h == LeftGround(layers, n, p)
  IN  Seen(layers, h, Wiped(layers, h, p), LeftGlazes(layers, n, h, p), p)

\* What hides everything below at a pixel.
Hides(layers, t, p) ==
  { j \in 1..t : \/ Cleared(layers, t, j, p)
                 \/ Lies(layers, t, j, p) /\ layers[j].paint[p].kind = "solid" }

\* Shown is the ground and the glazes above it.
LEMMA ShownIsSeen ==
  ASSUME NEW layers, NEW t, NEW p
  PROVE  LET h == Ground(layers, t, p)
         IN  Shown(layers, t, p) =
               Seen(layers, h, Cleared(layers, t, h, p), Glazes(layers, t, h, p), p)
BY Zenon DEF Shown, Seen

\* The greatest of some numbers and 0.
LEMMA GroundIs ==
  ASSUME NEW n \in Nat, NEW H \in SUBSET (1..n)
  PROVE  /\ Max({0} \cup H) \in 0..n
         /\ Max({0} \cup H) \in {0} \cup H
         /\ \A j \in H : j <= Max({0} \cup H)
         /\ \A e : e = n + 1 => Max({0} \cup (H \cup {e})) = e
<1>1. {0} \cup H \in SUBSET (0..n) /\ {0} \cup H # {}
  OBVIOUS
<1>2. PICK m \in {0} \cup H : \A j \in {0} \cup H : j <= m
  BY <1>1, GreatestOf
<1>3. Max({0} \cup H) = m
  <2>1. {0} \cup H \in SUBSET Int
    OBVIOUS
  <2> QED
    BY <1>2, <2>1, MaxIs
<1>4. ASSUME NEW e, e = n + 1 PROVE Max({0} \cup (H \cup {e})) = e
  <2>1. {0} \cup (H \cup {e}) \in SUBSET Int /\ e \in {0} \cup (H \cup {e})
    BY <1>4
  <2>2. \A j \in {0} \cup (H \cup {e}) : j <= e
    BY <1>4
  <2> QED
    BY <2>1, <2>2, MaxIs
<1> QED
  BY <1>2, <1>3, <1>4

\* What one layer adds to what lies on the canvas.
AddsLayer(layers, n, t, p) ==
  /\ (p \notin layers[t].area \/ layers[t].paint[p].kind = "nothing")
       => Shown(layers, t, p) = Left(layers, n, p)
  /\ (p \in layers[t].area /\ layers[t].paint[p].kind = "solid")
       => Shown(layers, t, p) = <<layers[t].paint[p].colour>>
  /\ (p \in layers[t].area /\ layers[t].paint[p].kind = "glaze")
       => Shown(layers, t, p) = Append(Left(layers, n, p), layers[t].paint[p].colour)

\* A layer is drawn over what those before it have left.
LEMMA LayerDrawn ==
  ASSUME NEW n \in Nat, NEW t, t = n + 1, NEW layers, NEW p
  PROVE  AddsLayer(layers, n, t, p)
<1> SUFFICES
  /\ (p \notin layers[t].area \/ layers[t].paint[p].kind = "nothing")
       => Shown(layers, t, p) = Left(layers, n, p)
  /\ (p \in layers[t].area /\ layers[t].paint[p].kind = "solid")
       => Shown(layers, t, p) = <<layers[t].paint[p].colour>>
  /\ (p \in layers[t].area /\ layers[t].paint[p].kind = "glaze")
       => Shown(layers, t, p) = Append(Left(layers, n, p), layers[t].paint[p].colour)
  BY DEF AddsLayer
<1> DEFINE H == LeftHides(layers, n, p)
           solid == p \in layers[t].area /\ layers[t].paint[p].kind = "solid"
           h == LeftGround(layers, n, p)
           G == LeftGlazes(layers, n, h, p)
<1>1. ASSUME NEW j \in 1..n
      PROVE  /\ Cleared(layers, t, j, p) <=> Wiped(layers, j, p)
             /\ Lies(layers, t, j, p) <=> Lasting(layers, j, p)
  <2>1. j < t /\ j # t
    OBVIOUS
  <2> QED
    BY <2>1 DEF Cleared, Wiped, Lies, Lasting
<1>2. t \in Nat /\ 1..t = 1..n \cup {t} /\ t \notin 1..n
  OBVIOUS
<1>3. ~Cleared(layers, t, t, p)
  BY <1>2 DEF Cleared
<1>4. Hides(layers, t, p) = H \cup (IF solid THEN {t} ELSE {})
  <2>1. Lies(layers, t, t, p) <=> p \in layers[t].area /\ layers[t].paint[p].kind # "nothing"
    BY DEF Lies
  <2>2. ASSUME NEW j
        PROVE  j \in Hides(layers, t, p) <=> j \in H \/ (solid /\ j = t)
    <3>1. j \in 1..t <=> j \in 1..n \/ j = t
      BY <1>2
    <3>2. CASE j \in 1..n
      BY <1>1, <1>2, <3>1, <3>2 DEF Hides, LeftHides
    <3>3. CASE j = t
      BY <1>2, <1>3, <2>1, <3>1, <3>3 DEF Hides, LeftHides
    <3>4. CASE j \notin 1..n /\ j # t
      BY <3>1, <3>4 DEF Hides, LeftHides
    <3> QED
      BY <3>2, <3>3, <3>4
  <2> HIDE DEF H, solid
  <2> QED
    BY <2>2
<1>5. Ground(layers, t, p) = Max({0} \cup Hides(layers, t, p)) /\ h = Max({0} \cup H)
  BY DEF Ground, Hides, LeftGround
<1>6. H \in SUBSET (1..n)
  BY DEF LeftHides
<1>7. h \in 0..n
  BY <1>5, <1>6, GroundIs
<1>8. CASE solid
  <2>1. Ground(layers, t, p) = t
    <3>1. Max({0} \cup (H \cup {t})) = t
      BY <1>6, GroundIs
    <3> QED
      BY <1>4, <1>5, <1>8, <3>1
  <2>2. Glazes(layers, t, t, p) = {}
    BY <1>2 DEF Glazes
  <2>3. Shown(layers, t, p) = Seen(layers, t, Cleared(layers, t, t, p), {}, p)
    BY <2>1, <2>2, ShownIsSeen
  <2>4. Cardinality({}) = 0
    BY FS_EmptySet
  <2>5. [m \in 1..0 |-> layers[Nth({}, m)].paint[p].colour] = <<>>
    OBVIOUS
  <2> DEFINE x == layers[t].paint[p].colour
  <2>6. Seen(layers, t, Cleared(layers, t, t, p), {}, p) = <<x>> \o <<>>
    <3>1. t # 0
      BY <1>2
    <3>2. Seen(layers, t, Cleared(layers, t, t, p), {}, p) =
            <<x>> \o [m \in 1..0 |-> layers[Nth({}, m)].paint[p].colour]
      BY <1>3, <2>4, <3>1, Zenon DEF Seen
    <3> QED
      BY <2>5, <3>2
  <2>7. <<x>> \o <<>> = <<x>>
    BY ConcatEmptySeq
  <2> QED
    BY <1>8, <2>3, <2>6, <2>7
<1>9. CASE ~solid
  <2>1. Ground(layers, t, p) = h
    BY <1>4, <1>5, <1>9
  <2>2. h = 0 \/ (Cleared(layers, t, h, p) <=> Wiped(layers, h, p))
    BY <1>1, <1>7
  <2>3. \A S : Seen(layers, h, Cleared(layers, t, h, p), S, p)
               = Seen(layers, h, Wiped(layers, h, p), S, p)
    BY <2>2 DEF Seen
  <2> DEFINE glaze == p \in layers[t].area /\ layers[t].paint[p].kind = "glaze"
  <2>4. Glazes(layers, t, h, p) = G \cup (IF glaze THEN {t} ELSE {})
    <3>1. Lies(layers, t, t, p) <=> p \in layers[t].area /\ layers[t].paint[p].kind # "nothing"
      BY DEF Lies
    <3>2. (h + 1)..t = ((h + 1)..n) \cup {t} /\ (h + 1)..n \subseteq 1..n
      BY <1>7
    <3> HIDE DEF h
    <3>3. ASSUME NEW j
          PROVE  j \in Glazes(layers, t, h, p) <=> j \in G \/ (glaze /\ j = t)
      <4>1. CASE j \in (h + 1)..n
        <5>1. j \in 1..n /\ j # t
          BY <1>2, <3>2, <4>1
        <5> QED
          BY <1>1, <3>2, <4>1, <5>1 DEF Glazes, LeftGlazes
      <4>2. CASE j = t
        <5>1. j \notin (h + 1)..n
          BY <1>2, <3>2, <4>2
        <5> QED
          BY <3>1, <3>2, <4>2, <5>1 DEF Glazes, LeftGlazes
      <4>3. CASE j \notin (h + 1)..n /\ j # t
        BY <3>2, <4>3 DEF Glazes, LeftGlazes
      <4> QED
        BY <4>1, <4>2, <4>3
    <3> HIDE DEF G, glaze
    <3> QED
      BY <3>3
  <2> HIDE DEF H, h, G, glaze
  <2>5. Shown(layers, t, p) = Seen(layers, h, Wiped(layers, h, p), Glazes(layers, t, h, p), p)
    BY <2>1, <2>3, ShownIsSeen
  <2>6. Left(layers, n, p) = Seen(layers, h, Wiped(layers, h, p), G, p)
    BY DEF Left, G, h
  <2>7. CASE ~glaze
    <3>1. Shown(layers, t, p) = Left(layers, n, p)
      BY <2>4, <2>5, <2>6, <2>7
    <3> QED
      BY <1>9, <2>7, <3>1 DEF glaze
  <2>8. CASE glaze
    <3> DEFINE c(j) == layers[j].paint[p].colour
               base == IF h = 0 \/ Wiped(layers, h, p) THEN Empty ELSE c(h)
               Q == G \cup {t}
               m == Cardinality(G)
               f == [k \in Nat |-> c(Nth(G, k))]
               q == [k \in Nat |-> c(Nth(Q, k))]
    <3>1. G \in SUBSET Nat /\ IsFiniteSet(G) /\ \A j \in G : j < t
      <4>1. G \in SUBSET (1..n)
        BY <1>7 DEF G, LeftGlazes
      <4>2. IsFiniteSet(1..n)
        <5>1. 1 \in Int /\ n \in Int
          OBVIOUS
        <5> QED
          BY <5>1, FS_Interval
      <4>3. IsFiniteSet(G)
        BY <4>1, <4>2, FS_Subset
      <4> QED
        BY <1>2, <4>1, <4>3
    <3>2. /\ Cardinality(Q) = m + 1 /\ Nth(Q, m + 1) = t /\ m \in Nat
          /\ \A k \in 1..m : Nth(Q, k) = Nth(G, k)
      BY <1>2, <3>1, NthGrown, FS_CardinalityType
    <3>3. Left(layers, n, p) = <<base>> \o [k \in 1..m |-> f[k]]
      <4>1. [k \in 1..m |-> f[k]] = [k \in 1..m |-> c(Nth(G, k))]
        BY <3>2
      <4>2. Left(layers, n, p) = <<base>> \o [k \in 1..m |-> c(Nth(G, k))]
        BY <2>6 DEF Seen
      <4> QED
        BY <4>1, <4>2
    <3>4. Shown(layers, t, p) = <<base>> \o [k \in 1..(m + 1) |-> q[k]]
      <4>1. m + 1 \in Nat
        BY <3>2
      <4>2. [k \in 1..(m + 1) |-> q[k]] = [k \in 1..(m + 1) |-> c(Nth(Q, k))]
        BY <4>1
      <4>3. Shown(layers, t, p) = Seen(layers, h, Wiped(layers, h, p), Q, p)
        BY <2>4, <2>5, <2>8
      <4>4. Shown(layers, t, p) = <<base>> \o [k \in 1..(m + 1) |-> c(Nth(Q, k))]
        BY <3>2, <4>3 DEF Seen
      <4> QED
        BY <4>2, <4>4
    <3>5. q[m + 1] = c(t) /\ \A k \in 1..m : q[k] = f[k]
      <4>1. \A k \in Nat : q[k] = c(Nth(Q, k)) /\ f[k] = c(Nth(G, k))
        OBVIOUS
      <4>2. m + 1 \in Nat /\ \A k \in 1..m : k \in Nat
        BY <3>2
      <4> HIDE DEF q, f, Q, c, m
      <4>3. q[m + 1] = c(t)
        BY <3>2, <4>1, <4>2
      <4>4. ASSUME NEW k \in 1..m PROVE q[k] = f[k]
        BY <3>2, <4>1, <4>2
      <4> QED
        BY <4>3, <4>4
    <3> DEFINE x == [k \in 1..m |-> f[k]]
    <3> HIDE DEF base, f, q, m
    <3>6. Append(x, q[m + 1]) = [k \in 1..(m + 1) |-> q[k]]
      BY <3>2, <3>5, SeqAppended
    <3>7. \E S : x \in Seq(S)
      BY <3>2, SeqIs
    <3> HIDE DEF x
    <3>8. Append(<<base>> \o x, q[m + 1]) = <<base>> \o Append(x, q[m + 1])
      BY <3>7, AppendedBehind
    <3>9. Shown(layers, t, p) = Append(Left(layers, n, p), c(t))
      BY <3>3, <3>4, <3>5, <3>6, <3>8 DEF x
    <3> QED
      BY <1>9, <2>8, <3>9 DEF glaze
  <2> QED
    BY <2>7, <2>8
<1> QED
  BY <1>8, <1>9

\* What is left on the canvas when the turn of a layer is over.
TakesLayer(layers, n, t, p) ==
  /\ (p \notin layers[t].area \/ layers[t].dispose = "previous")
       => Left(layers, t, p) = Left(layers, n, p)
  /\ (p \in layers[t].area /\ layers[t].dispose = "background")
       => Left(layers, t, p) = <<Empty>>
  /\ layers[t].dispose \notin {"background", "previous"}
       => Left(layers, t, p) = Shown(layers, t, p)

\* Its disposal leaves what lay below it, nothing, or itself.
LEMMA LayerDisposed ==
  ASSUME NEW n \in Nat, NEW t, t = n + 1, NEW layers, NEW p
  PROVE  TakesLayer(layers, n, t, p)
<1> SUFFICES
  /\ (p \notin layers[t].area \/ layers[t].dispose = "previous")
       => Left(layers, t, p) = Left(layers, n, p)
  /\ (p \in layers[t].area /\ layers[t].dispose = "background")
       => Left(layers, t, p) = <<Empty>>
  /\ layers[t].dispose \notin {"background", "previous"}
       => Left(layers, t, p) = Shown(layers, t, p)
  BY DEF TakesLayer
<1> DEFINE H == LeftHides(layers, n, p)
<1>1. t \in Nat /\ 1..t = 1..n \cup {t} /\ t \notin 1..n /\ t # 0
  OBVIOUS
<1>2. H \in SUBSET (1..n)
  BY DEF LeftHides
<1>3. LeftGround(layers, n, p) \in 0..n
  BY <1>2, GroundIs DEF LeftGround
<1>4. ASSUME p \notin layers[t].area \/ layers[t].dispose = "previous"
      PROVE  Left(layers, t, p) = Left(layers, n, p)
  <2>1. ~Wiped(layers, t, p) /\ ~Lasting(layers, t, p)
    BY <1>4 DEF Wiped, Lasting
  <2>2. LeftHides(layers, t, p) = H
    BY <1>1, <2>1 DEF LeftHides
  <2> DEFINE h == LeftGround(layers, n, p)
  <2>3. LeftGround(layers, t, p) = h
    BY <2>2 DEF LeftGround
  <2>4. LeftGlazes(layers, t, h, p) = LeftGlazes(layers, n, h, p)
    <3>1. (h + 1)..t = ((h + 1)..n) \cup {t}
      BY <1>3
    <3> HIDE DEF h
    <3> QED
      BY <2>1, <3>1 DEF LeftGlazes
  <2> QED
    BY <2>1, <2>3, <2>4 DEF Left, Wiped
<1>5. ASSUME p \in layers[t].area, layers[t].dispose = "background"
      PROVE  Left(layers, t, p) = <<Empty>>
  <2>1. Wiped(layers, t, p)
    BY <1>5 DEF Wiped
  <2>2. LeftHides(layers, t, p) = H \cup {t}
    BY <1>1, <2>1 DEF LeftHides
  <2>3. LeftGround(layers, t, p) = t
    <3>1. Max({0} \cup (H \cup {t})) = t
      BY <1>2, GroundIs
    <3> QED
      BY <2>2, <3>1 DEF LeftGround
  <2>4. LeftGlazes(layers, t, t, p) = {}
    BY <1>1 DEF LeftGlazes
  <2>5. Left(layers, t, p) = Seen(layers, t, Wiped(layers, t, p), {}, p)
    BY <2>3, <2>4 DEF Left
  <2>6. Cardinality({}) = 0
    BY FS_EmptySet
  <2>7. [m \in 1..0 |-> layers[Nth({}, m)].paint[p].colour] = <<>>
    OBVIOUS
  <2>8. Seen(layers, t, Wiped(layers, t, p), {}, p) =
          <<Empty>> \o [m \in 1..0 |-> layers[Nth({}, m)].paint[p].colour]
    BY <2>1, <2>6, Zenon DEF Seen
  <2>9. <<Empty>> \o <<>> = <<Empty>>
    BY ConcatEmptySeq
  <2> QED
    BY <2>5, <2>7, <2>8, <2>9
<1>6. ASSUME layers[t].dispose \notin {"background", "previous"}
      PROVE  Left(layers, t, p) = Shown(layers, t, p)
  <2>1. ASSUME NEW j \in 1..t
        PROVE  /\ Cleared(layers, t, j, p) <=> Wiped(layers, j, p)
               /\ Lies(layers, t, j, p) <=> Lasting(layers, j, p)
    <3>1. j < t \/ j = t
      BY <1>1
    <3> QED
      BY <1>6, <3>1 DEF Cleared, Wiped, Lies, Lasting
  <2>2. LeftHides(layers, t, p) = Hides(layers, t, p)
    BY <2>1 DEF LeftHides, Hides
  <2> DEFINE h == LeftGround(layers, t, p)
  <2>3. Ground(layers, t, p) = h
    BY <2>2 DEF LeftGround, Ground, Hides
  <2>4. h \in 0..t
    <3>1. LeftHides(layers, t, p) \in SUBSET (1..t)
      BY DEF LeftHides
    <3> QED
      BY <1>1, <3>1, GroundIs DEF LeftGround
  <2> HIDE DEF h
  <2>5. LeftGlazes(layers, t, h, p) = Glazes(layers, t, h, p)
    <3>1. \A j \in (h + 1)..t : j \in 1..t
      BY <2>4
    <3> QED
      BY <2>1, <3>1 DEF LeftGlazes, Glazes
  <2>6. h = 0 \/ (Cleared(layers, t, h, p) <=> Wiped(layers, h, p))
    BY <2>1, <2>4
  <2>7. \A S : Seen(layers, h, Cleared(layers, t, h, p), S, p)
               = Seen(layers, h, Wiped(layers, h, p), S, p)
    BY <2>6 DEF Seen
  <2>8. Shown(layers, t, p) = Seen(layers, h, Cleared(layers, t, h, p), Glazes(layers, t, h, p), p)
    BY <2>3, ShownIsSeen
  <2>9. Left(layers, t, p) = Seen(layers, h, Wiped(layers, h, p), LeftGlazes(layers, t, h, p), p)
    BY DEF Left, h
  <2> QED
    BY <2>5, <2>7, <2>8, <2>9
<1> QED
  BY <1>4, <1>5, <1>6

\* The canvas starts empty.
LEMMA NothingLeft ==
  ASSUME NEW layers, NEW p
  PROVE  Left(layers, 0, p) = <<Empty>>
<1>1. LeftHides(layers, 0, p) = {}
  BY DEF LeftHides
<1>2. LeftGround(layers, 0, p) = 0
  <2>1. LeftGround(layers, 0, p) = Max({0})
    BY <1>1 DEF LeftGround
  <2>2. Max({0}) = 0
    BY MaxIs
  <2> QED
    BY <2>1, <2>2
<1>3. LeftGlazes(layers, 0, 0, p) = {}
  BY DEF LeftGlazes
<1>4. Left(layers, 0, p) = Seen(layers, 0, Wiped(layers, 0, p), {}, p)
  BY <1>2, <1>3 DEF Left
<1>5. Cardinality({}) = 0
  BY FS_EmptySet
<1>6. [m \in 1..0 |-> layers[Nth({}, m)].paint[p].colour] = <<>>
  OBVIOUS
<1>7. Seen(layers, 0, Wiped(layers, 0, p), {}, p) =
        <<Empty>> \o [m \in 1..0 |-> layers[Nth({}, m)].paint[p].colour]
  BY <1>5, Zenon DEF Seen
<1>8. <<Empty>> \o <<>> = <<Empty>>
  BY ConcatEmptySeq
<1> QED
  BY <1>4, <1>6, <1>7, <1>8

\* What is shown depends on no later layer.
LEMMA ShownSame ==
  ASSUME NEW t \in Nat, NEW K, NEW layers, \A j \in 1..t : K[j] = layers[j], NEW p
  PROVE  Shown(K, t, p) = Shown(layers, t, p)
<1>1. \A j \in 1..t : /\ Cleared(K, t, j, p) <=> Cleared(layers, t, j, p)
                      /\ Lies(K, t, j, p) <=> Lies(layers, t, j, p)
  BY DEF Cleared, Lies
<1>2. Hides(K, t, p) = Hides(layers, t, p) /\ Hides(layers, t, p) \in SUBSET (1..t)
  BY <1>1 DEF Hides
<1> DEFINE h == Ground(layers, t, p)
<1>3. Ground(K, t, p) = h /\ h \in 0..t
  <2>1. h = Max({0} \cup Hides(layers, t, p)) /\ Ground(K, t, p) = Max({0} \cup Hides(K, t, p))
    BY DEF Ground, Hides
  <2>2. Max({0} \cup Hides(layers, t, p)) \in 0..t
    BY <1>2, GroundIs
  <2> QED
    BY <1>2, <2>1, <2>2
<1> DEFINE G == Glazes(layers, t, h, p)
<1> HIDE DEF h
<1>4. Glazes(K, t, h, p) = G /\ G \subseteq 1..t
  <2>1. \A j \in (h + 1)..t : j \in 1..t
    BY <1>3
  <2>2. \A j \in (h + 1)..t : K[j] = layers[j] /\ (Lies(K, t, j, p) <=> Lies(layers, t, j, p))
    BY <1>1, <2>1
  <2> QED
    BY <2>1, <2>2 DEF Glazes
<1>5. \A n \in 1..Cardinality(G) : K[Nth(G, n)].paint[p].colour = layers[Nth(G, n)].paint[p].colour
  <2> SUFFICES ASSUME NEW n \in 1..Cardinality(G)
               PROVE  K[Nth(G, n)].paint[p].colour = layers[Nth(G, n)].paint[p].colour
    OBVIOUS
  <2>1. IsFiniteSet(G) /\ G \in SUBSET Nat
    <3>1. IsFiniteSet(1..t)
      <4>1. 1 \in Int /\ t \in Int
        OBVIOUS
      <4> QED
        BY <4>1, FS_Interval
    <3> QED
      BY <1>4, <3>1, FS_Subset
  <2>2. Nth(G, n) \in G
    <3> HIDE DEF G
    <3> QED
      BY <2>1, NthWorks
  <2> QED
    BY <1>4, <2>2
<1>6. h = 0 \/ (K[h] = layers[h] /\ (Cleared(K, t, h, p) <=> Cleared(layers, t, h, p)))
  BY <1>1, <1>3
<1> HIDE DEF G
<1>7. Seen(K, h, Cleared(K, t, h, p), G, p) = Seen(layers, h, Cleared(layers, t, h, p), G, p)
  <2>1. [n \in 1..Cardinality(G) |-> K[Nth(G, n)].paint[p].colour] =
          [n \in 1..Cardinality(G) |-> layers[Nth(G, n)].paint[p].colour]
    BY <1>5
  <2>2. (IF h = 0 \/ Cleared(K, t, h, p) THEN Empty ELSE K[h].paint[p].colour) =
          IF h = 0 \/ Cleared(layers, t, h, p) THEN Empty ELSE layers[h].paint[p].colour
    BY <1>6
  <2> QED
    BY <2>1, <2>2 DEF Seen
<1>8. Shown(K, t, p) = Seen(K, h, Cleared(K, t, h, p), G, p)
  BY <1>3, <1>4, ShownIsSeen
<1>9. Shown(layers, t, p) = Seen(layers, h, Cleared(layers, t, h, p), G, p)
  BY ShownIsSeen DEF G, h
<1> QED
  BY <1>7, <1>8, <1>9

------------------------------------------------------------------------------
(* Frames are layers.                                                        *)

\* A control is within the canvas if and only if its area is.
LEMMA InCanvasIs ==
  ASSUME NEW c, {c.x, c.y, c.w, c.h} \subseteq Nat
  PROVE  InCanvas(c) <=> AreaOf(c) # {} /\ AreaOf(c) \subseteq Pixels
<1>1. c.x \in Nat /\ c.y \in Nat /\ c.w \in Nat /\ c.h \in Nat
  OBVIOUS
<1>2. Width \in Nat /\ Height \in Nat
  BY ApngAssumption
<1>3. ASSUME InCanvas(c) PROVE AreaOf(c) # {} /\ AreaOf(c) \subseteq Pixels
  <2>1. c.w > 0 /\ c.h > 0 /\ c.x + c.w <= Width /\ c.y + c.h <= Height
    BY <1>3 DEF InCanvas
  <2>2. c.x \in c.x..(c.x + c.w - 1) /\ c.y \in c.y..(c.y + c.h - 1)
    BY <1>1, <2>1
  <2>3. <<c.x, c.y>> \in AreaOf(c)
    BY <2>2 DEF AreaOf
  <2>4. /\ c.x..(c.x + c.w - 1) \subseteq 0..(Width - 1)
        /\ c.y..(c.y + c.h - 1) \subseteq 0..(Height - 1)
    BY <1>1, <1>2, <2>1
  <2> QED
    BY <2>3, <2>4 DEF AreaOf, Pixels
<1>4. ASSUME AreaOf(c) # {}, AreaOf(c) \subseteq Pixels PROVE InCanvas(c)
  <2>1. PICK a \in c.x..(c.x + c.w - 1), b \in c.y..(c.y + c.h - 1) : TRUE
    BY <1>4 DEF AreaOf
  <2>2. c.w > 0 /\ c.h > 0
    BY <1>1, <2>1
  <2> DEFINE e == c.x + c.w - 1
             f == c.y + c.h - 1
  <2>3. e \in c.x..e /\ f \in c.y..f
    BY <1>1, <2>2
  <2>4. <<e, f>> \in Pixels
    BY <1>4, <2>3 DEF AreaOf
  <2>5. e \in 0..(Width - 1) /\ f \in 0..(Height - 1)
    <3> HIDE DEF e, f
    <3> QED
      BY <2>4 DEF Pixels
  <2> QED
    BY <1>1, <1>2, <2>2, <2>5 DEF InCanvas
<1> QED
  BY <1>3, <1>4

\* Pieces that png_read_image can make a w x h picture of.
Whole(pieces, w, h) ==
  /\ pieces # <<>> /\ IsWhole(pieces, pieces[1].pic)
  /\ pieces[1].pic.w = w /\ pieces[1].pic.h = h

\* The data of a frame are what the file has for it.
LEMMA DataIs ==
  ASSUME FileOk, ControlsRead, DataRead, NEW k \in 1..Len(fctls)
  PROVE  /\ Collected(file, starved, DataOf(k), DataChunks(k))
         /\ DataChunks(k) \in SUBSET Nat /\ IsFiniteSet(DataChunks(k))
<1>1. DataChunks(k) = IF k = 1 /\ default_is_frame THEN Positions("IDAT") ELSE Following(k)
  <2>1. DataChunks(k) = IF k = 1 /\ \A n \in Positions("IDAT") : ControlAt(k) < n
                          THEN Positions("IDAT") ELSE Following(k)
    BY DEF DataChunks, Following, UntilOf
  <2>2. k = 1 => (default_is_frame <=> \A n \in Positions("IDAT") : ControlAt(1) < n)
    BY DEF ControlsRead
  <2> QED
    BY <2>1, <2>2
<1>2. CASE k = 1 /\ default_is_frame
  <2>1. DataOf(k) = idat_default /\ DataChunks(k) = Positions("IDAT")
    BY <1>1, <1>2 DEF DataOf
  <2> QED
    BY <2>1, PositionsAre DEF DataRead, FileOk
<1>3. CASE ~(k = 1 /\ default_is_frame)
  <2>1. DataOf(k) = fctls[k].data /\ DataChunks(k) = Following(k)
    BY <1>1, <1>3 DEF DataOf
  <2> QED
    BY <2>1, FollowingAre DEF DataRead, FileOk
<1> QED
  BY <1>2, <1>3

\* Data decode if and only if what the file has for them does.
LEMMA DecodesIs ==
  ASSUME NEW P \in SUBSET Nat, IsFiniteSet(P), NEW data, Collected(file, starved, data, P),
         NEW w, NEW h
  PROVE  /\ Decodes(data, w, h) => PiecesAt(P) # <<>> /\ PiecesAt(P)[1] = data.pieces[1]
         /\ ~starved => /\ Decodes(data, w, h) <=> Whole(PiecesAt(P), w, h)
                                                     /\ (ihdr.color = "indexed" => plte)
<1>1. /\ ~data.failed => data.pieces = PiecesAt(P)
      /\ data.pieces # <<>> => PiecesAt(P) # <<>> /\ PiecesAt(P)[1] = data.pieces[1]
      /\ data.failed \in BOOLEAN
      /\ data.failed => starved
  BY CollectedPieces
<1>2. Decodes(data, w, h) => data.pieces # <<>>
  BY DEF Decodes
<1>3. ASSUME ~starved PROVE Decodes(data, w, h) <=> Whole(PiecesAt(P), w, h)
                                                     /\ (ihdr.color = "indexed" => plte)
  <2>1. data.pieces = PiecesAt(P)
    BY <1>1, <1>3
  <2> QED
    BY <2>1 DEF Decodes, Whole
<1> QED
  BY <1>1, <1>2, <1>3

\* One frame drawn, and disposed of, is one layer.
FileLayers == [k \in 1..Len(fctls) |-> LayerOf(k)]

OnCanvas == canvas = [p \in Pixels |-> Left(FileLayers, Len(shots), p)]

LEMMA FrameIsLayer ==
  ASSUME \A z : DecodedSample(z) = MeantSample(z),
         ControlsRead, OnCanvas, Len(shots) \in Nat, Len(fctls) \in Nat,
         NEW k, k = Len(shots) + 1, k <= Len(fctls), NEW c, c = fctls[k].ctl,
         NEW pic, pic = PiecesOf(k)[1].pic
  PROVE  /\ Drawn(c, pic) = [p \in Pixels |-> Shown(FileLayers, k, p)]
         /\ Disposed(c, Drawn(c, pic)) = [p \in Pixels |-> Left(FileLayers, k, p)]
<1> DEFINE n == Len(shots)
           sample(p) == MeantSample(pic.px[<<p[1] - c.x, p[2] - c.y>>])
           kind(p) == IF c.blend = "source" \/ sample(p).alpha = "opaque" THEN "solid"
                      ELSE IF sample(p).alpha = "clear" THEN "nothing"
                      ELSE "glaze"
           paint == [p \in AreaOf(c) |-> [colour |-> sample(p), kind |-> kind(p)]]
           drawn == Drawn(c, pic)
           L == FileLayers
<1>1. k \in 1..Len(fctls) /\ c = file[ControlAt(k)]
  <2>1. k \in 1..Len(fctls)
    OBVIOUS
  <2> QED
    BY <2>1 DEF ControlsRead
<1>2. L[k] = [area |-> AreaOf(c), paint |-> paint, dispose |-> c.dispose]
  <2>1. L[k] = LayerOf(k)
    BY <1>1 DEF FileLayers
  <2>2. LayerOf(k) = [area |-> AreaOf(c), paint |-> paint, dispose |-> c.dispose]
    BY <1>1 DEF LayerOf
  <2> QED
    BY <2>1, <2>2
<1>3. L[k].area = AreaOf(c) /\ L[k].dispose = c.dispose /\ L[k].paint = paint
  <2> HIDE DEF paint, L
  <2> QED
    BY <1>2
<1>4. ASSUME NEW p \in AreaOf(c)
      PROVE  L[k].paint[p].colour = sample(p) /\ L[k].paint[p].kind = kind(p)
  <2>1. paint[p] = [colour |-> sample(p), kind |-> kind(p)]
    OBVIOUS
  <2> HIDE DEF paint, kind, L
  <2> QED
    BY <1>3, <2>1
<1> HIDE DEF L, n, paint, drawn, kind, sample
<1>0. n \in Nat /\ k = n + 1
  BY DEF n
<1>10. ASSUME NEW p PROVE AddsLayer(L, n, k, p)
  BY <1>0, LayerDrawn
<1>11. ASSUME NEW p PROVE TakesLayer(L, n, k, p)
  BY <1>0, LayerDisposed
<1>5. ASSUME NEW p \in Pixels
      PROVE  canvas[p] = Left(L, n, p)
  BY DEF OnCanvas, L, n
<1>6. ASSUME NEW p \in Pixels
      PROVE  drawn[p] = Shown(L, k, p)
  <2>1. CASE p \notin AreaOf(c)
    <3>1. drawn[p] = canvas[p]
      BY <2>1 DEF Drawn, drawn
    <3>2. Shown(L, k, p) = Left(L, n, p)
      BY <1>3, <2>1, <1>10 DEF AddsLayer
    <3> QED
      BY <1>5, <3>1, <3>2
  <2>2. CASE p \in AreaOf(c)
    <3>1. drawn[p] = Blend(c, sample(p), canvas[p])
      BY <2>2 DEF Drawn, drawn, sample
    <3>2. CASE kind(p) = "solid"
      <4>1. Shown(L, k, p) = <<sample(p)>>
        BY <1>3, <1>4, <2>2, <3>2, <1>10 DEF AddsLayer
      <4> QED
        BY <3>1, <3>2, <4>1 DEF Blend, kind
    <3>3. CASE kind(p) = "nothing"
      <4>1. Shown(L, k, p) = Left(L, n, p)
        BY <1>3, <1>4, <2>2, <3>3, <1>10 DEF AddsLayer
      <4> QED
        BY <1>5, <3>1, <3>3, <4>1 DEF Blend, kind
    <3>4. CASE kind(p) = "glaze"
      <4>1. Shown(L, k, p) = Append(Left(L, n, p), sample(p))
        BY <1>3, <1>4, <2>2, <3>4, <1>10 DEF AddsLayer
      <4> QED
        BY <1>5, <3>1, <3>4, <4>1 DEF Blend, kind
    <3>5. kind(p) \in {"solid", "nothing", "glaze"}
      BY DEF kind
    <3> QED
      BY <3>2, <3>3, <3>4, <3>5
  <2> QED
    BY <2>1, <2>2
<1>7. drawn = [p \in Pixels |-> Shown(L, k, p)]
  <2>1. drawn = [p \in Pixels |-> drawn[p]]
    BY DEF Drawn, drawn
  <2> HIDE DEF drawn
  <2> QED
    BY <1>6, <2>1
<1>8. ASSUME NEW p \in Pixels
      PROVE  Disposed(c, drawn)[p] = Left(L, k, p)
  <2>1. CASE c.dispose = "background"
    <3>1. Disposed(c, drawn)[p] = IF p \in AreaOf(c) THEN <<Empty>> ELSE drawn[p]
      <4> HIDE DEF drawn
      <4> QED
        BY <2>1 DEF Disposed
    <3>2. CASE p \in AreaOf(c)
      <4>1. Left(L, k, p) = <<Empty>>
        BY <1>3, <2>1, <3>2, <1>11 DEF TakesLayer
      <4> QED
        BY <3>1, <3>2, <4>1
    <3>3. CASE p \notin AreaOf(c)
      <4>1. Left(L, k, p) = Left(L, n, p) /\ Shown(L, k, p) = Left(L, n, p)
        BY <1>3, <3>3, <1>10, <1>11 DEF AddsLayer, TakesLayer
      <4> QED
        BY <1>6, <3>1, <3>3, <4>1
    <3> QED
      BY <3>2, <3>3
  <2>2. CASE c.dispose = "previous"
    <3>1. Disposed(c, drawn) = canvas
      BY <2>2 DEF Disposed
    <3>2. Left(L, k, p) = Left(L, n, p)
      BY <1>3, <2>2, <1>11 DEF TakesLayer
    <3> QED
      BY <1>5, <3>1, <3>2
  <2>3. CASE c.dispose \notin {"background", "previous"}
    <3>1. Disposed(c, drawn) = drawn
      BY <2>3 DEF Disposed
    <3>2. Left(L, k, p) = Shown(L, k, p)
      BY <1>3, <2>3, <1>11 DEF TakesLayer
    <3> QED
      BY <1>6, <3>1, <3>2
  <2> QED
    BY <2>1, <2>2, <2>3
<1>9. Disposed(c, drawn) = [p \in Pixels |-> Left(L, k, p)]
  <2>1. Disposed(c, drawn) = [p \in Pixels |-> Disposed(c, drawn)[p]]
    <3>1. drawn = [p \in Pixels |-> drawn[p]]
      BY DEF Drawn, drawn
    <3>2. canvas = [p \in Pixels |-> canvas[p]]
      BY DEF OnCanvas
    <3> HIDE DEF drawn
    <3>3. CASE c.dispose = "background"
      BY <3>3 DEF Disposed
    <3>4. CASE c.dispose = "previous"
      <4>1. Disposed(c, drawn) = canvas
        BY <3>4 DEF Disposed
      <4> QED
        BY <3>2, <4>1
    <3>5. CASE c.dispose \notin {"background", "previous"}
      <4>1. Disposed(c, drawn) = drawn
        BY <3>5 DEF Disposed
      <4> QED
        BY <3>1, <4>1
    <3> QED
      BY <3>3, <3>4, <3>5
  <2> QED
    BY <1>8, <2>1
<1> QED
  BY <1>7, <1>9 DEF L, drawn

------------------------------------------------------------------------------
(* The verdict.                                                              *)

\* Frame k can be shown: it lies within the canvas and its data are a picture of it.
FrameShows(k) ==
  LET c == file[ControlAt(k)]
  IN  AreaOf(c) # {} /\ AreaOf(c) \subseteq Pixels /\ Whole(PiecesOf(k), c.w, c.h)

\* The colour type, as the first pass knows it.
LEMMA ColorIs ==
  ASSUME FileOk, HeadersRead
  PROVE  Color = ihdr.color
<1>1. CASE Positions("IHDR") = {}
  BY <1>1 DEF HeadersRead, Color
<1>2. CASE Positions("IHDR") # {}
  <2>1. PICK n : /\ IsLast("IHDR", n)
                 /\ ihdr = [size |-> file[n].size, color |-> file[n].color]
    BY <1>2 DEF HeadersRead
  <2>2. Positions("IHDR") \in SUBSET Int
    <3>1. Positions("IHDR") \in SUBSET Nat
      BY PositionsAre DEF FileOk
    <3> QED
      BY <3>1
  <2>3. Max(Positions("IHDR")) = n
    BY <2>1, <2>2, MaxIs DEF IsLast
  <2> QED
    BY <1>2, <2>1, <2>3 DEF Color
<1> QED
  BY <1>1, <1>2

\* Samples are decoded as the file means them, unless it names a clear colour.
LEMMA SamplesAre ==
  ASSUME FileOk, HeadersRead, ~Keyed
  PROVE  \A z : DecodedSample(z) = MeantSample(z)
<1>1. Color = ihdr.color /\ (trns <=> Positions("tRNS") # {})
  BY ColorIs DEF HeadersRead
<1> QED
  BY <1>1 DEF DecodedSample, MeantSample, Keyed

\* Whether a file can be shown, as the first pass knows it.
LEMMA ShowableIs ==
  ASSUME FileOk, HeadersRead, ControlsRead, Len(fctls) \in Nat
  PROVE  Showable <=>
           /\ ihdr.size = "canvas" /\ (ihdr.color = "indexed" => plte)
           /\ IF Len(fctls) = 0 THEN Whole(PiecesAt(Positions("IDAT")), Width, Height)
                                ELSE \A k \in 1..Len(fctls) : FrameShows(k)
<1> DEFINE m == Max(Positions("IHDR"))
<1>0. Color = ihdr.color
  BY ColorIs
<1>1. /\ Positions("IHDR") = {} => ihdr.size # "canvas"
      /\ Positions("IHDR") # {} => file[m].size = ihdr.size /\ file[m].color = ihdr.color
  <2>1. CASE Positions("IHDR") = {}
    BY <2>1 DEF HeadersRead, NoHeader
  <2>2. CASE Positions("IHDR") # {}
    <3>1. PICK n : /\ IsLast("IHDR", n)
                   /\ ihdr = [size |-> file[n].size, color |-> file[n].color]
      BY <2>2 DEF HeadersRead
    <3>2. Positions("IHDR") \in SUBSET Int
      <4>1. Positions("IHDR") \in SUBSET Nat
        BY PositionsAre DEF FileOk
      <4> QED
        BY <4>1
    <3>3. n \in Positions("IHDR") /\ \A j \in Positions("IHDR") : j <= n
      BY <3>1 DEF IsLast
    <3>4. m = n
      BY <3>2, <3>3, MaxIs
    <3> HIDE DEF m
    <3> QED
      BY <2>2, <3>1, <3>4
  <2> QED
    BY <2>1, <2>2
<1>2. plte <=> Positions("PLTE") # {}
  BY DEF HeadersRead
<1>3. Positions("fcTL") = {} <=> Len(fctls) = 0
  <2>1. IsFiniteSet(Positions("fcTL")) /\ Len(fctls) = Cardinality(Positions("fcTL"))
    BY PositionsAre DEF FileOk, ControlsRead
  <2> QED
    BY <2>1, FS_EmptySet
<1>4. \A n \in Positions("fdAT") : \E j \in Positions("fcTL") : j < n
  BY DEF ControlsRead
<1>5. 1..Cardinality(Positions("fcTL")) = 1..Len(fctls)
  BY DEF ControlsRead
<1> HIDE DEF m
<1>6. Showable <=>
        /\ Positions("IHDR") # {} /\ file[m].size = "canvas"
        /\ Color = "indexed" => Positions("PLTE") # {}
        /\ \A n \in Positions("fdAT") : \E j \in Positions("fcTL") : j < n
        /\ IF Positions("fcTL") = {}
             THEN Whole(PiecesAt(Positions("IDAT")), Width, Height)
             ELSE \A k \in 1..Cardinality(Positions("fcTL")) : FrameShows(k)
  BY DEF Showable, FrameShows, Whole, m
<1> QED
  BY <1>0, <1>1, <1>2, <1>3, <1>4, <1>5, <1>6

\* What apng_load has made of the file: nothing before the canvas is set up, then a
\* layer for each frame, and at last the verdict the file deserves.
Pictured ==
  /\ pc \in {"canvas", "compose"} => Len(fctls) > 0
  /\ pc = "still" => Len(fctls) = 0
  /\ pc \in {"still", "canvas", "compose"} => ihdr.size = "canvas"
  /\ pc \in Early => canvas = [p \in Pixels |-> <<Empty>>]
  /\ (pc = "compose" /\ ~Keyed) => OnCanvas
  /\ FramesAreLayers
  /\ (pc = "compose" /\ ~starved) =>
       /\ \A k \in 1..Len(shots) : FrameShows(k)
       /\ Len(shots) > 0 => (ihdr.color = "indexed" => plte)
  /\ VerdictIsExact
  /\ (pc = "done" /\ loaded /\ ~starved) => (metadata <=> HasMetadata)

\* Where nothing has been shown yet, or nothing can be.
LEMMA NotYetPictured ==
  ASSUME Len(shots') = 0, ~loaded', pc' \in {"walk", "check", "done"},
         pc' # "done" => canvas' = [p \in Pixels |-> <<Empty>>],
         pc' = "done" => starved' \/ ~Showable'
  PROVE  Pictured'
<1>1. FramesAreLayers'
  BY DEF FramesAreLayers, EveryFrameIsLayers
<1>2. VerdictIsExact'
  BY DEF VerdictIsExact
<1> QED
  BY <1>1, <1>2 DEF Pictured, Pixels, Early

\* A chunk that is refused leaves a file nobody can show.
LEMMA ChunkPictured ==
  ASSUME FileOk, Reading, Typed, HeapOk, Pictured, AnyChunk
  PROVE  Pictured'
<1>0. PICK c : Take(c)
  BY DEF AnyChunk
<1>1. /\ pc = "walk" /\ ControlsRead /\ Len(shots) = 0 /\ ~loaded
      /\ canvas = [p \in Pixels |-> <<Empty>>] /\ file' = Append(file, c)
  <2>1. pc = "walk" /\ file' = Append(file, c)
    BY <1>0, TakeReads
  <2>2. shots = <<>> /\ ~loaded
    BY <2>1 DEF Typed, Early
  <2>3. Len(shots) = 0
    BY <2>2
  <2> QED
    BY <2>1, <2>2, <2>3 DEF Reading, Pictured, Early
<1>2. ASSUME UNCHANGED drawVars, pc' \in {"walk", "check"} PROVE Pictured'
  <2>1. UNCHANGED <<canvas, shots, loaded>>
    BY <1>2 DEF drawVars
  <2> QED
    BY <1>1, <1>2, <2>1, NotYetPictured
<1>3. ASSUME Fail({}), starved' \/ ~Showable' PROVE Pictured'
  <2>1. UNCHANGED <<canvas, shots, loaded>> /\ pc' = "done"
    BY <1>3 DEF Fail, drawVars
  <2>2. Len(shots') = 0 /\ ~loaded'
    BY <1>1, <2>1
  <2> QED
    BY <1>3, <2>1, <2>2, NotYetPictured
<1>4. CASE ReadHeader(c) \/ ReadActl(c) \/ ReadPlte(c) \/ ReadTrns(c) \/ ReadOther(c)
           \/ ReadIdat(c) \/ ReadEnd(c)
  BY <1>1, <1>2, <1>4
  DEF ReadHeader, ReadActl, ReadPlte, ReadTrns, ReadOther, ReadIdat, ReadEnd
<1>5. CASE ReadFctl(c)
  <2>1. PICK oom \in OutOfMemory :
          /\ starved' = (starved \/ oom)
          /\ IF oom THEN Fail({}) ELSE UNCHANGED <<pc, drawVars>>
    BY <1>5 DEF ReadFctl
  <2>2. CASE oom
    BY <1>3, <2>1, <2>2
  <2>3. CASE ~oom
    BY <1>1, <1>2, <2>1, <2>3
  <2> QED
    BY <2>2, <2>3
<1>6. CASE ReadFdat(c)
  <2>1. CASE fctls = <<>>
    <3>1. Fail({}) /\ c.kind = "fdAT"
      BY <1>6, <2>1 DEF ReadFdat
    <3>2. Positions("fcTL")' = {}
      <4>1. Len(fctls) = 0
        BY <2>1
      <4>2. Cardinality(Positions("fcTL")) = 0 /\ IsFiniteSet(Positions("fcTL"))
        BY <1>1, <4>1, PositionsAre DEF ControlsRead, FileOk
      <4>3. Positions("fcTL") = {}
        BY <4>2, FS_EmptySet
      <4> QED
        BY <1>1, <3>1, <4>3, PositionsGrow DEF FileOk
    <3>3. Positions("fdAT")' # {}
      BY <1>1, <3>1, LastIsNew
    <3>4. ~Showable'
      BY <3>2, <3>3 DEF Showable
    <3> QED
      BY <1>3, <3>1, <3>4
  <2>2. CASE fctls # <<>>
    <3>1. UNCHANGED <<pc, drawVars>>
      BY <1>6, <2>2 DEF ReadFdat
    <3> QED
      BY <1>1, <1>2, <3>1
  <2> QED
    BY <2>1, <2>2
<1> QED
  BY <1>0, <1>4, <1>5, <1>6 DEF Take, ReadChunk

\* What a file means does not change behind the first pass.
LEMMA FileKept ==
  ASSUME UNCHANGED file
  PROVE  /\ \A K : Positions(K)' = Positions(K)
         /\ \A k : /\ ControlAt(k)' = ControlAt(k) /\ PiecesOf(k)' = PiecesOf(k)
                   /\ LayerOf(k)' = LayerOf(k)
                   /\ FrameShows(k)' <=> FrameShows(k)
         /\ Showable' <=> Showable
         /\ (Keyed' <=> Keyed) /\ (HasMetadata' <=> HasMetadata)
<1>1. \A K : Positions(K)' = Positions(K)
  BY DEF Positions
<1>2. \A k : ControlAt(k)' = ControlAt(k)
  BY <1>1 DEF ControlAt
<1>3. \A k : DataChunks(k)' = DataChunks(k)
  BY <1>1, <1>2 DEF DataChunks
<1>4. \A P : PiecesAt(P)' = PiecesAt(P)
  BY DEF PiecesAt, Those
<1>5. \A k : PiecesOf(k)' = PiecesOf(k)
  <2> SUFFICES ASSUME NEW k PROVE PiecesOf(k)' = PiecesOf(k)
    OBVIOUS
  <2>1. PiecesOf(k)' = [n \in DOMAIN Those(file', DataChunks(k)') |->
                          Those(file', DataChunks(k)')[n].piece]
    BY DEF PiecesOf, PiecesAt
  <2> QED
    BY <1>3, <2>1 DEF PiecesOf, PiecesAt
<1>12. Color' = Color
  BY <1>1 DEF Color, NoHeader
<1>13. \A z : MeantSample(z)' = MeantSample(z)
  BY <1>1, <1>12 DEF MeantSample
<1>14. (Keyed' <=> Keyed) /\ (HasMetadata' <=> HasMetadata)
  BY <1>1, <1>12 DEF Keyed, HasMetadata
<1>6. \A k : LayerOf(k)' = LayerOf(k)
  BY <1>2, <1>5, <1>13, ZenonT(40) DEF LayerOf
<1>7. \A k : FrameShows(k)' <=> FrameShows(k)
  BY <1>2, <1>5 DEF FrameShows, Pixels
<1>8. PiecesAt(Positions("IDAT"))' = PiecesAt(Positions("IDAT"))
  <2>1. PiecesAt(Positions("IDAT"))' = [n \in DOMAIN Those(file', Positions("IDAT")') |->
                                          Those(file', Positions("IDAT")')[n].piece]
    BY DEF PiecesAt
  <2> QED
    BY <1>1, <2>1 DEF PiecesAt
<1>9. Showable <=>
        /\ Positions("IHDR") # {} /\ file[Max(Positions("IHDR"))].size = "canvas"
        /\ Color = "indexed" => Positions("PLTE") # {}
        /\ \A n \in Positions("fdAT") : \E j \in Positions("fcTL") : j < n
        /\ IF Positions("fcTL") = {}
             THEN Whole(PiecesAt(Positions("IDAT")), Width, Height)
             ELSE \A k \in 1..Cardinality(Positions("fcTL")) : FrameShows(k)
  BY DEF Showable, FrameShows, Whole
<1>10. Showable' <=>
        /\ Positions("IHDR")' # {} /\ file'[Max(Positions("IHDR")')].size = "canvas"
        /\ Color' = "indexed" => Positions("PLTE")' # {}
        /\ \A n \in Positions("fdAT")' : \E j \in Positions("fcTL")' : j < n
        /\ IF Positions("fcTL")' = {}
             THEN Whole(PiecesAt(Positions("IDAT"))', Width, Height)
             ELSE \A k \in 1..Cardinality(Positions("fcTL")') : FrameShows(k)'
  BY DEF Showable, FrameShows, Whole, Pixels
<1>11. Showable' <=> Showable
  BY <1>1, <1>7, <1>8, <1>9, <1>10, <1>12
<1> QED
  BY <1>1, <1>2, <1>5, <1>6, <1>7, <1>11, <1>14

\* Shot k of n is frame k of the file.
FirstLayers(n) == [k \in 1..n |-> LayerOf(k)]

FrameIs(k, shot, n) ==
  /\ PiecesOf(k) # <<>>
  /\ shot.pixels = [p \in Pixels |-> Shown(FirstLayers(n), k, p)]
  /\ shot.delay = file[ControlAt(k)].delay

\* FramesAreLayers, shot by shot, now and after a step.
LEMMA FramesNow ==
  /\ FramesAreLayers <=> ((~Keyed /\ pc \in {"compose", "done"} /\ fctls # <<>>) =>
                            \A k \in 1..Len(shots) : FrameIs(k, shots[k], Len(shots)))
  /\ UNCHANGED file =>
       (FramesAreLayers' <=>
          ((~Keyed /\ pc' \in {"compose", "done"} /\ fctls' # <<>>) =>
             \A k \in 1..Len(shots') : FrameIs(k, shots'[k], Len(shots'))))
<1>1. FramesAreLayers <=> ((~Keyed /\ pc \in {"compose", "done"} /\ fctls # <<>>) =>
                            \A k \in 1..Len(shots) : FrameIs(k, shots[k], Len(shots)))
  BY DEF FramesAreLayers, EveryFrameIsLayers, FrameIs, FirstLayers
<1>2. ASSUME UNCHANGED file
      PROVE  FramesAreLayers' <=>
               ((~Keyed /\ pc' \in {"compose", "done"} /\ fctls' # <<>>) =>
                  \A k \in 1..Len(shots') : FrameIs(k, shots'[k], Len(shots')))
  <2>1. /\ \A k : /\ ControlAt(k)' = ControlAt(k) /\ PiecesOf(k)' = PiecesOf(k)
                  /\ LayerOf(k)' = LayerOf(k)
        /\ Keyed' <=> Keyed
    BY <1>2, FileKept
  <2>2. [k \in 1..Len(shots') |-> LayerOf(k)'] = FirstLayers(Len(shots'))
    BY <2>1 DEF FirstLayers
  <2>3. FramesAreLayers' <=>
          ((~Keyed /\ pc' \in {"compose", "done"} /\ fctls' # <<>>) =>
             \A k \in 1..Len(shots') :
               /\ PiecesOf(k)' # <<>>
               /\ shots'[k].pixels =
                    [p \in Pixels |-> Shown([j \in 1..Len(shots') |-> LayerOf(j)'], k, p)]
               /\ shots'[k].delay = file'[ControlAt(k)'].delay)
    BY <2>1 DEF FramesAreLayers, EveryFrameIsLayers, Pixels
  <2>4. \A k \in 1..Len(shots') : FrameIs(k, shots'[k], Len(shots')) <=>
          /\ PiecesOf(k)' # <<>>
          /\ shots'[k].pixels =
               [p \in Pixels |-> Shown([j \in 1..Len(shots') |-> LayerOf(j)'], k, p)]
          /\ shots'[k].delay = file'[ControlAt(k)'].delay
    BY <1>2, <2>1, <2>2 DEF FrameIs
  <2> QED
    BY <2>3, <2>4
<1> QED
  BY <1>1, <1>2

\* A frame is the same whichever frames follow.
LEMMA FrameStays ==
  ASSUME NEW n \in Nat, NEW m \in Nat, n <= m, NEW k \in 1..n, NEW shot
  PROVE  FrameIs(k, shot, n) <=> FrameIs(k, shot, m)
<1>1. \A j \in 1..k : FirstLayers(n)[j] = FirstLayers(m)[j]
  <2> SUFFICES ASSUME NEW j \in 1..k PROVE FirstLayers(n)[j] = FirstLayers(m)[j]
    OBVIOUS
  <2>1. j \in 1..n /\ j \in 1..m
    OBVIOUS
  <2> QED
    BY <2>1 DEF FirstLayers
<1>2. k \in Nat
  OBVIOUS
<1> DEFINE K == FirstLayers(n)
           L == FirstLayers(m)
<1> HIDE DEF K, L
<1>3. \A p : Shown(K, k, p) = Shown(L, k, p)
  <2>1. \A j \in 1..k : K[j] = L[j]
    BY <1>1 DEF K, L
  <2> QED
    BY <1>2, <2>1, ShownSame
<1>4. [p \in Pixels |-> Shown(K, k, p)] = [p \in Pixels |-> Shown(L, k, p)]
  BY <1>3
<1> QED
  BY <1>4 DEF FrameIs, K, L

\* png_metadata_copy succeeds if there is anything to copy.
LEMMA MetadataIs ==
  ASSUME TakeMetadata, ~starved'
  PROVE  ~starved /\ (metadata' <=> HasMetadata)
<1>1. PICK oom \in OutOfMemory :
        metadata' = (HasMetadata /\ ~oom) /\ starved' = (starved \/ (HasMetadata /\ oom))
  BY DEF TakeMetadata
<1> QED
  BY <1>1

\* One frame is composed and becomes the next shot, or the load ends with a verdict.
LEMMA StepPictured ==
  ASSUME FileOk, HeadersRead, Reading, Typed, HeapOk, Pictured, LoadStep \/ UNCHANGED vars
  PROVE  Pictured'
<1>1. /\ UNCHANGED <<file, ihdr, plte, fctls, fcap, default_is_frame, idat_default>>
      /\ \A K : Positions(K)' = Positions(K)
      /\ \A k : /\ ControlAt(k)' = ControlAt(k) /\ PiecesOf(k)' = PiecesOf(k)
                /\ LayerOf(k)' = LayerOf(k)
                /\ FrameShows(k)' <=> FrameShows(k)
      /\ Showable' <=> Showable
      /\ (Keyed' <=> Keyed) /\ (HasMetadata' <=> HasMetadata)
  <2>1. UNCHANGED <<file, ihdr, plte, fctls, fcap, default_is_frame, idat_default>>
    BY LoadStepKeepsFile
  <2> QED
    BY <2>1, FileKept
<1>2. FileLayers' = FileLayers
  BY <1>1 DEF FileLayers
<1>3. Len(shots) \in Nat /\ Len(fctls) \in Nat /\ (Len(fctls) = 0 <=> fctls = <<>>)
  <2>1. PICK S : shots \in Seq(S)
    BY DEF Typed, IsSequence
  <2>2. PICK T : fctls \in Seq(T)
    BY DEF Typed, IsSequence
  <2> QED
    BY <2>1, <2>2, LenProperties, EmptySeq
<1>4. CASE UNCHANGED <<pc, drawVars, starved>>
  <2>1. UNCHANGED <<pc, canvas, shots, metadata, loaded, starved>>
    BY <1>4 DEF drawVars
  <2>2. FramesAreLayers'
    BY <1>1, <2>1, FramesNow DEF Pictured
  <2>3. VerdictIsExact'
    BY <1>1, <2>1 DEF Pictured, VerdictIsExact
  <2>4. (pc = "compose" /\ ~Keyed) => OnCanvas'
    BY <1>2, <2>1 DEF Pictured, OnCanvas, Pixels
  <2> QED
    BY <1>1, <2>1, <2>2, <2>3, <2>4 DEF Pictured, Pixels
<1>5. ASSUME NEW also, Fail(also), pc \notin {"walk", "done"}, starved' \/ ~Showable
      PROVE  Pictured'
  <2>1. UNCHANGED <<canvas, shots, metadata, loaded>> /\ pc' = "done" /\ ~loaded'
    BY <1>5 DEF Fail, drawVars, Typed
  <2>2. FramesAreLayers'
    <3>1. CASE pc = "compose"
      BY <1>1, <2>1, <3>1, FramesNow DEF Pictured
    <3>2. CASE pc # "compose"
      <4>1. shots = <<>>
        BY <1>5, <3>2 DEF Typed, Early
      <4>2. Len(shots') = 0
        BY <2>1, <4>1
      <4> QED
        BY <1>1, <4>2, FramesNow
    <3> QED
      BY <3>1, <3>2
  <2>3. VerdictIsExact'
    BY <1>1, <1>5, <2>1 DEF VerdictIsExact
  <2> QED
    BY <2>1, <2>2, <2>3 DEF Pictured, Early
<1>6. pc # "done" =>
        /\ ControlsRead /\ DataRead
        /\ Showable <=>
             /\ ihdr.size = "canvas" /\ (ihdr.color = "indexed" => plte)
             /\ IF Len(fctls) = 0 THEN Whole(PiecesAt(Positions("IDAT")), Width, Height)
                                  ELSE \A k \in 1..Len(fctls) : FrameShows(k)
        /\ Cardinality(Positions("fcTL")) = Len(fctls)
  BY <1>3, ShowableIs DEF Reading, ControlsRead
<1>7. CASE CheckCanvas
  <2>1. pc = "check" /\ starved' = starved
    BY <1>7 DEF CheckCanvas
  <2>2. CASE ihdr.size = "canvas"
    <3>1. /\ pc' = (IF fctls = <<>> THEN "still" ELSE "canvas")
          /\ UNCHANGED <<canvas, shots, metadata, loaded>>
      BY <1>7, <2>2 DEF CheckCanvas, drawVars
    <3>2. FramesAreLayers' /\ VerdictIsExact'
      BY <3>1 DEF FramesAreLayers, EveryFrameIsLayers, VerdictIsExact
    <3>3. canvas' = [p \in Pixels |-> <<Empty>>]
      BY <2>1, <3>1 DEF Pictured, Early
    <3> QED
      BY <1>1, <1>3, <2>2, <3>1, <3>2, <3>3 DEF Pictured, Pixels
  <2>3. CASE ihdr.size # "canvas"
    <3>1. Fail({})
      BY <1>7, <2>3 DEF CheckCanvas
    <3>2. ~Showable
      BY <1>6, <2>1, <2>3
    <3> QED
      BY <1>5, <2>1, <3>1, <3>2
  <2> QED
    BY <2>2, <2>3
<1>8. CASE LoadStill
  <2>1. pc = "still" /\ Len(fctls) = 0 /\ fctls = <<>> /\ ihdr.size = "canvas"
    BY <1>3, <1>8 DEF LoadStill, Pictured
  <2>2. ~starved => (Decodes(idat_default, Width, Height) <=>
                       Whole(PiecesAt(Positions("IDAT")), Width, Height)
                         /\ (ihdr.color = "indexed" => plte))
    <3>1. Positions("IDAT") \in SUBSET Nat /\ IsFiniteSet(Positions("IDAT"))
      BY PositionsAre DEF FileOk
    <3>2. Collected(file, starved, idat_default, Positions("IDAT"))
      BY <1>6, <2>1 DEF DataRead
    <3> QED
      BY <3>1, <3>2, DecodesIs
  <2>3. ~starved => (Showable <=> Decodes(idat_default, Width, Height))
    BY <1>6, <2>1, <2>2
  <2>4. CASE ~Decodes(idat_default, Width, Height) /\ Fail({}) /\ UNCHANGED starved
    BY <1>5, <2>1, <2>3, <2>4
  <2>5. CASE starved' = TRUE /\ Fail({})
    BY <1>5, <2>1, <2>5
  <2>6. CASE /\ Decodes(idat_default, Width, Height)
             /\ shots' = <<[pixels |-> Samples(idat_default.pieces[1].pic), delay |-> 0]>>
             /\ Return /\ TakeMetadata
    <3>1. pc' = "done" /\ loaded' = TRUE
      BY <2>6 DEF Return
    <3>2. FramesAreLayers'
      BY <1>1, <2>1 DEF FramesAreLayers, EveryFrameIsLayers
    <3>3. ~starved' => ~starved /\ (metadata' <=> HasMetadata)
      BY <2>6, MetadataIs
    <3>4. Len(shots') = 1
      BY <2>6
    <3>5. Max({1, Cardinality(Positions("fcTL"))'}) = 1
      <4>1. Cardinality(Positions("fcTL"))' = 0
        BY <1>1, <1>6, <2>1
      <4>2. Max({1, 0}) = 1
        BY MaxOfTwo
      <4> QED
        BY <4>1, <4>2
    <3>6. VerdictIsExact'
      BY <1>1, <2>3, <2>6, <3>1, <3>3, <3>4, <3>5 DEF VerdictIsExact
    <3> QED
      BY <1>1, <3>1, <3>2, <3>3, <3>6 DEF Pictured, Early
  <2> QED
    BY <1>8, <2>4, <2>5, <2>6 DEF LoadStill
<1>9. CASE AllocateCanvas
  <2> DEFINE wanted == {Block("frames"), Block("canvas"), Block("prevbuf")}
  <2>1. PICK missed \in SUBSET wanted :
          /\ starved' = (starved \/ missed # {})
          /\ IF missed = {}
               THEN pc' = "compose" /\ heap' = heap \cup wanted /\ UNCHANGED drawVars
               ELSE Fail(wanted \ missed)
    BY <1>9 DEF AllocateCanvas
  <2>2. pc = "canvas" /\ shots = <<>> /\ Len(shots) = 0
    <3>1. pc = "canvas"
      BY <1>9 DEF AllocateCanvas
    <3>2. shots = <<>>
      BY <3>1 DEF Typed, Early
    <3>3. Len(<<>>) = 0
      OBVIOUS
    <3> QED
      BY <3>1, <3>2, <3>3
  <2>3. CASE missed = {}
    <3>1. pc' = "compose" /\ UNCHANGED <<canvas, shots, metadata, loaded>>
      BY <2>1, <2>3 DEF drawVars
    <3>2. FramesAreLayers' /\ VerdictIsExact'
      BY <1>1, <2>2, <3>1, FramesNow DEF VerdictIsExact
    <3>3. OnCanvas'
      <4>1. canvas' = [p \in Pixels |-> <<Empty>>]
        BY <2>2, <3>1 DEF Pictured, Early
      <4>2. Len(shots') = 0
        BY <2>2, <3>1
      <4>3. \A p : Left(FileLayers', 0, p) = <<Empty>>
        BY NothingLeft
      <4>4. [p \in Pixels |-> Left(FileLayers', 0, p)] = [p \in Pixels |-> <<Empty>>]
        BY <4>3
      <4>5. OnCanvas' <=> canvas' = [p \in Pixels |-> Left(FileLayers', Len(shots'), p)]
        BY DEF OnCanvas, Pixels
      <4> QED
        BY <4>1, <4>2, <4>4, <4>5
    <3> QED
      BY <1>1, <2>2, <3>1, <3>2, <3>3 DEF Pictured, Early
  <2>4. CASE missed # {}
    <3>1. Fail(wanted \ missed) /\ starved'
      BY <2>1, <2>4
    <3> QED
      BY <1>5, <2>2, <3>1
  <2> QED
    BY <2>3, <2>4
<1>10. CASE Compose
  <2> DEFINE k == Len(shots) + 1
             c == fctls[k].ctl
             pic == DataOf(k).pieces[1].pic
             drawn == Drawn(c, pic)
             f == [pixels |-> drawn, delay |-> c.delay]
             good == InCanvas(c) /\ Decodes(DataOf(k), c.w, c.h)
  <2>1. /\ pc = "compose" /\ Len(shots) < Len(fctls)
        /\ \/ ~good /\ Fail({}) /\ UNCHANGED starved
           \/ starved' = TRUE /\ Fail({})
           \/ /\ good
              /\ shots' = Append(shots, f)
              /\ canvas' = Disposed(c, drawn)
              /\ UNCHANGED <<pc, metadata, loaded, starved>>
    BY <1>10 DEF Compose
  <2>2. /\ k \in 1..Len(fctls) /\ ControlsRead /\ DataRead /\ c = file[ControlAt(k)]
        /\ {c.x, c.y, c.w, c.h} \subseteq Nat
    <3>1. ControlsRead /\ DataRead
      BY <1>6, <2>1
    <3>2. k \in 1..Len(fctls)
      BY <1>3, <2>1
    <3>3. c = file[ControlAt(k)]
      BY <3>1, <3>2 DEF ControlsRead
    <3>4. k \in 1..Cardinality(Positions("fcTL"))
      BY <3>1, <3>2 DEF ControlsRead
    <3>5. c.kind = "fcTL" /\ NumbersOk(c)
      BY <3>3, <3>4, ControlsAre DEF FileOk
    <3> QED
      BY <3>1, <3>2, <3>3, <3>5 DEF NumbersOk
  <2>3. /\ good => PiecesOf(k) # <<>> /\ pic = PiecesOf(k)[1].pic
        /\ ~starved => (good <=> FrameShows(k) /\ (ihdr.color = "indexed" => plte))
    <3>1. /\ Collected(file, starved, DataOf(k), DataChunks(k))
          /\ DataChunks(k) \in SUBSET Nat /\ IsFiniteSet(DataChunks(k))
      BY <2>2, DataIs
    <3> DEFINE data == DataOf(k)
    <3> HIDE DEF data, k, c
    <3>2. /\ Decodes(data, c.w, c.h) => PiecesOf(k) # <<>> /\ PiecesOf(k)[1] = data.pieces[1]
          /\ ~starved => (Decodes(data, c.w, c.h) <=> Whole(PiecesOf(k), c.w, c.h)
                                                       /\ (ihdr.color = "indexed" => plte))
      BY <3>1, DecodesIs DEF PiecesOf, data
    <3>3. InCanvas(c) <=> AreaOf(c) # {} /\ AreaOf(c) \subseteq Pixels
      BY <2>2, InCanvasIs
    <3> QED
      BY <2>2, <3>2, <3>3 DEF FrameShows, data
  <2>4. CASE ~good /\ Fail({}) /\ UNCHANGED starved
    <3> HIDE DEF k, good
    <3>1. starved' \/ ~Showable
      <4>1. ~starved => ~(FrameShows(k) /\ (ihdr.color = "indexed" => plte))
        BY <2>3, <2>4
      <4>2. Len(fctls) # 0
        BY <1>3, <2>2
      <4> QED
        BY <1>6, <2>1, <2>2, <2>4, <4>1, <4>2
    <3> QED
      BY <1>5, <2>1, <2>4, <3>1
  <2>5. CASE starved' = TRUE /\ Fail({})
    BY <1>5, <2>1, <2>5
  <2>6. CASE /\ good /\ shots' = Append(shots, f)
             /\ canvas' = Disposed(c, drawn)
             /\ UNCHANGED <<pc, metadata, loaded, starved>>
    <3>1. ASSUME ~Keyed
          PROVE  /\ drawn = [p \in Pixels |-> Shown(FileLayers, k, p)]
                 /\ Disposed(c, drawn) = [p \in Pixels |-> Left(FileLayers, k, p)]
      <4>1. OnCanvas
        BY <2>1, <3>1 DEF Pictured
      <4>5. \A z : DecodedSample(z) = MeantSample(z)
        BY <3>1, SamplesAre
      <4>2. pic = PiecesOf(k)[1].pic
        BY <2>3, <2>6
      <4>3. k <= Len(fctls)
        BY <2>2
      <4> DEFINE y == pic
      <4> HIDE DEF y
      <4>4. /\ Drawn(c, y) = [p \in Pixels |-> Shown(FileLayers, k, p)]
            /\ Disposed(c, Drawn(c, y)) = [p \in Pixels |-> Left(FileLayers, k, p)]
        <5>1. y = PiecesOf(k)[1].pic
          BY <4>2 DEF y
        <5> QED
          BY <1>3, <2>2, <4>1, <4>3, <4>5, <5>1, FrameIsLayer
      <4> QED
        BY <4>4 DEF y
    <3>2. f.pixels = drawn /\ f.delay = c.delay
      OBVIOUS
    <3> HIDE DEF f, drawn, c
    <3>3. /\ Len(shots') = k /\ shots'[k] = f
          /\ \A j \in 1..Len(shots) : shots'[j] = shots[j]
      <4>1. \E S : shots \in Seq(S)
        BY DEF Typed, IsSequence
      <4>2. /\ Len(Append(shots, f)) = Len(shots) + 1 /\ Append(shots, f)[Len(shots) + 1] = f
            /\ \A j \in 1..Len(shots) : Append(shots, f)[j] = shots[j]
        BY <4>1, SeqGrows
      <4>3. shots' = Append(shots, f)
        BY <2>6
      <4> QED
        BY <4>2, <4>3
    <3>4. pc' = "compose" /\ UNCHANGED <<metadata, loaded, starved>>
      BY <2>1, <2>6
    <3>5. FileLayers = FirstLayers(Len(fctls))
      BY DEF FileLayers, FirstLayers
    <3>6. ~Keyed => FrameIs(k, f, Len(fctls))
      BY <2>2, <2>3, <2>6, <3>1, <3>2, <3>5 DEF FrameIs
    <3>7. ASSUME ~Keyed, NEW j \in 1..Len(shots') PROVE FrameIs(j, shots'[j], Len(shots'))
      <4>1. /\ Len(shots') \in Nat /\ Len(shots') <= Len(fctls) /\ Len(shots) <= Len(shots')
            /\ j \in 1..Len(shots) \/ j = k
        BY <1>3, <2>2, <3>3
      <4>2. CASE j = k
        BY <1>3, <3>3, <3>6, <3>7, <4>1, <4>2, FrameStays
      <4>3. CASE j \in 1..Len(shots)
        <5>1. FrameIs(j, shots[j], Len(shots))
          <6>1. fctls # <<>>
            BY <1>3, <2>2
          <6> QED
            BY <2>1, <3>7, <4>3, <6>1, FramesNow DEF Pictured
        <5>2. FrameIs(j, shots[j], Len(shots'))
          BY <1>3, <4>1, <4>3, <5>1, FrameStays
        <5> QED
          BY <3>3, <4>3, <5>2
      <4> QED
        BY <4>1, <4>2, <4>3
    <3>8. FramesAreLayers'
      BY <1>1, <3>7, FramesNow
    <3>9. ~Keyed => OnCanvas'
      <4>1. OnCanvas' <=> canvas' = [p \in Pixels |-> Left(FileLayers', Len(shots'), p)]
        BY DEF OnCanvas, Pixels
      <4> QED
        BY <1>2, <2>6, <3>1, <3>3, <4>1
    <3>10. ASSUME ~starved
           PROVE  (\A j \in 1..Len(shots') : FrameShows(j)) /\ (ihdr.color = "indexed" => plte)
      <4>1. \A j \in 1..Len(shots) : FrameShows(j)
        BY <2>1, <3>10 DEF Pictured
      <4>2. FrameShows(k) /\ (ihdr.color = "indexed" => plte)
        BY <2>3, <2>6, <3>10
      <4>3. \A j \in 1..Len(shots') : j \in 1..Len(shots) \/ j = k
        BY <1>3, <3>3
      <4> QED
        BY <4>1, <4>2, <4>3
    <3>11. VerdictIsExact'
      BY <3>4 DEF VerdictIsExact
    <3>12. Len(fctls) > 0 /\ ihdr.size = "canvas"
      BY <2>1 DEF Pictured
    <3> QED
      BY <1>1, <3>4, <3>8, <3>9, <3>10, <3>11, <3>12 DEF Pictured, Early
  <2> QED
    BY <2>1, <2>4, <2>5, <2>6
<1>11. CASE ReturnFrames
  <2>1. /\ pc = "compose" /\ Len(shots) = Len(fctls) /\ Return /\ TakeMetadata
        /\ UNCHANGED <<shots, canvas>>
    BY <1>11 DEF ReturnFrames
  <2>2. pc' = "done" /\ loaded' = TRUE
    BY <2>1 DEF Return
  <2>3. ~starved' => ~starved /\ (metadata' <=> HasMetadata)
    BY <2>1, MetadataIs
  <2>4. FramesAreLayers'
    BY <1>1, <2>1, FramesNow DEF Pictured
  <2>5. VerdictIsExact'
    <3>1. Len(fctls) > 0 /\ Len(fctls) # 0 /\ ihdr.size = "canvas"
      BY <1>3, <2>1 DEF Pictured
    <3>2. ~starved => Showable
      BY <1>6, <2>1, <3>1 DEF Pictured
    <3>3. Max({1, Len(fctls)}) = Len(fctls)
      BY <1>3, <3>1, MaxOfTwo
    <3>4. Cardinality(Positions("fcTL"))' = Len(fctls)
      BY <1>1, <1>6, <2>1
    <3>5. Max({1, Cardinality(Positions("fcTL"))'}) = Len(shots')
      BY <2>1, <3>3, <3>4
    <3> QED
      BY <1>1, <2>2, <2>3, <3>2, <3>5 DEF VerdictIsExact
  <2> QED
    BY <1>1, <2>2, <2>3, <2>4, <2>5 DEF Pictured, Early
<1> QED
  <2>1. UNCHANGED vars => UNCHANGED <<pc, drawVars, starved>>
    BY DEF vars
  <2> QED
    BY <1>4, <1>7, <1>8, <1>9, <1>10, <1>11, <2>1 DEF LoadStep

------------------------------------------------------------------------------
(* The loader.                                                               *)

\* What holds of apng_load throughout.
Loader == FileOk /\ HeadersRead /\ Reading /\ Typed /\ HeapOk /\ Pictured

LEMMA LoaderInit ==
  ASSUME Init
  PROVE  Loader
<1>1. file \in Seq({}) /\ fctls \in Seq({}) /\ shots \in Seq({})
  BY DEF Init
<1>2. IsSequence(file) /\ IsSequence(fctls) /\ IsSequence(shots)
  BY <1>1 DEF IsSequence
<1>3. Len(file) = 0 /\ Len(fctls) = 0 /\ Len(shots) = 0 /\ shots = <<>> /\ fctls = <<>>
  BY DEF Init
<1>4. /\ pc = "walk" /\ fcap = 0 /\ ihdr = NoHeader /\ plte = FALSE /\ trns = FALSE
      /\ num_plays = 0
      /\ default_is_frame = FALSE /\ idat_seen = FALSE /\ idat_default = NoData
      /\ metadata = FALSE /\ loaded = FALSE /\ starved = FALSE
  BY DEF Init
<1>5. FileOk
  BY <1>2, <1>3, ApngAssumption DEF FileOk
<1>6. \A K : Positions(K) = {}
  BY <1>3 DEF Positions
<1>7. HeadersRead
  BY <1>4, <1>6 DEF HeadersRead
<1>8. Cardinality(Positions("fcTL")) = 0
  BY <1>6, FS_EmptySet
<1>9. Reading
  <2>1. default_is_frame <=> Len(fctls) > 0 /\ \A n \in Positions("IDAT") : ControlAt(1) < n
    BY <1>3, <1>4
  <2>2. ControlsRead
    <3>1. \A k \in 1..Len(fctls) : FALSE
      BY <1>3
    <3>2. fcap \in Nat /\ Len(fctls) <= fcap
      BY <1>3, <1>4
    <3>4. default_is_frame \in BOOLEAN
      BY <1>4
    <3>3. Len(fctls) = Cardinality(Positions("fcTL"))
      BY <1>3, <1>8
    <3> QED
      BY <1>2, <3>1, <3>2, <3>3, <3>4, <1>6, <2>1 DEF ControlsRead
  <2>3. Collected(file, starved, idat_default, Positions("IDAT"))
    BY <1>4, <1>6, CollectedNone
  <2>4. DataRead
    <3>1. idat_seen = (Positions("IDAT") # {})
      BY <1>4, <1>6
    <3>2. \A k \in 1..Len(fctls) : FALSE
      BY <1>3
    <3> QED
      BY <2>3, <3>1, <3>2 DEF DataRead
  <2> QED
    BY <2>2, <2>4 DEF Reading
<1>10. Typed
  <2>1. /\ plte \in BOOLEAN /\ default_is_frame \in BOOLEAN /\ idat_seen \in BOOLEAN
        /\ metadata \in BOOLEAN /\ loaded \in BOOLEAN /\ starved \in BOOLEAN
        /\ ~loaded /\ ~metadata
    BY <1>4
  <2>2. fcap \in Nat /\ Len(fctls) <= fcap /\ Len(fctls) <= Len(file)
    BY <1>3, <1>4
  <2> QED
    BY <1>2, <1>3, <1>4, <2>1, <2>2 DEF Typed, Early
<1>11. HeapOk
  BY <1>4 DEF Init, HeapOk, Early, NothingLeaks, Scratch
<1>12. Pictured
  BY <1>3, <1>4 DEF Init, Pictured, Early, FramesAreLayers, EveryFrameIsLayers, VerdictIsExact
<1> QED
  BY <1>5, <1>7, <1>9, <1>10, <1>11, <1>12 DEF Loader

LEMMA LoaderStep ==
  ASSUME Loader, AnyChunk \/ LoadStep \/ UNCHANGED vars
  PROVE  Loader'
<1> USE DEF Loader
<1>1. FileOk' /\ HeadersRead' /\ Reading'
  BY FileStep, HeadersStep, ReadingStep
<1>2. Typed' /\ HeapOk' /\ Pictured'
  BY ChunkTyped, StepTyped, ChunkPictured, StepPictured
<1> QED
  BY <1>1, <1>2

\* What the invariant of the loader is for.
LEMMA LoaderGives ==
  ASSUME Loader
  PROVE  LoadInv /\ FramesAreLayers /\ VerdictIsExact
<1>1. Len(file) \in Nat /\ Len(fctls) \in Nat /\ Len(shots) \in Nat /\ MaxChunks \in Nat
  <2>1. \A x : IsSequence(x) => Len(x) \in Nat
    BY DEF IsSequence
  <2> QED
    BY <2>1, ApngAssumption DEF Loader, FileOk, Typed
<1>2. num_plays \in Nat
  <2>1. CASE Positions("acTL") = {}
    BY <2>1 DEF Loader, HeadersRead
  <2>2. CASE Positions("acTL") # {}
    <3>1. PICK n : IsLast("acTL", n) /\ num_plays = file[n].plays
      BY <2>2 DEF Loader, HeadersRead
    <3>2. n \in 1..Len(file) /\ file[n].kind = "acTL"
      BY <3>1 DEF IsLast, Positions
    <3> QED
      BY <3>1, <3>2 DEF Loader, FileOk, NumbersOk
  <2> QED
    BY <2>1, <2>2
<1>3. Len(shots) <= Max({1, Len(fctls)})
  <2>1. Len(shots) = 0 \/ Len(shots) <= 1 \/ Len(shots) <= Len(fctls)
    BY DEF Loader, Typed, Early
  <2>2. Max({1, Len(fctls)}) = IF Len(fctls) <= 1 THEN 1 ELSE Len(fctls)
    BY <1>1, MaxOfTwo
  <2> QED
    BY <1>1, <2>1, <2>2
<1>4. heap \subseteq { Block(b) : b \in {"file", "idat", "fctls", "canvas", "prevbuf",
                                        "frames", "metadata"} }
                      \cup Shots(MaxChunks) \cup { <<"data", k>> : k \in 1..MaxChunks }
  <2> DEFINE B == { Block(b) : b \in {"file", "idat", "fctls", "canvas", "prevbuf",
                                        "frames", "metadata"} }
             D == { <<"data", k>> : k \in 1..MaxChunks }
  <2>1. Len(fctls) <= MaxChunks
    BY <1>1 DEF Loader, Typed, FileOk
  <2>2. DataBlocks \subseteq B \cup D
    BY <1>1, <2>1 DEF DataBlocks
  <2>3. {Block("file"), Block("canvas"), Block("prevbuf"), Block("fctls"),
         Block("frames"), Block("metadata")} \subseteq B
    OBVIOUS
  <2>4. Scratch \subseteq B \cup D
    BY <2>2, <2>3 DEF Scratch
  <2>5. pc \notin Early => Shots(Len(shots)) \subseteq Shots(MaxChunks)
    <3>1. pc \notin Early => Len(shots) <= MaxChunks
      BY <1>1, <2>1 DEF Loader, Typed, FileOk, Early
    <3> QED
      BY <1>1, <3>1 DEF Shots
  <2> SUFFICES heap \subseteq B \cup Shots(MaxChunks) \cup D
    OBVIOUS
  <2> HIDE DEF B, D
  <2>6. CASE pc \in Early
    BY <2>6, <2>4 DEF Loader, HeapOk
  <2>7. CASE pc = "compose"
    BY <2>7, <2>4, <2>5, <2>3 DEF Loader, HeapOk, Early
  <2>8. CASE pc = "done"
    BY <2>8, <2>3, <2>5 DEF Loader, HeapOk, NothingLeaks, Early
  <2> QED
    BY <2>6, <2>7, <2>8 DEF Loader, Typed
<1>5. TypeOK
  BY <1>2, <1>3, <1>4 DEF TypeOK, Loader, HeadersRead, Typed, FileOk, Early
<1> QED
  BY <1>5 DEF LoadInv, Loader, HeapOk, Pictured

------------------------------------------------------------------------------
(* What is put in front of the frames.                                       *)

\* The chunks of the two groups that save_metadata writes.
ColourAt(x) == { n \in 1..Len(x) : x[n].kind = "other" /\ Colour(x[n]) }
PlainAt(x) == { n \in 1..Len(x) : x[n].kind = "other" /\ NotColour(x[n]) }

\* SavedFilesAreValid, with its two groups named.
LEMMA SavedFilesAre ==
  SavedFilesAreValid <=>
    ((RecordsPreserved /\ at = "saved" /\ ok /\ ~lost) =>
       /\ ValidApng(disk)
       /\ Those(disk, ColourAt(disk)) = Ancillary(Those(Records, Where(Records, Colour)))
       /\ Those(disk, PlainAt(disk)) = Ancillary(Those(Records, Where(Records, NotColour))))
BY DEF SavedFilesAreValid, ColourAt, PlainAt, Where

\* The whole records of an animation are a sequence, and each may become a chunk.
LEMMA RecordsAre ==
  ASSUME anim \in Animations
  PROVE  /\ IsSequence(Records) /\ Len(Records) \in Nat
         /\ \A n \in 1..Len(Records) : RecordOk(Records[n]) /\ NumbersOk(Records[n].chunk)
<1>1. PICK S : anim.metadata \in Seq(S)
  BY SaveAssumption
<1> DEFINE I == { n \in 1..Len(anim.metadata) : anim.metadata[n] = CutOff }
           cut == IF I # {} THEN Min(I) ELSE 0
<1>2. Records = IF cut = 0 THEN anim.metadata ELSE SubSeq(anim.metadata, 1, cut - 1)
  BY DEF Records, SelectInSeq
<1>3. /\ cut \in 0..Len(anim.metadata)
      /\ \A n \in 1..Len(anim.metadata) : (cut = 0 \/ n < cut) => anim.metadata[n] # CutOff
  <2>1. CASE I # {}
    <3>1. I \in SUBSET Nat /\ I \subseteq 1..Len(anim.metadata) /\ Len(anim.metadata) \in Nat
      BY <1>1
    <3> HIDE DEF I
    <3>2. PICK m \in I : \A x \in I : m <= x
      BY <2>1, <3>1, LeastOf
    <3>3. Min(I) \in I /\ \A x \in I : Min(I) <= x
      BY <3>2 DEF Min
    <3>4. cut = Min(I)
      BY <2>1 DEF I
    <3>5. Min(I) \in 1..Len(anim.metadata)
      BY <3>1, <3>3
    <3>7. \A n \in 1..Len(anim.metadata) : n < Min(I) => n \notin I
      BY <3>1, <3>2, <3>3, <3>5
    <3>8. \A n \in 1..Len(anim.metadata) : n \notin I => anim.metadata[n] # CutOff
      BY DEF I
    <3> HIDE DEF cut
    <3>6. cut \in 1..Len(anim.metadata)
      BY <3>4, <3>5
    <3> QED
      BY <3>1, <3>4, <3>6, <3>7, <3>8
  <2>2. CASE I = {}
    BY <1>1, <2>2
  <2> HIDE DEF I, cut
  <2> QED
    BY <2>1, <2>2
<1> HIDE DEF cut
<1>4. cut = 0 => Records \in Seq(S)
  BY <1>1, <1>2
<1>5. cut # 0 => Records \in Seq(S)
  BY <1>1, <1>2, <1>3, SubSeqProperties
<1>6. Records \in Seq(S)
  BY <1>4, <1>5
<1>7. ASSUME NEW n \in 1..Len(Records)
      PROVE  n \in 1..Len(anim.metadata) /\ Records[n] = anim.metadata[n] /\ (cut = 0 \/ n < cut)
  <2>1. CASE cut = 0
    BY <1>2, <2>1
  <2>2. CASE cut # 0
    <3>1. cut - 1 \in 0..Len(anim.metadata) /\ cut \in Nat
      BY <1>1, <1>3, <2>2
    <3>2. Records = SubSeq(anim.metadata, 1, cut - 1)
      BY <1>2, <2>2
    <3>3. Len(Records) = cut - 1 /\ Records[n] = anim.metadata[n]
      BY <1>1, <3>1, <3>2, SubSeqProperties
    <3> QED
      BY <3>1, <3>3
  <2> QED
    BY <2>1, <2>2
<1>8. ASSUME NEW n \in 1..Len(anim.metadata)
      PROVE  \/ anim.metadata[n] = CutOff
             \/ RecordOk(anim.metadata[n]) /\ NumbersOk(anim.metadata[n].chunk)
  <2>1. anim.metadata[n] \in Range(anim.metadata)
    BY <1>1 DEF Range
  <2>2. \A r \in Range(anim.metadata) : r = CutOff \/ RecordOk(r)
    BY SaveAssumption
  <2>3. \A r \in Range(anim.metadata) : r = CutOff \/ NumbersOk(r.chunk)
    BY RoundTripAssumption
  <2> QED
    BY <2>1, <2>2, <2>3
<1> QED
  BY <1>3, <1>6, <1>7, <1>8 DEF IsSequence

\* The chunk of a record is an ancillary one, of the record's type.
BecomesOther(r) == r.chunk.kind = "other" /\ r.chunk.type = r.type

\* The types that extraction preserves are none of those with a meaning of their own.
LEMMA RecordsBecome ==
  ASSUME anim \in Animations, RecordsPreserved, NEW n \in 1..Len(Records)
  PROVE  BecomesOther(Records[n])
<1>1. RecordOk(Records[n]) /\ ~IsDroppedType(Records[n].type, TRUE)
  BY RecordsAre DEF RecordsPreserved
<1> QED
  BY <1>1 DEF RecordOk, TypeOfKind, IsDroppedType, Structural, LayoutDependent,
              AnimationControl, BecomesOther

\* One sequence behind another.
IsCat(z, x, y) ==
  /\ IsSequence(z) /\ Len(x) \in Nat /\ Len(y) \in Nat
  /\ Len(z) = Len(x) + Len(y)
  /\ \A n \in 1..Len(x) : z[n] = x[n]
  /\ \A n \in 1..Len(y) : z[Len(x) + n] = y[n]

\* That is what \o makes.
LEMMA CatIs ==
  ASSUME NEW x, IsSequence(x), NEW y, IsSequence(y)
  PROVE  IsCat(x \o y, x, y)
<1>1. PICK S : x \in Seq(S)
  BY DEF IsSequence
<1>2. PICK T : y \in Seq(T)
  BY DEF IsSequence
<1>3. x \in Seq(S \cup T) /\ y \in Seq(S \cup T)
  BY <1>1, <1>2
<1> QED
  BY <1>3, ConcatProperties DEF IsSequence, IsCat

\* A sequence of one chunk.
LEMMA OneIs ==
  ASSUME NEW c
  PROVE  IsSequence(<<c>>) /\ Len(<<c>>) = 1 /\ <<c>>[1] = c
<1>1. <<c>> \in Seq({c})
  OBVIOUS
<1> QED
  BY <1>1 DEF IsSequence


\* The records of one group.
LEMMA GroupsAre ==
  ASSUME anim \in Animations
  PROVE  /\ IsFiniteSet(Where(Records, Colour)) /\ Where(Records, Colour) \in SUBSET Nat
         /\ IsFiniteSet(Where(Records, NotColour)) /\ Where(Records, NotColour) \in SUBSET Nat
         /\ \A n \in 1..Len(Records) : n \in Where(Records, Colour) \/ n \in Where(Records, NotColour)
         /\ \A n \in Where(Records, Colour) : n \in 1..Len(Records) /\ Colour(Records[n])
         /\ \A n \in Where(Records, NotColour) : n \in 1..Len(Records) /\ ~Colour(Records[n])
<1>1. Len(Records) \in Nat
  BY RecordsAre
<1>2. Where(Records, Colour) = { n \in 1..Len(Records) : Colour(Records[n]) }
  BY DEF Where
<1>3. Where(Records, NotColour) = { n \in 1..Len(Records) : ~Colour(Records[n]) }
  BY DEF Where, Colour, NotColour
<1>4. IsFiniteSet(1..Len(Records))
  BY <1>1, FS_Interval
<1> QED
  BY <1>1, <1>2, <1>3, <1>4, FS_Subset

\* As many are picked as there are places to pick from.
LEMMA ThoseAre ==
  ASSUME NEW x, NEW S \in SUBSET Nat, IsFiniteSet(S)
  PROVE  /\ IsSequence(Those(x, S)) /\ Len(Those(x, S)) = Cardinality(S)
         /\ Cardinality(S) \in Nat
         /\ \A n \in 1..Cardinality(S) : \E j \in S : Those(x, S)[n] = x[j]
         /\ \A j \in S : \E n \in 1..Cardinality(S) : Those(x, S)[n] = x[j]
<1> DEFINE f == [n \in 1..Cardinality(S) |-> x[Nth(S, n)]]
<1>1. Cardinality(S) \in Nat
  BY FS_CardinalityType
<1>2. Those(x, S) = [n \in 1..Cardinality(S) |-> f[n]]
  BY DEF Those
<1> HIDE DEF f
<1>3. (\E T : Those(x, S) \in Seq(T)) /\ Len(Those(x, S)) = Cardinality(S)
  <2> DEFINE c == Cardinality(S)
             seq_of == [n \in 1..c |-> f[n]]
  <2>1. c \in Nat
    BY <1>1
  <2> HIDE DEF c
  <2>2. (\E T : seq_of \in Seq(T)) /\ Len(seq_of) = c
    BY <2>1, SeqIs
  <2>3. Those(x, S) = seq_of
    BY <1>2 DEF c
  <2> HIDE DEF seq_of
  <2> QED
    BY <2>2, <2>3 DEF c
<1>4. \A n \in 1..Cardinality(S) : Nth(S, n) \in S
  BY NthWorks
<1>5. \A j \in S : \E n \in 1..Cardinality(S) : j = Nth(S, n)
  BY NthOrders
<1> QED
  BY <1>1, <1>3, <1>4, <1>5 DEF IsSequence, Those

\* Each record becomes a chunk of its group.
LEMMA AncillaryIs ==
  ASSUME NEW x, Len(x) \in Nat
  PROVE  /\ IsSequence(Ancillary(x)) /\ Len(Ancillary(x)) = Len(x)
         /\ \A n \in 1..Len(x) : Ancillary(x)[n] = x[n].chunk
<1> DEFINE f == [n \in 1..Len(x) |-> x[n].chunk]
<1>1. Ancillary(x) = [n \in 1..Len(x) |-> f[n]]
  BY DEF Ancillary
<1> HIDE DEF f
<1>2. (\E T : Ancillary(x) \in Seq(T)) /\ Len(Ancillary(x)) = Len(x)
  BY <1>1, SeqIs
<1> QED
  BY <1>2 DEF IsSequence, Ancillary

\* The chunk of a record is in the group of the record.
LEMMA SameColour ==
  ASSUME NEW r, BecomesOther(r)
  PROVE  Colour(r.chunk) <=> Colour(r)
BY DEF BecomesOther, Colour

\* Picking commutes with that.
LEMMA AncillaryThose ==
  ASSUME NEW x, NEW S \in SUBSET Nat, IsFiniteSet(S), \A n \in S : n \in 1..Len(x)
  PROVE  Those(Ancillary(x), S) = Ancillary(Those(x, S))
<1>1. Len(Those(x, S)) = Cardinality(S)
  BY ThoseAre
<1>2. \A n \in 1..Cardinality(S) : Nth(S, n) \in 1..Len(x)
  BY NthWorks
<1>3. \A n \in 1..Cardinality(S) :
        Ancillary(x)[Nth(S, n)] = x[Nth(S, n)].chunk
  BY <1>2 DEF Ancillary
<1> QED
  BY <1>1, <1>3 DEF Those, Ancillary

\* Picking all picks what there is.
LEMMA AncillaryAll ==
  ASSUME NEW x, Len(x) \in Nat
  PROVE  Those(Ancillary(x), 1..Len(x)) = Ancillary(x)
<1>1. Those(Ancillary(x), 1..Len(x)) = [n \in 1..Len(x) |-> Ancillary(x)[n]]
  BY ThoseAll
<1> QED
  BY <1>1 DEF Ancillary

\* The records that have to precede PLTE, and those that do not.
ColourGroup == Those(Records, Where(Records, Colour))
PlainGroup == Those(Records, Where(Records, NotColour))
Alpha == IF anim.alpha THEN <<[kind |-> "tRNS"]>> ELSE <<>>

\* The chunks between the header and acTL.
Middle ==
  IF Indexed THEN Ancillary(ColourGroup) \o <<[kind |-> "PLTE"]>> \o Alpha
                    \o Ancillary(PlainGroup)
             ELSE Ancillary(Records)

\* What makes these chunks valid: PLTE once if needed, tRNS behind it, colour space
\* before it, each record once and in its order, and some that apng_load takes, if
\* there are such records.
ComesBack(x) ==
  \E n \in 1..Len(x) : x[n].kind = "other" /\ ~IsDroppedType(x[n].type, FALSE)

MiddleOk(x) ==
  /\ IsSequence(x) /\ Len(x) \in Nat
  /\ \A n \in 1..Len(x) : x[n].kind \in {"other", "PLTE", "tRNS"}
  /\ Indexed <=> \E n \in 1..Len(x) : x[n].kind = "PLTE"
  /\ \A p, n \in 1..Len(x) :
       x[p].kind = "PLTE" => /\ x[n].kind = "tRNS" => p < n
                             /\ (x[n].kind = "other" /\ Colour(x[n])) => n < p
  /\ Those(x, ColourAt(x)) = Ancillary(ColourGroup)
  /\ Those(x, PlainAt(x)) = Ancillary(PlainGroup)
  /\ (\E n \in 1..Len(x) : x[n].kind = "tRNS") <=> Indexed /\ anim.alpha
  /\ ComesBack(x) <=> \E n \in 1..Len(Records) : ~IsDroppedType(Records[n].type, FALSE)

\* The empty sequence is the one of length 0.
LEMMA NoneIsEmpty ==
  ASSUME NEW x, IsSequence(x)
  PROVE  Len(x) \in Nat /\ (x = <<>> <=> Len(x) = 0)
<1>1. PICK S : x \in Seq(S)
  BY DEF IsSequence
<1> QED
  BY <1>1, EmptySeq

\* Without a palette all the records lie there as they are.
LEMMA MiddlePlain ==
  ASSUME anim \in Animations, RecordsPreserved, ~Indexed
  PROVE  MiddleOk(Middle)
<1>1. IsSequence(Records) /\ Len(Records) \in Nat
  BY RecordsAre
<1>2. Middle = Ancillary(Records)
  BY DEF Middle
<1>3. /\ IsSequence(Middle) /\ Len(Middle) = Len(Records)
      /\ \A n \in 1..Len(Records) :
           /\ Middle[n].kind = "other" /\ Middle[n].type = Records[n].type
           /\ Colour(Middle[n]) <=> Colour(Records[n])
  BY <1>1, <1>2, AncillaryIs, RecordsBecome, SameColour DEF BecomesOther
<1>4. ColourAt(Middle) = Where(Records, Colour) /\ PlainAt(Middle) = Where(Records, NotColour)
  BY <1>3 DEF ColourAt, PlainAt, Where, Colour, NotColour
<1>5. /\ Those(Middle, ColourAt(Middle)) = Ancillary(ColourGroup)
      /\ Those(Middle, PlainAt(Middle)) = Ancillary(PlainGroup)
  BY <1>2, <1>4, GroupsAre, AncillaryThose DEF ColourGroup, PlainGroup
<1>6. ComesBack(Middle) <=> \E n \in 1..Len(Records) : ~IsDroppedType(Records[n].type, FALSE)
  BY <1>3 DEF ComesBack
<1> QED
  BY <1>1, <1>3, <1>5, <1>6 DEF MiddleOk

\* There is a tRNS or there is none.
LEMMA AlphaIs ==
  /\ IsSequence(Alpha) /\ Len(Alpha) \in 0..1
  /\ \A n \in 1..Len(Alpha) : Alpha[n].kind = "tRNS"
<1>1. CASE anim.alpha
  <2>1. Alpha = <<[kind |-> "tRNS"]>>
    BY <1>1 DEF Alpha
  <2> QED
    BY <2>1, OneIs
<1>2. CASE ~anim.alpha
  <2>1. Alpha = <<>> /\ <<>> \in Seq({})
    BY <1>2 DEF Alpha
  <2> QED
    BY <2>1 DEF IsSequence
<1> QED
  BY <1>1, <1>2

\* What lies where in the middle of an indexed file.
MiddleIs(lc, ln, e) ==
  /\ lc \in Nat /\ ln \in Nat /\ Len(Alpha) \in 0..1
  /\ IsSequence(Middle) /\ Len(Middle) = e + ln
  /\ \A n \in 1..lc : Middle[n] = Ancillary(ColourGroup)[n]
  /\ Middle[lc + 1].kind = "PLTE"
  /\ Len(Alpha) = 1 => Middle[lc + 2].kind = "tRNS"
  /\ \A n \in 1..ln : Middle[n + e] = Ancillary(PlainGroup)[n]

\* The parts lie there one behind the other.
LEMMA MiddleLies ==
  ASSUME anim \in Animations, Indexed, NEW lc, lc = Len(ColourGroup), NEW ln, ln = Len(PlainGroup),
         NEW e, e = lc + 1 + Len(Alpha)
  PROVE  MiddleIs(lc, ln, e)
<1> DEFINE A == Ancillary(ColourGroup)
           P == <<[kind |-> "PLTE"]>>
           N == Ancillary(PlainGroup)
<1>1. Middle = ((A \o P) \o Alpha) \o N
  BY DEF Middle
<1>2. lc \in Nat /\ ln \in Nat
  BY GroupsAre, ThoseAre DEF ColourGroup, PlainGroup
<1>3. IsSequence(A) /\ Len(A) = lc /\ IsSequence(N) /\ Len(N) = ln
  BY <1>2, AncillaryIs
<1>4. IsSequence(P) /\ Len(P) = 1 /\ P[1].kind = "PLTE"
  BY OneIs
<1> HIDE DEF A, P, N
<1> DEFINE D == A \o P
           B == D \o Alpha
<1>5. IsCat(D, A, P)
  BY <1>3, <1>4, CatIs
<1>6. /\ IsSequence(Alpha) /\ Len(Alpha) \in 0..1
      /\ \A n \in 1..Len(Alpha) : Alpha[n].kind = "tRNS"
  BY AlphaIs
<1>7. IsCat(B, D, Alpha)
  <2>1. IsSequence(D)
    BY <1>5 DEF IsCat
  <2> HIDE DEF D
  <2> QED
    BY <1>6, <2>1, CatIs
<1>8. IsCat(Middle, B, N)
  <2>1. IsSequence(B)
    BY <1>7 DEF IsCat
  <2>2. Middle = B \o N
    BY <1>1
  <2> HIDE DEF B
  <2> QED
    BY <1>3, <2>1, <2>2, CatIs
<1> HIDE DEF D, B
<1>14. Len(D) = lc + 1 /\ D[lc + 1] = P[1] /\ \A n \in 1..lc : D[n] = A[n]
  <2>1. 1 \in 1..Len(P)
    BY <1>4
  <2> QED
    BY <1>3, <1>4, <1>5, <2>1 DEF IsCat
<1>15. Len(B) = e
  BY <1>7, <1>14 DEF IsCat
<1>9. e \in Nat /\ 1..lc \subseteq 1..(lc + 1) /\ 1..(lc + 1) \subseteq 1..e /\ lc + 1 \in 1..e
      /\ lc + 1 \in 1..(lc + 1)
  BY <1>2, <1>6
<1>10. \A n \in 1..lc : Middle[n] = A[n]
  BY <1>7, <1>8, <1>9, <1>14, <1>15 DEF IsCat
<1>11. Middle[lc + 1].kind = "PLTE"
  BY <1>4, <1>7, <1>8, <1>9, <1>14, <1>15 DEF IsCat
<1>12. Len(Alpha) = 1 => Middle[lc + 2].kind = "tRNS"
  <2> SUFFICES ASSUME Len(Alpha) = 1 PROVE Middle[lc + 2].kind = "tRNS"
    OBVIOUS
  <2>1. 1 \in 1..Len(Alpha) /\ (lc + 1) + 1 = lc + 2 /\ lc + 2 \in 1..e
    BY <1>2
  <2> QED
    BY <1>6, <1>7, <1>8, <1>14, <1>15, <2>1 DEF IsCat
<1>13. \A n \in 1..ln : Middle[n + e] = N[n]
  <2>1. \A n \in 1..ln : n + e = e + n
    BY <1>2, <1>9
  <2> QED
    BY <1>3, <1>8, <1>15, <2>1 DEF IsCat
<1>16. IsSequence(Middle) /\ Len(Middle) = e + ln
  BY <1>3, <1>8, <1>15 DEF IsCat
<1> QED
  BY <1>2, <1>6, <1>16, <1>10, <1>11, <1>12, <1>13 DEF A, N, MiddleIs

\* With a palette the colour space records come before it and the others behind.
LEMMA MiddleIndexed ==
  ASSUME anim \in Animations, RecordsPreserved, Indexed
  PROVE  MiddleOk(Middle)
<1> DEFINE lc == Len(ColourGroup)
           ln == Len(PlainGroup)
           e == lc + 1 + Len(Alpha)
<1>0. MiddleIs(lc, ln, e)
  BY MiddleLies
<1>1. /\ lc \in Nat /\ ln \in Nat /\ Len(Alpha) \in 0..1
      /\ IsSequence(Middle) /\ Len(Middle) = e + ln
      /\ \A n \in 1..lc : Middle[n] = Ancillary(ColourGroup)[n]
      /\ Middle[lc + 1].kind = "PLTE"
      /\ Len(Alpha) = 1 => Middle[lc + 2].kind = "tRNS"
      /\ \A n \in 1..ln : Middle[n + e] = Ancillary(PlainGroup)[n]
  <2> HIDE DEF lc, ln, e
  <2> QED
    BY <1>0 DEF MiddleIs
<1>2. \A n \in 1..lc : Colour(ColourGroup[n]) /\ BecomesOther(ColourGroup[n])
  <2>1. lc = Cardinality(Where(Records, Colour))
    BY GroupsAre, ThoseAre DEF ColourGroup
  <2>2. \A n \in 1..Cardinality(Where(Records, Colour)) :
          \E j \in Where(Records, Colour) : ColourGroup[n] = Records[j]
    BY GroupsAre, ThoseAre DEF ColourGroup
  <2> HIDE DEF lc
  <2> QED
    BY <2>1, <2>2, GroupsAre, RecordsBecome
<1>3. \A n \in 1..ln : ~Colour(PlainGroup[n]) /\ BecomesOther(PlainGroup[n])
  <2>1. ln = Cardinality(Where(Records, NotColour))
    BY GroupsAre, ThoseAre DEF PlainGroup
  <2>2. \A n \in 1..Cardinality(Where(Records, NotColour)) :
          \E j \in Where(Records, NotColour) : PlainGroup[n] = Records[j]
    BY GroupsAre, ThoseAre DEF PlainGroup
  <2> HIDE DEF ln
  <2> QED
    BY <2>1, <2>2, GroupsAre, RecordsBecome
<1>4. \A n \in 1..lc : Middle[n].kind = "other" /\ Colour(Middle[n])
  BY <1>1, <1>2, AncillaryIs, SameColour DEF BecomesOther
<1>5. \A n \in 1..ln : Middle[n + e].kind = "other" /\ ~Colour(Middle[n + e])
  BY <1>1, <1>3, AncillaryIs, SameColour DEF BecomesOther
<1>18. /\ \A n \in 1..lc : Middle[n].type = ColourGroup[n].type
       /\ \A n \in 1..ln : Middle[n + e].type = PlainGroup[n].type
  <2>1. /\ \A n \in 1..lc : Ancillary(ColourGroup)[n] = ColourGroup[n].chunk
        /\ \A n \in 1..ln : Ancillary(PlainGroup)[n] = PlainGroup[n].chunk
    BY <1>1, AncillaryIs
  <2> HIDE DEF lc, ln, e
  <2> QED
    BY <1>1, <1>2, <1>3, <2>1 DEF BecomesOther
<1>6. /\ \A n \in 1..lc : \E j \in 1..Len(Records) : ColourGroup[n] = Records[j]
      /\ \A n \in 1..ln : \E j \in 1..Len(Records) : PlainGroup[n] = Records[j]
      /\ \A j \in 1..Len(Records) : \/ \E n \in 1..lc : ColourGroup[n] = Records[j]
                                   \/ \E n \in 1..ln : PlainGroup[n] = Records[j]
  <2>1. lc = Cardinality(Where(Records, Colour)) /\ ln = Cardinality(Where(Records, NotColour))
    BY GroupsAre, ThoseAre DEF ColourGroup, PlainGroup
  <2>2. /\ \A n \in 1..lc : \E j \in Where(Records, Colour) : ColourGroup[n] = Records[j]
        /\ \A j \in Where(Records, Colour) : \E n \in 1..lc : ColourGroup[n] = Records[j]
    <3> DEFINE S == Where(Records, Colour)
    <3>1. S \in SUBSET Nat /\ IsFiniteSet(S) /\ ColourGroup = Those(Records, S)
      BY GroupsAre DEF ColourGroup
    <3> HIDE DEF S, lc
    <3> QED
      BY <2>1, <3>1, ThoseAre DEF S
  <2>3. /\ \A n \in 1..ln : \E j \in Where(Records, NotColour) : PlainGroup[n] = Records[j]
        /\ \A j \in Where(Records, NotColour) : \E n \in 1..ln : PlainGroup[n] = Records[j]
    <3> DEFINE S == Where(Records, NotColour)
    <3>1. S \in SUBSET Nat /\ IsFiniteSet(S) /\ PlainGroup = Those(Records, S)
      BY GroupsAre DEF PlainGroup
    <3> HIDE DEF S, ln
    <3> QED
      BY <2>1, <3>1, ThoseAre DEF S
  <2> HIDE DEF lc, ln
  <2> QED
    BY <2>2, <2>3, GroupsAre
<1> HIDE DEF lc, ln
<1>7. /\ e \in Nat /\ e > lc /\ Len(Middle) \in Nat
      /\ \A n \in 1..Len(Middle) : \/ n \in 1..lc
                                   \/ n = lc + 1
                                   \/ n = lc + 2 /\ Len(Alpha) = 1
                                   \/ n - e \in 1..ln /\ n = (n - e) + e
      /\ \A n \in 1..lc : n \in 1..Len(Middle)
      /\ lc + 1 \in 1..Len(Middle)
      /\ \A n \in 1..ln : n + e \in 1..Len(Middle)
  <2>1. e \in Nat /\ e = lc + 1 + Len(Alpha)
    BY <1>1
  <2> HIDE DEF e
  <2>2. Len(Alpha) = 0 \/ Len(Alpha) = 1
    BY <1>1
  <2>9. lc \in Nat
    BY <1>1
  <2>3. e = lc + 1 \/ (e = lc + 2 /\ Len(Alpha) = 1)
    <3>1. CASE Len(Alpha) = 0
      BY <2>1, <2>9, <3>1
    <3>2. CASE Len(Alpha) = 1
      BY <2>1, <2>9, <3>2
    <3> QED
      BY <2>2, <3>1, <3>2
  <2>4. Len(Middle) = e + ln
    BY <1>1
  <2>5. ASSUME NEW n \in 1..Len(Middle)
        PROVE  \/ n \in 1..lc
               \/ n = lc + 1
               \/ n = lc + 2 /\ Len(Alpha) = 1
               \/ n - e \in 1..ln /\ n = (n - e) + e
    BY <1>1, <2>1, <2>3, <2>4
  <2>6. e > lc /\ lc + 1 <= Len(Middle) /\ Len(Middle) \in Nat
    BY <1>1, <2>1, <2>3, <2>4
  <2>7. \A n \in 1..ln : n + e \in 1..Len(Middle)
    BY <1>1, <2>1, <2>4
  <2>8. (\A n \in 1..lc : n \in 1..Len(Middle)) /\ lc + 1 \in 1..Len(Middle)
    BY <1>1, <2>6
  <2> QED
    BY <2>1, <2>5, <2>6, <2>7, <2>8
<1> HIDE DEF e
<1>8. \A n \in 1..Len(Middle) :
        \/ n \in 1..lc /\ Middle[n].kind = "other" /\ Colour(Middle[n])
        \/ n = lc + 1 /\ Middle[n].kind = "PLTE"
        \/ n = lc + 2 /\ Middle[n].kind = "tRNS"
        \/ /\ n - e \in 1..ln /\ n = (n - e) + e
           /\ Middle[n].kind = "other" /\ ~Colour(Middle[n])
  <2> SUFFICES ASSUME NEW n \in 1..Len(Middle)
               PROVE  \/ n \in 1..lc /\ Middle[n].kind = "other" /\ Colour(Middle[n])
                      \/ n = lc + 1 /\ Middle[n].kind = "PLTE"
                      \/ n = lc + 2 /\ Middle[n].kind = "tRNS"
                      \/ /\ n - e \in 1..ln /\ n = (n - e) + e
                         /\ Middle[n].kind = "other" /\ ~Colour(Middle[n])
    OBVIOUS
  <2>1. CASE n \in 1..lc
    BY <1>4, <2>1
  <2>2. CASE n = lc + 1
    BY <1>1, <2>2
  <2>3. CASE n = lc + 2 /\ Len(Alpha) = 1
    BY <1>1, <2>3
  <2>4. CASE n - e \in 1..ln /\ n = (n - e) + e
    <3> DEFINE j == n - e
    <3>1. j \in 1..ln /\ n = j + e
      BY <2>4
    <3> HIDE DEF j
    <3>2. Middle[n].kind = "other" /\ ~Colour(Middle[n])
      BY <1>5, <3>1
    <3> QED
      BY <2>4, <3>2
  <2> QED
    BY <1>7, <2>1, <2>2, <2>3, <2>4
<1>9. ColourAt(Middle) = 1..lc
  BY <1>4, <1>7, <1>8 DEF ColourAt
<1>10. PlainAt(Middle) = { n + e : n \in 1..ln }
  BY <1>5, <1>7, <1>8 DEF PlainAt, Colour, NotColour
<1>11. Those(Middle, ColourAt(Middle)) = Ancillary(ColourGroup)
  <2>1. Those(Middle, 1..lc) = [n \in 1..lc |-> Middle[n]]
    BY <1>1, ThoseAll
  <2>2. Ancillary(ColourGroup) = [n \in 1..lc |-> Ancillary(ColourGroup)[n]]
    BY DEF Ancillary, lc
  <2> QED
    BY <1>1, <1>9, <2>1, <2>2
<1>12. Those(Middle, PlainAt(Middle)) = Ancillary(PlainGroup)
  <2>1. 1..ln \in SUBSET Nat /\ IsFiniteSet(1..ln)
    BY <1>1, FS_Interval
  <2>2. Those(Middle, PlainAt(Middle)) = Those(Ancillary(PlainGroup), 1..ln)
    <3>1. Moved(Middle, PlainAt(Middle), Ancillary(PlainGroup), 1..ln, e)
      BY <1>1, <1>10 DEF Moved
    <3>2. e \in Nat
      BY <1>7
    <3>3. \A S \in SUBSET Nat : IsFiniteSet(S) /\ Moved(Middle, PlainAt(Middle), Ancillary(PlainGroup), S, e)
            => Those(Middle, PlainAt(Middle)) = Those(Ancillary(PlainGroup), S)
      BY <3>2, ThoseMoved
    <3> QED
      BY <2>1, <3>1, <3>3
  <2> QED
    BY <1>1, <2>2, AncillaryAll DEF ln
<1>13. ComesBack(Middle) <=> \E n \in 1..Len(Records) : ~IsDroppedType(Records[n].type, FALSE)
  <2>1. ASSUME ComesBack(Middle)
        PROVE  \E n \in 1..Len(Records) : ~IsDroppedType(Records[n].type, FALSE)
    <3>1. PICK n \in 1..Len(Middle) : /\ Middle[n].kind = "other"
                                      /\ ~IsDroppedType(Middle[n].type, FALSE)
      BY <2>1 DEF ComesBack
    <3>2. n \in 1..lc \/ (n - e \in 1..ln /\ n = (n - e) + e)
      BY <1>8, <3>1
    <3>3. CASE n \in 1..lc
      <4>1. PICK j \in 1..Len(Records) : ColourGroup[n] = Records[j]
        BY <1>6, <3>3
      <4>2. Middle[n].type = Records[j].type
        BY <1>18, <3>3, <4>1
      <4> QED
        BY <3>1, <4>2
    <3>4. CASE n - e \in 1..ln /\ n = (n - e) + e
      <4> DEFINE m == n - e
      <4>1. m \in 1..ln /\ Middle[n].type = PlainGroup[m].type
        BY <1>18, <3>4
      <4> HIDE DEF m
      <4> QED
        <5>1. PICK j \in 1..Len(Records) : PlainGroup[m] = Records[j]
          BY <1>6, <4>1
        <5> QED
          BY <3>1, <4>1, <5>1
    <3> QED
      BY <3>2, <3>3, <3>4
  <2>2. ASSUME NEW j \in 1..Len(Records), ~IsDroppedType(Records[j].type, FALSE)
        PROVE  ComesBack(Middle)
    <3>1. CASE \E n \in 1..lc : ColourGroup[n] = Records[j]
      <4>1. PICK n \in 1..lc : ColourGroup[n] = Records[j]
        BY <3>1
      <4>2. /\ n \in 1..Len(Middle) /\ Middle[n].kind = "other"
            /\ Middle[n].type = Records[j].type
        BY <1>4, <1>7, <1>18, <4>1
      <4> QED
        BY <2>2, <4>2 DEF ComesBack
    <3>2. CASE \E n \in 1..ln : PlainGroup[n] = Records[j]
      <4>1. PICK n \in 1..ln : PlainGroup[n] = Records[j]
        BY <3>2
      <4>2. /\ n + e \in 1..Len(Middle) /\ Middle[n + e].kind = "other"
            /\ Middle[n + e].type = Records[j].type
        BY <1>5, <1>7, <1>18, <4>1
      <4> QED
        BY <2>2, <4>2 DEF ComesBack
    <3> QED
      BY <1>6, <3>1, <3>2
  <2> QED
    BY <2>1, <2>2
<1>17. (\E n \in 1..Len(Middle) : Middle[n].kind = "tRNS") <=> anim.alpha
  <2>1. Len(Alpha) = 1 <=> anim.alpha
    BY AlphaIs, OneIs DEF Alpha
  <2>2. Len(Alpha) = 1 => lc + 2 \in 1..Len(Middle)
    BY <1>1, <1>7 DEF e
  <2>3. ASSUME NEW n \in 1..Len(Middle), Middle[n].kind = "tRNS" PROVE Len(Alpha) = 1
    BY <1>1, <1>4, <1>5, <1>7, <2>3
  <2> QED
    BY <1>1, <2>1, <2>2, <2>3
<1>14. \A n \in 1..Len(Middle) : Middle[n].kind \in {"other", "PLTE", "tRNS"}
  BY <1>8
<1>15. \E n \in 1..Len(Middle) : Middle[n].kind = "PLTE"
  BY <1>1, <1>7
<1>16. \A p, n \in 1..Len(Middle) :
         Middle[p].kind = "PLTE" =>
           /\ Middle[n].kind = "tRNS" => p < n
           /\ (Middle[n].kind = "other" /\ Colour(Middle[n])) => n < p
  <2>1. \A p \in 1..Len(Middle) : Middle[p].kind = "PLTE" => p = lc + 1
    BY <1>8
  <2>2. \A n \in 1..Len(Middle) : Middle[n].kind = "tRNS" => n = lc + 2
    BY <1>8
  <2>3. \A n \in 1..Len(Middle) : (Middle[n].kind = "other" /\ Colour(Middle[n])) => n \in 1..lc
    BY <1>8
  <2> QED
    BY <1>1, <2>1, <2>2, <2>3
<1> QED
  BY <1>1, <1>7, <1>11, <1>12, <1>13, <1>14, <1>15, <1>16, <1>17 DEF MiddleOk

------------------------------------------------------------------------------
(* What apng_save has written.                                               *)

\* How many chunks lie before the first control.
Ahead == Len(Middle) + 2
Frames == Len(anim.frames)

\* The head is IHDR, the chunks of the middle and acTL.
HeadIs(x) ==
  /\ IsSequence(x) /\ Len(x) = Ahead
  /\ x[1] = [kind |-> "IHDR", size |-> anim.size, color |-> SavedColor]
  /\ \A n \in 1..Len(Middle) : x[n + 1] = Middle[n]
  /\ x[Ahead] = [kind |-> "acTL", plays |-> anim.plays, frames |-> Frames]

LEMMA MiddleGood ==
  ASSUME anim \in Animations
  PROVE  /\ IsSequence(Middle) /\ Len(Middle) \in Nat
         /\ RecordsPreserved => MiddleOk(Middle)
<1>1. CASE Indexed
  <2> DEFINE lc == Len(ColourGroup)
             ln == Len(PlainGroup)
             e == lc + 1 + Len(Alpha)
  <2>1. MiddleIs(lc, ln, e)
    BY <1>1, MiddleLies
  <2> QED
    BY <1>1, <2>1, MiddleIndexed DEF MiddleIs
<1>2. CASE ~Indexed
  <2>1. Len(Records) \in Nat /\ Middle = Ancillary(Records)
    BY <1>2, RecordsAre DEF Middle
  <2> QED
    BY <1>2, <2>1, AncillaryIs, MiddlePlain
<1> QED
  BY <1>1, <1>2

LEMMA HeadGood ==
  ASSUME anim \in Animations
  PROVE  HeadIs(HeadChunks)
<1> DEFINE H == <<[kind |-> "IHDR", size |-> anim.size, color |-> SavedColor]>>
           C == <<[kind |-> "acTL", plays |-> anim.plays, frames |-> Len(anim.frames)]>>
           D == H \o Middle
<1>1. HeadChunks = D \o C
  BY DEF HeadChunks, Middle, ColourGroup, PlainGroup, Alpha
<1>2. /\ IsSequence(H) /\ Len(H) = 1
      /\ H[1] = [kind |-> "IHDR", size |-> anim.size, color |-> SavedColor]
  BY OneIs
<1>3. /\ IsSequence(C) /\ Len(C) = 1
      /\ C[1] = [kind |-> "acTL", plays |-> anim.plays, frames |-> Frames]
  BY OneIs DEF Frames
<1>4. IsSequence(Middle) /\ Len(Middle) \in Nat
  BY MiddleGood
<1> HIDE DEF H, C
<1>5. IsCat(D, H, Middle)
  BY <1>2, <1>4, CatIs
<1>6. IsSequence(D)
  BY <1>5 DEF IsCat
<1> HIDE DEF D
<1>7. IsCat(HeadChunks, D, C)
  BY <1>1, <1>3, <1>6, CatIs
<1>8. Len(D) = Len(Middle) + 1 /\ D[1] = H[1] /\ \A n \in 1..Len(Middle) : D[n + 1] = Middle[n]
  <2>1. 1 \in 1..Len(H) /\ \A n \in 1..Len(Middle) : Len(H) + n = n + 1
    BY <1>2, <1>4
  <2>2. Len(H) + Len(Middle) = Len(Middle) + 1
    BY <1>2, <1>4
  <2> QED
    BY <1>5, <2>1, <2>2 DEF IsCat
<1>9. /\ Len(HeadChunks) = Ahead /\ IsSequence(HeadChunks)
      /\ \A n \in 1..(Len(Middle) + 1) : HeadChunks[n] = D[n]
      /\ HeadChunks[Ahead] = C[1]
  <2>1. 1 \in 1..Len(C) /\ Len(D) + 1 = Ahead /\ Len(D) + Len(C) = Ahead
    BY <1>3, <1>4, <1>8 DEF Ahead
  <2> QED
    BY <1>7, <1>8, <2>1 DEF IsCat
<1>10. 1 \in 1..(Len(Middle) + 1) /\ \A n \in 1..Len(Middle) : n + 1 \in 1..(Len(Middle) + 1)
  BY <1>4
<1> QED
  BY <1>2, <1>3, <1>8, <1>9, <1>10 DEF HeadIs

\* The data, the control and the data chunk of frame k.
Piece(k) == [pic |-> anim.frames[k].picture, part |-> 1]

Control(k) ==
  [ kind |-> "fcTL", seq |-> IF k = 1 THEN 0 ELSE 2 * k - 3, x |-> 0, y |-> 0,
    w |-> anim.w, h |-> anim.h, delay |-> anim.frames[k].delay,
    dispose |-> "none", blend |-> "source" ]

Datum(k) ==
  IF k = 1 THEN [kind |-> "IDAT", piece |-> Piece(k)]
           ELSE [kind |-> "fdAT", piece |-> Piece(k), seq |-> 2 * k - 2]

\* The chunks behind the head.
Body(m) ==
  IF m > 2 * Frames THEN [kind |-> "end"]
  ELSE IF m % 2 = 1 THEN Control((m + 1) \div 2)
  ELSE Datum(m \div 2)

\* A control and its data in turn, and the end.
LEMMA BodyIs ==
  ASSUME Frames \in Nat
  PROVE  /\ \A k \in 1..Frames : Body(2 * k - 1) = Control(k) /\ Body(2 * k) = Datum(k)
         /\ Body(2 * Frames + 1) = [kind |-> "end"]
         /\ \A m \in 1..(2 * Frames) : \E k \in 1..Frames : m = 2 * k - 1 \/ m = 2 * k
<1>1. ASSUME NEW k \in 1..Frames
      PROVE  Body(2 * k - 1) = Control(k) /\ Body(2 * k) = Datum(k)
  <2>1. /\ ~(2 * k - 1 > 2 * Frames) /\ (2 * k - 1) % 2 = 1 /\ ((2 * k - 1) + 1) \div 2 = k
        /\ ~(2 * k > 2 * Frames) /\ (2 * k) % 2 # 1 /\ (2 * k) \div 2 = k
    OBVIOUS
  <2> QED
    BY <2>1 DEF Body
<1>2. Body(2 * Frames + 1) = [kind |-> "end"]
  BY DEF Body
<1>3. ASSUME NEW m \in 1..(2 * Frames)
      PROVE  \E k \in 1..Frames : m = 2 * k - 1 \/ m = 2 * k
  <2>1. CASE m % 2 = 1
    <3>1. (m + 1) \div 2 \in 1..Frames /\ m = 2 * ((m + 1) \div 2) - 1
      BY <2>1
    <3> QED
      BY <3>1
  <2>2. CASE m % 2 # 1
    <3>1. m \div 2 \in 1..Frames /\ m = 2 * (m \div 2)
      BY <2>2
    <3> QED
      BY <3>1
  <2> QED
    BY <2>1, <2>2
<1> QED
  BY <1>1, <1>2, <1>3

\* The head, and n chunks behind it.
Written(x, n) ==
  /\ IsSequence(x) /\ Len(x) = Ahead + n
  /\ \A j \in 1..Ahead : x[j] = HeadChunks[j]
  /\ \A m \in 1..n : x[Ahead + m] = Body(m)

\* write_head has written the head and nothing behind it.
LEMMA WrittenNothing ==
  ASSUME anim \in Animations
  PROVE  Written(HeadChunks, 0) /\ Ahead \in Nat
<1>1. Ahead \in Nat
  BY MiddleGood DEF Ahead
<1> QED
  BY <1>1, HeadGood DEF Written, HeadIs

\* The next chunk of the body is written behind those before it.
LEMMA WrittenMore ==
  ASSUME anim \in Animations, NEW x, NEW n \in Nat, Written(x, n),
         NEW c, c = Body(n + 1)
  PROVE  Written(x \o <<c>>, n + 1)
<1> DEFINE z == x \o <<c>>
<1>1. Ahead \in Nat /\ IsSequence(x) /\ Len(x) = Ahead + n
  BY WrittenNothing DEF Written
<1>2. IsSequence(<<c>>) /\ Len(<<c>>) = 1 /\ <<c>>[1] = c
  BY OneIs
<1>3. IsCat(z, x, <<c>>)
  BY <1>1, <1>2, CatIs
<1> HIDE DEF z
<1>4. /\ IsSequence(z) /\ Len(z) = Ahead + (n + 1)
      /\ \A m \in 1..(Ahead + n) : z[m] = x[m]
      /\ z[Ahead + (n + 1)] = c
  <2>1. 1 \in 1..Len(<<c>>) /\ Len(x) + 1 = Ahead + (n + 1)
    BY <1>1, <1>2
  <2> HIDE DEF z
  <2> QED
    BY <1>1, <1>2, <1>3, <2>1 DEF IsCat
<1>5. ASSUME NEW m \in 1..(n + 1) PROVE z[Ahead + m] = Body(m)
  <2>1. m \in 1..n \/ m = n + 1
    OBVIOUS
  <2>2. m \in 1..n => Ahead + m \in 1..(Ahead + n)
    BY <1>1
  <2> QED
    BY <1>4, <2>1, <2>2 DEF Written
<1>6. \A j \in 1..Ahead : j \in 1..(Ahead + n)
  BY <1>1
<1>7. Written(z, n + 1)
  BY <1>4, <1>5, <1>6 DEF Written
<1> QED
  BY <1>7 DEF z

\* Where the chunks of a whole file are.
WholeFile(f) ==
  /\ Frames \in Nat \ {0} /\ Len(Middle) \in Nat
  /\ Ahead \in Nat /\ Ahead = Len(Middle) + 2 /\ Len(f) = Ahead + 2 * Frames + 1
  /\ f[1] = [kind |-> "IHDR", size |-> anim.size, color |-> SavedColor]
  /\ \A n \in 1..Len(Middle) : f[n + 1] = Middle[n]
  /\ f[Ahead] = [kind |-> "acTL", plays |-> anim.plays, frames |-> Frames]
  /\ \A k \in 1..Frames : f[Ahead + 2 * k - 1] = Control(k) /\ f[Ahead + 2 * k] = Datum(k)
  /\ f[Len(f)] = [kind |-> "end"]

\* That is what the head and its body are.
LEMMA WholeIs ==
  ASSUME anim \in Animations, Frames \in Nat \ {0}, NEW f, Written(f, 2 * Frames + 1)
  PROVE  WholeFile(f)
<1>1. /\ Len(Middle) \in Nat /\ Ahead \in Nat /\ Ahead = Len(Middle) + 2
  BY MiddleGood DEF Ahead
<1>2. Len(f) = Ahead + 2 * Frames + 1
  <2>1. Len(f) = Ahead + (2 * Frames + 1)
    BY DEF Written
  <2> HIDE DEF Written
  <2> QED
    BY <1>1, <2>1
<1>3. \A n \in 1..Ahead : f[n] = HeadChunks[n]
  BY DEF Written
<1>4. 1 \in 1..Ahead /\ Ahead \in 1..Ahead /\ \A n \in 1..Len(Middle) : n + 1 \in 1..Ahead
  BY <1>1
<1>5. /\ f[1] = [kind |-> "IHDR", size |-> anim.size, color |-> SavedColor]
      /\ \A n \in 1..Len(Middle) : f[n + 1] = Middle[n]
      /\ f[Ahead] = [kind |-> "acTL", plays |-> anim.plays, frames |-> Frames]
  BY <1>3, <1>4, HeadGood DEF HeadIs
<1>6. ASSUME NEW k \in 1..Frames
      PROVE  f[Ahead + 2 * k - 1] = Control(k) /\ f[Ahead + 2 * k] = Datum(k)
  <2>1. /\ 2 * k - 1 \in 1..(2 * Frames + 1) /\ 2 * k \in 1..(2 * Frames + 1)
        /\ Ahead + (2 * k - 1) = Ahead + 2 * k - 1
    BY <1>1
  <2>2. f[Ahead + (2 * k - 1)] = Body(2 * k - 1) /\ f[Ahead + 2 * k] = Body(2 * k)
    BY <2>1 DEF Written
  <2> QED
    BY <2>1, <2>2, BodyIs
<1>7. f[Len(f)] = [kind |-> "end"]
  <2>1. 2 * Frames + 1 \in 1..(2 * Frames + 1) /\ Ahead + (2 * Frames + 1) = Len(f)
    BY <1>1, <1>2
  <2>2. f[Ahead + (2 * Frames + 1)] = Body(2 * Frames + 1)
    BY <2>1 DEF Written
  <2> QED
    BY <2>1, <2>2, BodyIs
<1> QED
  BY <1>1, <1>2, <1>5, <1>6, <1>7 DEF WholeFile

\* What each chunk of a whole file is.
LiesAt(f, n) ==
  \/ n = 1 /\ f[n].kind = "IHDR"
  \/ /\ n - 1 \in 1..Len(Middle) /\ f[n] = Middle[n - 1]
     /\ RecordsPreserved => f[n].kind \in {"other", "PLTE", "tRNS"}
  \/ n = Ahead /\ f[n].kind = "acTL"
  \/ \E k \in 1..Frames : n = Ahead + 2 * k - 1 /\ f[n] = Control(k) /\ f[n].kind = "fcTL"
  \/ n = Ahead + 2 /\ f[n] = Datum(1) /\ f[n].kind = "IDAT"
  \/ \E k \in 2..Frames : n = Ahead + 2 * k /\ f[n] = Datum(k) /\ f[n].kind = "fdAT"
  \/ n = Len(f) /\ f[n].kind = "end"

\* Nothing else is in the file.
LEMMA AllLie ==
  ASSUME anim \in Animations, NEW f, WholeFile(f), NEW n \in 1..Len(f)
  PROVE  LiesAt(f, n)
<1>1. /\ Frames \in Nat \ {0} /\ Len(Middle) \in Nat
      /\ Ahead \in Nat /\ Ahead = Len(Middle) + 2 /\ Len(f) = Ahead + 2 * Frames + 1
  BY DEF WholeFile
<1>2. \/ n = 1 \/ n - 1 \in 1..Len(Middle) \/ n = Ahead \/ n = Len(f)
      \/ n - Ahead \in 1..(2 * Frames)
  BY <1>1
<1>3. CASE n = 1
  BY <1>3 DEF WholeFile, LiesAt
<1>4. CASE n - 1 \in 1..Len(Middle)
  <2>1. f[n] = Middle[n - 1]
    <3>1. (n - 1) + 1 = n
      BY <1>1
    <3>2. f[(n - 1) + 1] = Middle[n - 1]
      BY <1>4 DEF WholeFile
    <3> QED
      BY <3>1, <3>2
  <2>2. RecordsPreserved => Middle[n - 1].kind \in {"other", "PLTE", "tRNS"}
    BY <1>4, MiddleGood DEF MiddleOk
  <2> QED
    BY <1>4, <2>1, <2>2 DEF LiesAt
<1>5. CASE n = Ahead
  BY <1>5 DEF WholeFile, LiesAt
<1>6. CASE n = Len(f)
  BY <1>6 DEF WholeFile, LiesAt
<1>7. CASE n - Ahead \in 1..(2 * Frames)
  <2>1. PICK k \in 1..Frames : n - Ahead = 2 * k - 1 \/ n - Ahead = 2 * k
    BY <1>1, <1>7, BodyIs
  <2>2. CASE n - Ahead = 2 * k - 1
    <3>1. n = Ahead + 2 * k - 1
      BY <1>1, <2>2
    <3>2. f[n] = Control(k) /\ f[n].kind = "fcTL"
      BY <3>1 DEF WholeFile, Control
    <3> QED
      BY <3>1, <3>2 DEF LiesAt
  <2>3. CASE n - Ahead = 2 * k
    <3>1. n = Ahead + 2 * k
      BY <1>1, <2>3
    <3>2. f[n] = Datum(k)
      BY <3>1 DEF WholeFile
    <3>3. CASE k = 1
      <4>1. n = Ahead + 2 /\ f[n].kind = "IDAT"
        BY <3>1, <3>2, <3>3 DEF Datum
      <4> QED
        BY <3>2, <3>3, <4>1 DEF LiesAt
    <3>4. CASE k # 1
      <4>1. k \in 2..Frames /\ f[n].kind = "fdAT"
        BY <1>1, <3>2, <3>4 DEF Datum
      <4> QED
        BY <3>1, <3>2, <4>1 DEF LiesAt
    <3> QED
      BY <3>3, <3>4
  <2> QED
    BY <2>1, <2>2, <2>3
<1> QED
  BY <1>2, <1>3, <1>4, <1>5, <1>6, <1>7

\* Which chunks of a whole file are of which kind.
Kinds(f) ==
  /\ \A n \in 1..Len(f) : f[n].kind = "IHDR" <=> n = 1
  /\ \A n \in 1..Len(f) : f[n].kind = "acTL" <=> n = Ahead
  /\ \A n \in 1..Len(f) : f[n].kind = "end" <=> n = Len(f)
  /\ \A n \in 1..Len(f) : f[n].kind = "IDAT" <=> n = Ahead + 2
  /\ \A n \in 1..Len(f) : f[n].kind = "fcTL" <=> \E k \in 1..Frames : n = Ahead + 2 * k - 1
  /\ \A n \in 1..Len(f) : f[n].kind = "fdAT" <=> \E k \in 2..Frames : n = Ahead + 2 * k
  /\ \A n \in 1..Len(f) : f[n].kind \in {"other", "PLTE", "tRNS"}
                            <=> n - 1 \in 1..Len(Middle)
  /\ \A n \in 1..Len(f) : n - 1 \in 1..Len(Middle) => f[n] = Middle[n - 1]

LEMMA KindsAre ==
  ASSUME anim \in Animations, RecordsPreserved, NEW f, WholeFile(f)
  PROVE  Kinds(f)
<1>1. /\ Frames \in Nat \ {0} /\ Len(Middle) \in Nat
      /\ Ahead \in Nat /\ Ahead = Len(Middle) + 2 /\ Len(f) = Ahead + 2 * Frames + 1
  BY DEF WholeFile
<1>2. ASSUME NEW n \in 1..Len(f)
      PROVE  /\ f[n].kind = "IHDR" <=> n = 1
             /\ f[n].kind = "acTL" <=> n = Ahead
             /\ f[n].kind = "end" <=> n = Len(f)
             /\ f[n].kind = "IDAT" <=> n = Ahead + 2
             /\ f[n].kind = "fcTL" <=> \E k \in 1..Frames : n = Ahead + 2 * k - 1
             /\ f[n].kind = "fdAT" <=> \E k \in 2..Frames : n = Ahead + 2 * k
             /\ f[n].kind \in {"other", "PLTE", "tRNS"} <=> n - 1 \in 1..Len(Middle)
             /\ n - 1 \in 1..Len(Middle) => f[n] = Middle[n - 1]
  <2>1. LiesAt(f, n)
    BY AllLie
  <2> QED
    BY <1>1, <2>1, SMTT(30) DEF LiesAt
<1> QED
  BY <1>2 DEF Kinds

\* The places of the controls, and of what has a number.
LEMMA ControlPlaces ==
  ASSUME anim \in Animations, RecordsPreserved, NEW f, WholeFile(f), NEW S,
         S = { n \in 1..Len(f) : f[n].kind = "fcTL" }
  PROVE  /\ S \in SUBSET Nat /\ IsFiniteSet(S) /\ Cardinality(S) = Frames
         /\ \A k \in 1..Frames : Nth(S, k) = Ahead + 2 * k - 1
<1> DEFINE p == [k \in 1..Frames |-> Ahead + 2 * k - 1]
<1>1. Frames \in Nat /\ Ahead \in Nat /\ Len(f) = Ahead + 2 * Frames + 1
  BY DEF WholeFile
<1>2. \A k \in 1..Frames : p[k] = Ahead + 2 * k - 1 /\ p[k] \in 1..Len(f)
  BY <1>1
<1> HIDE DEF p
<1>3. \A n \in 1..Len(f) : f[n].kind = "fcTL" <=> \E k \in 1..Frames : n = Ahead + 2 * k - 1
  BY KindsAre DEF Kinds
<1>4. Lists(p, Frames, S)
  <2>1. \A k \in 1..Frames : p[k] \in Nat /\ p[k] \in S
    BY <1>1, <1>2, <1>3
  <2>2. \A j, k \in 1..Frames : j < k => p[j] < p[k]
    BY <1>1, <1>2
  <2>3. \A x \in S : \E k \in 1..Frames : x = p[k]
    BY <1>2, <1>3
  <2> QED
    BY <2>1, <2>2, <2>3 DEF Lists
<1>5. /\ S \in SUBSET Nat /\ IsFiniteSet(S) /\ Cardinality(S) = Frames
      /\ \A k \in 1..Frames : Nth(S, k) = p[k]
  <2>1. Frames \in Nat
    BY <1>1
  <2>2. \A T : Lists(p, Frames, T) =>
          /\ T \in SUBSET Nat /\ IsFiniteSet(T) /\ Cardinality(T) = Frames
          /\ \A k \in 1..Frames : Nth(T, k) = p[k]
    BY <2>1, Enumerated
  <2> QED
    BY <1>4, <2>2, Zenon
<1> QED
  BY <1>2, <1>5

\* The sequence number of a chunk is the count of the numbered chunks before it.
LEMMA NumbersBefore ==
  ASSUME anim \in Animations, RecordsPreserved, NEW f, WholeFile(f), NEW n \in 1..Len(f),
         f[n].kind \in {"fcTL", "fdAT"}, NEW S,
         S = { m \in 1..Len(f) : f[m].kind \in {"fcTL", "fdAT"} /\ m < n }
  PROVE  f[n].seq = Cardinality(S)
<1>1. /\ Frames \in Nat \ {0} /\ Ahead \in Nat /\ Len(f) = Ahead + 2 * Frames + 1
      /\ \A k \in 1..Frames : f[Ahead + 2 * k - 1] = Control(k) /\ f[Ahead + 2 * k] = Datum(k)
  BY DEF WholeFile
<1>2. /\ \A m \in 1..Len(f) : f[m].kind = "fcTL" <=> \E k \in 1..Frames : m = Ahead + 2 * k - 1
      /\ \A m \in 1..Len(f) : f[m].kind = "fdAT" <=> \E k \in 2..Frames : m = Ahead + 2 * k
  BY KindsAre DEF Kinds
<1>3. \A m \in 1..Len(f) :
        f[m].kind \in {"fcTL", "fdAT"} <=> /\ m - Ahead \in 1..(2 * Frames)
                                           /\ m - Ahead # 2
  <2> SUFFICES ASSUME NEW m \in 1..Len(f)
               PROVE  f[m].kind \in {"fcTL", "fdAT"} <=> /\ m - Ahead \in 1..(2 * Frames)
                                                         /\ m - Ahead # 2
    OBVIOUS
  <2>1. ASSUME m - Ahead \in 1..(2 * Frames), m - Ahead # 2
        PROVE  f[m].kind \in {"fcTL", "fdAT"}
    <3>1. PICK k \in 1..Frames : m - Ahead = 2 * k - 1 \/ m - Ahead = 2 * k
      BY <1>1, <2>1, BodyIs
    <3>2. m = Ahead + 2 * k - 1 \/ m = Ahead + 2 * k
      BY <1>1, <3>1
    <3>3. m = Ahead + 2 * k => k \in 2..Frames
      BY <1>1, <2>1
    <3> QED
      BY <1>2, <3>2, <3>3
  <2>2. ASSUME f[m].kind = "fcTL"
        PROVE  m - Ahead \in 1..(2 * Frames) /\ m - Ahead # 2
    <3>1. PICK k \in 1..Frames : m = Ahead + 2 * k - 1
      BY <1>2, <2>2
    <3> QED
      BY <1>1, <3>1
  <2>3. ASSUME f[m].kind = "fdAT"
        PROVE  m - Ahead \in 1..(2 * Frames) /\ m - Ahead # 2
    <3>1. PICK k \in 2..Frames : m = Ahead + 2 * k
      BY <1>2, <2>3
    <3> QED
      BY <1>1, <3>1
  <2> QED
    BY <2>1, <2>2, <2>3
<1> DEFINE d0 == n - Ahead
           c == IF d0 = 1 THEN 0 ELSE d0 - 2
           p == [k \in 1..c |-> IF k = 1 THEN Ahead + 1 ELSE Ahead + k + 1]
<1>4. d0 \in 1..(2 * Frames) /\ d0 # 2 /\ n = Ahead + d0
  BY <1>1, <1>3
<1> HIDE DEF d0
<1>5. c \in Nat
  BY <1>1, <1>4
<1>6. Lists(p, c, S)
  <2>1. \A k \in 1..c : p[k] = IF k = 1 THEN Ahead + 1 ELSE Ahead + k + 1
    OBVIOUS
  <2>2. \A k \in 1..c : d0 # 1 /\ k <= d0 - 2
    BY <1>4
  <2> HIDE DEF p, c
  <2>3. ASSUME NEW k \in 1..c PROVE p[k] \in Nat /\ p[k] \in S
    <3>1. p[k] \in 1..Len(f) /\ p[k] < n /\ p[k] - Ahead \in 1..(2 * Frames) /\ p[k] - Ahead # 2
      BY <1>1, <1>4, <2>1, <2>2
    <3> QED
      BY <1>3, <3>1
  <2>4. \A j, k \in 1..c : j < k => p[j] < p[k]
    BY <1>1, <2>1
  <2>5. ASSUME NEW x \in S PROVE \E k \in 1..c : x = p[k]
    <3>1. x \in 1..Len(f) /\ x - Ahead \in 1..(2 * Frames) /\ x - Ahead # 2 /\ x < n
      BY <1>3
    <3>2. d0 # 1 /\ c = d0 - 2
      BY <1>1, <1>4, <3>1 DEF c
    <3>3. CASE x - Ahead = 1
      <4>1. 1 \in 1..c /\ x = Ahead + 1
        BY <1>1, <1>4, <3>1, <3>2, <3>3
      <4> QED
        BY <2>1, <4>1
    <3>4. CASE x - Ahead # 1
      <4>1. x - Ahead - 1 \in 1..c /\ x - Ahead - 1 # 1 /\ x = Ahead + (x - Ahead - 1) + 1
        BY <1>1, <1>4, <3>1, <3>2, <3>4
      <4> QED
        BY <2>1, <4>1
    <3> QED
      BY <3>3, <3>4
  <2> QED
    BY <2>3, <2>4, <2>5 DEF Lists
<1>7. Cardinality(S) = c
  <2> HIDE DEF p, c
  <2> QED
    BY <1>5, <1>6, Enumerated
<1>8. CASE f[n].kind = "fcTL"
  <2>1. PICK k \in 1..Frames : n = Ahead + 2 * k - 1
    BY <1>2, <1>8
  <2>2. d0 = 2 * k - 1
    BY <1>1, <1>4, <2>1
  <2>3. f[n] = Control(k)
    BY <1>1, <2>1
  <2>4. f[n].seq = IF k = 1 THEN 0 ELSE 2 * k - 3
    BY <2>3 DEF Control
  <2> QED
    BY <1>7, <2>2, <2>4
<1>9. CASE f[n].kind = "fdAT"
  <2>1. PICK k \in 2..Frames : n = Ahead + 2 * k
    BY <1>2, <1>9
  <2>4. k \in 1..Frames /\ k # 1 /\ k \in Nat
    BY <1>1
  <2>2. d0 = 2 * k
    BY <1>1, <1>4, <2>1, <2>4
  <2>5. f[n] = Datum(k)
    BY <1>1, <2>1, <2>4
  <2>3. f[n].seq = 2 * k - 2
    BY <2>4, <2>5 DEF Datum
  <2> QED
    BY <1>7, <2>2, <2>3
<1> QED
  BY <1>8, <1>9

\* So a whole file is a valid APNG,
LEMMA WholeValid ==
  ASSUME anim \in Animations, RecordsPreserved, NEW f, IsSequence(f), WholeFile(f)
  PROVE  ValidApng(f)
<1>1. /\ Frames \in Nat \ {0} /\ Len(Middle) \in Nat
      /\ Ahead \in Nat /\ Ahead = Len(Middle) + 2 /\ Len(f) = Ahead + 2 * Frames + 1
      /\ f[1] = [kind |-> "IHDR", size |-> anim.size, color |-> SavedColor]
      /\ f[Ahead] = [kind |-> "acTL", plays |-> anim.plays, frames |-> Frames]
  BY DEF WholeFile
<1>2. /\ \A n \in 1..Len(f) : f[n].kind = "IHDR" <=> n = 1
      /\ \A n \in 1..Len(f) : f[n].kind = "acTL" <=> n = Ahead
      /\ \A n \in 1..Len(f) : f[n].kind = "end" <=> n = Len(f)
      /\ \A n \in 1..Len(f) : f[n].kind = "IDAT" <=> n = Ahead + 2
      /\ \A n \in 1..Len(f) : f[n].kind = "fcTL" <=> \E k \in 1..Frames : n = Ahead + 2 * k - 1
      /\ \A n \in 1..Len(f) : f[n].kind = "fdAT" <=> \E k \in 2..Frames : n = Ahead + 2 * k
      /\ \A n \in 1..Len(f) : f[n].kind \in {"other", "PLTE", "tRNS"}
                                <=> n - 1 \in 1..Len(Middle)
      /\ \A n \in 1..Len(f) : n - 1 \in 1..Len(Middle) => f[n] = Middle[n - 1]
  BY KindsAre DEF Kinds
<1>3. /\ 1 \in 1..Len(f) /\ Ahead \in 1..Len(f) /\ Len(f) \in 1..Len(f) /\ Ahead + 2 \in 1..Len(f)
  BY <1>1
<1>4. f # <<>>
  BY <1>1, NoneIsEmpty
<1>5. /\ OfKind(f, {"IHDR"}) = {1} /\ OfKind(f, {"end"}) = {Len(f)}
      /\ OfKind(f, {"acTL"}) = {Ahead} /\ OfKind(f, {"IDAT"}) = {Ahead + 2}
  BY <1>2, <1>3 DEF OfKind
<1>6. f[Ahead].frames = Cardinality(OfKind(f, {"fcTL"}))
  <2>1. OfKind(f, {"fcTL"}) = { n \in 1..Len(f) : f[n].kind = "fcTL" }
    BY DEF OfKind
  <2>2. Cardinality(OfKind(f, {"fcTL"})) = Frames
    BY <2>1, ControlPlaces
  <2> QED
    BY <1>1, <2>2
<1>7. \A n \in OfKind(f, {"IDAT", "fdAT", "fcTL"}) : Ahead < n
  <2> SUFFICES ASSUME NEW n \in 1..Len(f), f[n].kind \in {"IDAT", "fdAT", "fcTL"}
               PROVE  Ahead < n
    BY DEF OfKind
  <2>1. n = Ahead + 2 \/ (\E k \in 1..Frames : n = Ahead + 2 * k - 1)
          \/ (\E k \in 2..Frames : n = Ahead + 2 * k)
    BY <1>2
  <2> QED
    BY <1>1, <2>1
<1>8. \A n \in OfKind(f, {"other", "PLTE", "tRNS"}) : n < Ahead
  BY <1>1, <1>2 DEF OfKind
<1>9. \A n \in OfKind(f, {"fcTL"}) : f[n + 1].kind = IF n = Ahead + 1 THEN "IDAT" ELSE "fdAT"
  <2> SUFFICES ASSUME NEW n \in 1..Len(f), f[n].kind = "fcTL"
               PROVE  f[n + 1].kind = IF n = Ahead + 1 THEN "IDAT" ELSE "fdAT"
    BY DEF OfKind
  <2>1. PICK k \in 1..Frames : n = Ahead + 2 * k - 1
    BY <1>2
  <2>2. n + 1 = Ahead + 2 * k /\ n + 1 \in 1..Len(f)
    BY <1>1, <2>1
  <2>3. CASE k = 1
    BY <1>1, <1>2, <2>1, <2>2, <2>3
  <2>4. CASE k # 1
    <3>1. k \in 2..Frames /\ n # Ahead + 1
      BY <1>1, <2>1, <2>4
    <3> QED
      BY <1>2, <2>2, <3>1
  <2> QED
    BY <2>3, <2>4
<1>10. MiddleOk(Middle)
  BY MiddleGood
<1>11. f[1].color = "indexed" <=> Indexed
  BY <1>1 DEF SavedColor
<1>12. Indexed <=> OfKind(f, {"PLTE"}) # {}
  <2>1. \A n \in 1..Len(Middle) : n + 1 \in 1..Len(f) /\ (n + 1) - 1 = n
    BY <1>1
  <2>2. \A n \in 1..Len(Middle) : f[n + 1] = Middle[n]
    BY DEF WholeFile
  <2>3. Indexed <=> \E n \in 1..Len(Middle) : Middle[n].kind = "PLTE"
    BY <1>10 DEF MiddleOk
  <2>4. ASSUME NEW n \in OfKind(f, {"PLTE"})
        PROVE  \E m \in 1..Len(Middle) : Middle[m].kind = "PLTE"
    <3>1. n \in 1..Len(f) /\ f[n].kind = "PLTE"
      BY DEF OfKind
    <3>2. n - 1 \in 1..Len(Middle) /\ f[n] = Middle[n - 1]
      BY <1>2, <3>1
    <3> QED
      BY <3>1, <3>2
  <2>5. ASSUME NEW n \in 1..Len(Middle), Middle[n].kind = "PLTE"
        PROVE  OfKind(f, {"PLTE"}) # {}
    <3>1. n + 1 \in 1..Len(f) /\ f[n + 1].kind = "PLTE"
      BY <2>1, <2>2, <2>5
    <3>2. n + 1 \in OfKind(f, {"PLTE"})
      BY <3>1 DEF OfKind
    <3> QED
      BY <3>2
  <2> QED
    BY <2>3, <2>4, <2>5
<1>13. \A p \in OfKind(f, {"PLTE"}) :
         /\ \A n \in OfKind(f, {"tRNS"}) : p < n
         /\ \A n \in OfKind(f, {"other"}) : Colour(f[n]) => n < p
  <2> SUFFICES ASSUME NEW p \in 1..Len(f), f[p].kind = "PLTE",
                      NEW n \in 1..Len(f), f[n].kind \in {"tRNS", "other"}
               PROVE  /\ f[n].kind = "tRNS" => p < n
                      /\ (f[n].kind = "other" /\ Colour(f[n])) => n < p
    BY DEF OfKind
  <2>1. p - 1 \in 1..Len(Middle) /\ f[p] = Middle[p - 1]
    BY <1>2
  <2>2. n - 1 \in 1..Len(Middle) /\ f[n] = Middle[n - 1]
    BY <1>2
  <2>3. /\ Middle[n - 1].kind = "tRNS" => p - 1 < n - 1
        /\ (Middle[n - 1].kind = "other" /\ Colour(Middle[n - 1])) => n - 1 < p - 1
    BY <1>10, <2>1, <2>2 DEF MiddleOk
  <2>4. p \in Int /\ n \in Int
    BY <1>1
  <2> QED
    BY <2>1, <2>2, <2>3, <2>4
<1>14. \A n \in OfKind(f, {"fcTL", "fdAT"}) :
         f[n].seq = Cardinality({ m \in OfKind(f, {"fcTL", "fdAT"}) : m < n })
  <2> SUFFICES ASSUME NEW n \in 1..Len(f), f[n].kind \in {"fcTL", "fdAT"}
               PROVE  f[n].seq = Cardinality({ m \in OfKind(f, {"fcTL", "fdAT"}) : m < n })
    BY DEF OfKind
  <2>1. { m \in OfKind(f, {"fcTL", "fdAT"}) : m < n }
          = { m \in 1..Len(f) : f[m].kind \in {"fcTL", "fdAT"} /\ m < n }
    BY DEF OfKind
  <2> QED
    BY <2>1, NumbersBefore
<1>15. Cardinality(OfKind(f, {"IDAT"})) = 1
  BY <1>5, FS_Singleton
<1>16. f[1].color = "indexed" <=> OfKind(f, {"PLTE"}) # {}
  BY <1>11, <1>12
<1> QED
  BY <1>3, <1>4, <1>5, <1>6, <1>7, <1>8, <1>9, <1>13, <1>14, <1>15, <1>16 DEF ValidApng

\* has every record once and in its order within its group,
LEMMA WholeGroups ==
  ASSUME anim \in Animations, RecordsPreserved, NEW f, WholeFile(f)
  PROVE  /\ Those(f, ColourAt(f)) = Ancillary(ColourGroup)
         /\ Those(f, PlainAt(f)) = Ancillary(PlainGroup)
         /\ (\E n \in 1..Len(f) : f[n].kind = "tRNS") <=> Indexed /\ anim.alpha
         /\ ComesBack(f) <=> \E n \in 1..Len(Records) : ~IsDroppedType(Records[n].type, FALSE)
<1>1. /\ Frames \in Nat \ {0} /\ Len(Middle) \in Nat
      /\ Ahead \in Nat /\ Ahead = Len(Middle) + 2 /\ Len(f) = Ahead + 2 * Frames + 1
      /\ \A n \in 1..Len(Middle) : f[n + 1] = Middle[n]
  BY DEF WholeFile
<1>2. /\ \A n \in 1..Len(f) : f[n].kind \in {"other", "tRNS"} => n - 1 \in 1..Len(Middle)
      /\ \A n \in 1..Len(f) : n - 1 \in 1..Len(Middle) => f[n] = Middle[n - 1]
  BY KindsAre DEF Kinds
<1>3. MiddleOk(Middle)
  BY MiddleGood
<1>4. \A n \in 1..Len(Middle) : n + 1 \in 1..Len(f)
  BY <1>1
<1>5. \A n \in 1..Len(f) : n = (n - 1) + 1
  BY <1>1
<1>6. Moved(f, ColourAt(f), Middle, ColourAt(Middle), 1)
  BY <1>1, <1>2, <1>4, <1>5 DEF Moved, ColourAt
<1>7. Moved(f, PlainAt(f), Middle, PlainAt(Middle), 1)
  BY <1>1, <1>2, <1>4, <1>5 DEF Moved, PlainAt
<1>8. /\ ColourAt(Middle) \in SUBSET Nat /\ IsFiniteSet(ColourAt(Middle))
      /\ PlainAt(Middle) \in SUBSET Nat /\ IsFiniteSet(PlainAt(Middle))
  <2>1. ColourAt(Middle) \in SUBSET (1..Len(Middle)) /\ PlainAt(Middle) \in SUBSET (1..Len(Middle))
    BY DEF ColourAt, PlainAt
  <2> QED
    BY <1>1, <2>1, PlacesAre
<1>9. 1 \in Nat
  OBVIOUS
<1>10. Those(f, ColourAt(f)) = Those(Middle, ColourAt(Middle))
  BY <1>6, <1>8, <1>9, ThoseMoved
<1>11. Those(f, PlainAt(f)) = Those(Middle, PlainAt(Middle))
  BY <1>7, <1>8, <1>9, ThoseMoved
<1>12. ComesBack(f) <=> ComesBack(Middle)
  BY <1>1, <1>2, <1>4 DEF ComesBack
<1>13. (\E n \in 1..Len(f) : f[n].kind = "tRNS")
         <=> \E n \in 1..Len(Middle) : Middle[n].kind = "tRNS"
  BY <1>1, <1>2, <1>4
<1> QED
  BY <1>3, <1>10, <1>11, <1>12, <1>13 DEF MiddleOk

\* Whatever the types of the records, the numbers of the chunks are unsigned.
LEMMA MiddleNumbers ==
  ASSUME anim \in Animations, NEW n \in 1..Len(Middle)
  PROVE  NumbersOk(Middle[n])
<1>1. /\ Len(Records) \in Nat
      /\ \A j \in 1..Len(Records) : NumbersOk(Records[j].chunk)
  BY RecordsAre
<1>2. CASE Indexed
  <2> DEFINE lc == Len(ColourGroup)
             ln == Len(PlainGroup)
             e == lc + 1 + Len(Alpha)
  <2>1. MiddleIs(lc, ln, e)
    BY <1>2, MiddleLies
  <2>2. /\ lc = Cardinality(Where(Records, Colour)) /\ ln = Cardinality(Where(Records, NotColour))
        /\ \A j \in 1..lc : \E m \in Where(Records, Colour) : ColourGroup[j] = Records[m]
        /\ \A j \in 1..ln : \E m \in Where(Records, NotColour) : PlainGroup[j] = Records[m]
    <3> DEFINE r == Records
               x == Where(r, Colour)
               y == Where(r, NotColour)
    <3>1. IsFiniteSet(x) /\ x \in SUBSET Nat /\ IsFiniteSet(y) /\ y \in SUBSET Nat
      BY GroupsAre
    <3> HIDE DEF r, x, y
    <3>2. /\ Len(Those(r, x)) = Cardinality(x)
          /\ \A j \in 1..Cardinality(x) : \E m \in x : Those(r, x)[j] = r[m]
      BY <3>1, ThoseAre
    <3>3. /\ Len(Those(r, y)) = Cardinality(y)
          /\ \A j \in 1..Cardinality(y) : \E m \in y : Those(r, y)[j] = r[m]
      BY <3>1, ThoseAre
    <3>4. lc = Cardinality(x) /\ ColourGroup = Those(r, x)
      BY <3>2 DEF r, x, ColourGroup
    <3>5. ln = Cardinality(y) /\ PlainGroup = Those(r, y)
      BY <3>3 DEF r, y, PlainGroup
    <3> HIDE DEF lc, ln
    <3>6. /\ \A j \in 1..lc : \E m \in x : ColourGroup[j] = r[m]
          /\ \A j \in 1..ln : \E m \in y : PlainGroup[j] = r[m]
      BY <3>2, <3>3, <3>4, <3>5
    <3> QED
      BY <3>4, <3>5, <3>6 DEF r, x, y
  <2> HIDE DEF lc, ln
  <2>3. /\ \A j \in 1..lc : NumbersOk(ColourGroup[j].chunk)
        /\ \A j \in 1..ln : NumbersOk(PlainGroup[j].chunk)
    BY <1>1, <2>2, GroupsAre
  <2>4. lc \in Nat /\ ln \in Nat /\ Len(Alpha) \in 0..1 /\ Len(Middle) = e + ln
    BY <2>1 DEF MiddleIs
  <2>5. /\ \A j \in 1..lc : Ancillary(ColourGroup)[j] = ColourGroup[j].chunk
        /\ \A j \in 1..ln : Ancillary(PlainGroup)[j] = PlainGroup[j].chunk
    BY <2>4, AncillaryIs DEF lc, ln
  <2>6. \/ n \in 1..lc
        \/ n = lc + 1
        \/ n = lc + 2 /\ Len(Alpha) = 1
        \/ n - e \in 1..ln /\ n = (n - e) + e
    <3> DEFINE a == Len(Alpha)
    <3>1. a \in 0..1 /\ n \in 1..(lc + 1 + a + ln) /\ e = lc + 1 + a
      BY <2>4
    <3> HIDE DEF a, e
    <3>2. \/ n \in 1..lc \/ n = lc + 1 \/ (n = lc + 2 /\ a = 1)
          \/ (n - e \in 1..ln /\ n = (n - e) + e)
      BY <2>4, <3>1
    <3> QED
      BY <3>2 DEF a
  <2> HIDE DEF e
  <2>7. CASE n \in 1..lc
    BY <2>1, <2>3, <2>5, <2>7 DEF MiddleIs
  <2>8. CASE n = lc + 1 \/ (n = lc + 2 /\ Len(Alpha) = 1)
    BY <2>1, <2>8 DEF MiddleIs, NumbersOk
  <2>9. CASE n - e \in 1..ln /\ n = (n - e) + e
    BY <2>1, <2>3, <2>5, <2>9 DEF MiddleIs
  <2> QED
    BY <2>6, <2>7, <2>8, <2>9
<1>3. CASE ~Indexed
  BY <1>1, <1>3, AncillaryIs DEF Middle
<1> QED
  BY <1>2, <1>3

\* and its numbers are unsigned.
LEMMA WholeNumbers ==
  ASSUME anim \in Animations, NEW f, WholeFile(f), NEW n \in 1..Len(f)
  PROVE  NumbersOk(f[n])
<1>1. LiesAt(f, n)
  BY AllLie
<1>2. {anim.w, anim.h, anim.plays} \subseteq Nat
  BY SaveAssumption
<1>3. CASE n = Ahead
  <2>1. f[n] = [kind |-> "acTL", plays |-> anim.plays, frames |-> Frames]
    BY <1>3 DEF WholeFile
  <2> QED
    BY <1>2, <2>1 DEF NumbersOk
<1>4. CASE \E k \in 1..Frames : f[n] = Control(k)
  BY <1>2, <1>4 DEF NumbersOk, Control
<1>5. CASE f[n].kind \notin {"acTL", "fcTL"}
  BY <1>5 DEF NumbersOk
<1>6. CASE n - 1 \in 1..Len(Middle) /\ f[n] = Middle[n - 1]
  BY <1>6, MiddleNumbers
<1> QED
  BY <1>1, <1>3, <1>4, <1>5, <1>6 DEF LiesAt

------------------------------------------------------------------------------
(* Saving.                                                                   *)

\* The head and n chunks behind it, with the first k frames, which are fit for it.
WrittenUpTo(x, n, k) ==
  /\ Frames > 0 /\ Written(x, n)
  /\ \A j \in 1..k : Writable(anim.frames[j])

WholeAnim(x) == WrittenUpTo(x, 2 * Frames + 1, Frames)

\* The blocks a save holds.
Held ==
  IF at \in {"foreign", "begin", "saved"} THEN {}
  ELSE IF at = "data" THEN {"g", "idat"} ELSE {"g"}

Places == {"foreign", "begin", "frame", "encode", "data", "write", "saved"}

\* What holds of apng_save throughout: i and seq say how much of the file is in g, as
\* long as no allocation failed, and what is on disk after a success is whole.
Saver ==
  /\ anim \in Animations /\ at \in Places
  /\ i \in 1..(Frames + 1) /\ seq \in 0..(2 * Frames)
  /\ at \in {"encode", "data"} => i <= Frames
  /\ at \in {"foreign", "begin"} => i = 1 /\ seq = 0
  /\ at = "frame" => seq = IF i = 1 THEN 0 ELSE 2 * i - 3
  /\ at \in {"encode", "data"} => seq = IF i = 1 THEN 1 ELSE 2 * i - 2
  /\ held = Held
  /\ g = [chunks |-> g.chunks, failed |-> g.failed] /\ g.failed \in BOOLEAN
  /\ at \in {"foreign", "begin"} => g = [chunks |-> <<>>, failed |-> FALSE]
  /\ at = "frame" /\ ~g.failed => WrittenUpTo(g.chunks, 2 * (i - 1), i - 1)
  /\ at \in {"encode", "data"} /\ ~g.failed => WrittenUpTo(g.chunks, 2 * i - 1, i)
  /\ at = "write" => WholeAnim(g.chunks)
  /\ at # "saved" => disk = <<>> /\ ~ok
  /\ ok \in BOOLEAN /\ lost \in BOOLEAN
  /\ IsSequence(disk) /\ \A n \in 1..Len(disk) : NumbersOk(disk[n])
  /\ (ok /\ ~lost) => WholeAnim(disk)

\* All this depends on the animation alone.
LEMMA AnimKept ==
  ASSUME UNCHANGED anim
  PROVE  /\ Frames' = Frames /\ Records' = Records /\ (Indexed' <=> Indexed)
         /\ RecordsPreserved' <=> RecordsPreserved
         /\ \A x : WholeAnim(x)' <=> WholeAnim(x)
         /\ \A x, n, k : WrittenUpTo(x, n, k)' <=> WrittenUpTo(x, n, k)
<1>0. Records' = Records
  BY DEF Records, SelectInSeq
<1>1. Frames' = Frames /\ Records' = Records /\ (Indexed' <=> Indexed) /\ anim' = anim
  BY <1>0 DEF Frames, Indexed
<1>9. SavedColor' = SavedColor
  BY <1>1 DEF SavedColor
<1>10. RecordsPreserved' <=> RecordsPreserved
  BY <1>0 DEF RecordsPreserved
<1>2. HeadChunks' = HeadChunks
  BY <1>1, <1>9 DEF HeadChunks
<1>3. Middle' = Middle
  BY <1>1 DEF Middle, ColourGroup, PlainGroup, Alpha
<1>4. Ahead' = Ahead
  BY <1>3 DEF Ahead
<1>5. \A k : Control(k)' = Control(k) /\ Datum(k)' = Datum(k)
  BY <1>1 DEF Control, Datum, Piece
<1>6. \A m : Body(m)' = Body(m)
  BY <1>1, <1>5 DEF Body
<1>7. \A x, n : Written(x, n)' <=> Written(x, n)
  BY <1>2, <1>4, <1>6 DEF Written
<1>8. \A x, n, k : WrittenUpTo(x, n, k)' <=> WrittenUpTo(x, n, k)
  BY <1>1, <1>7 DEF WrittenUpTo
<1> QED
  BY <1>1, <1>8, <1>10 DEF WholeAnim

\* The steps of a save, one by one.
LEMMA EncodeSaver ==
  ASSUME Saver, EncodeFrame
  PROVE  Saver'
<1>1. Frames' = Frames /\ \A x, n, k : WrittenUpTo(x, n, k)' <=> WrittenUpTo(x, n, k)
  BY AnimKept DEF EncodeFrame
<1>2. \A x : WholeAnim(x)' <=> WholeAnim(x)
  BY AnimKept DEF EncodeFrame
<1>3. at = "encode" /\ UNCHANGED <<anim, i, g, seq>>
  BY DEF EncodeFrame
<1>4. CASE at' = "saved" /\ held' = held \ {"g", "idat"} /\ UNCHANGED <<disk, ok, lost>>
  <2>1. held' = Held'
    BY <1>3, <1>4 DEF Saver, Held
  <2>2. (anim \in Animations)' /\ (at \in Places)' /\ (i \in 1..(Frames + 1))' /\ (seq \in 0..(2 * Frames))'
    BY <1>1, <1>3, <1>4 DEF Saver, Places
  <2> QED
    BY <1>1, <1>2, <1>3, <1>4, <2>1, <2>2 DEF Saver
<1>5. CASE at' = "data" /\ held' = held \cup {"idat"} /\ UNCHANGED <<disk, ok, lost>>
  <2>1. held' = Held'
    BY <1>3, <1>5 DEF Saver, Held
  <2>2. (anim \in Animations)' /\ (at \in Places)' /\ (i \in 1..(Frames + 1))' /\ (seq \in 0..(2 * Frames))'
    BY <1>1, <1>3, <1>5 DEF Saver, Places
  <2> QED
    BY <1>1, <1>2, <1>3, <1>5, <2>1, <2>2 DEF Saver
<1> QED
  BY <1>4, <1>5 DEF EncodeFrame, SaveFails, Leave

LEMMA SaverInit ==
  ASSUME SaveInit, at \in {"foreign", "begin"}
  PROVE  Saver
<1>1. Frames \in Nat
  BY SaveAssumption DEF Frames, SaveInit
<1>2. disk \in Seq({}) /\ Len(disk) = 0
  BY DEF SaveInit
<1>3. IsSequence(disk) /\ \A n \in 1..Len(disk) : NumbersOk(disk[n])
  BY <1>2 DEF IsSequence
<1>4. /\ anim \in Animations /\ at \in Places /\ i \in 1..(Frames + 1) /\ seq \in 0..(2 * Frames)
      /\ i = 1 /\ seq = 0 /\ disk = <<>>
  BY <1>1 DEF SaveInit, Places
<1>5. held = Held /\ ok = FALSE /\ lost = FALSE /\ g = [chunks |-> <<>>, failed |-> FALSE]
  BY DEF SaveInit, Held
<1>6. g = [chunks |-> g.chunks, failed |-> g.failed] /\ g.failed \in BOOLEAN
  BY <1>5
<1>7. ok \in BOOLEAN /\ lost \in BOOLEAN /\ ~ok
  BY <1>5
<1> QED
  BY <1>3, <1>4, <1>5, <1>6, <1>7 DEF Saver

LEMMA PutChunksIs ==
  ASSUME g = [chunks |-> g.chunks, failed |-> g.failed], g.failed \in BOOLEAN,
         NEW chunks, NEW fails \in SaveMayFail, PutChunks(chunks, fails)
  PROVE  /\ g' = [chunks |-> g'.chunks, failed |-> g'.failed] /\ g'.failed \in BOOLEAN
         /\ ~g'.failed => ~g.failed /\ g'.chunks = g.chunks \o chunks
<1>1. fails \in BOOLEAN
  BY SaveAssumption
<1>2. CASE g.failed \/ fails
  <2>1. g' = [g EXCEPT !.failed = TRUE]
    BY <1>2 DEF PutChunks
  <2>2. g \in [chunks : {g.chunks}, failed : BOOLEAN]
    OBVIOUS
  <2>3. g' = [chunks |-> g.chunks, failed |-> TRUE]
    BY <2>1, <2>2
  <2> QED
    BY <2>3
<1>3. CASE ~(g.failed \/ fails)
  <2>1. g' = [g EXCEPT !.chunks = g.chunks \o chunks]
    BY <1>3 DEF PutChunks
  <2>2. g \in [chunks : {g.chunks, g.chunks \o chunks}, failed : BOOLEAN]
    OBVIOUS
  <2>3. g' = [chunks |-> g.chunks \o chunks, failed |-> g.failed]
    BY <2>1, <2>2
  <2> QED
    BY <1>3, <2>3
<1> QED
  BY <1>2, <1>3

\* Every way out leaves what an unsuccessful save leaves.
LEMMA GivenUp ==
  ASSUME Saver, at \notin {"foreign", "saved"}, SaveFails, UNCHANGED anim,
         (i \in 1..(Frames + 1))', (seq \in 0..(2 * Frames))',
         g' = [chunks |-> g'.chunks, failed |-> g'.failed] /\ g'.failed \in BOOLEAN
  PROVE  Saver'
<1>1. Frames' = Frames /\ \A x : WholeAnim(x)' <=> WholeAnim(x)
  BY AnimKept
<1>2. at' = "saved" /\ held' = held \ {"g", "idat"} /\ UNCHANGED <<disk, ok, lost>>
  BY DEF SaveFails, Leave
<1>3. held' = Held'
  BY <1>2 DEF Saver, Held
<1>4. (anim \in Animations)' /\ (at \in Places)'
  BY <1>2 DEF Saver, Places
<1> QED
  BY <1>1, <1>2, <1>3, <1>4 DEF Saver

LEMMA HeadSaver ==
  ASSUME Saver, SaveHead
  PROVE  Saver'
<1>1. Frames' = Frames /\ \A x, n, k : WrittenUpTo(x, n, k)' <=> WrittenUpTo(x, n, k)
  BY AnimKept DEF SaveHead
<1>2. \A x : WholeAnim(x)' <=> WholeAnim(x)
  BY AnimKept DEF SaveHead
<1>3. /\ at = "begin" /\ UNCHANGED <<anim, i, seq>> /\ i = 1 /\ seq = 0
      /\ g = [chunks |-> <<>>, failed |-> FALSE] /\ Frames \in Nat
  BY SaveAssumption DEF SaveHead, Saver, Frames
<1>4. (i \in 1..(Frames + 1))' /\ (seq \in 0..(2 * Frames))'
  BY <1>1, <1>3
<1>5. CASE SaveFails /\ UNCHANGED g
  BY <1>3, <1>4, <1>5, GivenUp DEF Saver
<1>6. CASE /\ Savable
           /\ \E fails \in SaveMayFail : PutChunks(HeadChunks, fails)
           /\ at' = "frame" /\ held' = {"g"}
           /\ UNCHANGED <<disk, ok, lost>>
  <2>1. /\ g' = [chunks |-> g'.chunks, failed |-> g'.failed] /\ g'.failed \in BOOLEAN
        /\ ~g'.failed => ~g.failed /\ g'.chunks = g.chunks \o HeadChunks
    BY <1>6, PutChunksIs DEF Saver
  <2>2. <<>> \o HeadChunks = HeadChunks
    <3>1. PICK S : HeadChunks \in Seq(S)
      BY HeadGood DEF HeadIs, IsSequence, Saver
    <3> QED
      BY <3>1
  <2>3. ~g'.failed => g'.chunks = HeadChunks
    BY <1>3, <2>1, <2>2
  <2>4. Frames > 0
    <3>1. anim.frames # <<>> /\ anim.frames \in Seq(Range(anim.frames))
      BY <1>6, SaveAssumption DEF Savable, Saver
    <3> QED
      BY <3>1, EmptySeq DEF Frames
  <2>5. ~g'.failed => WrittenUpTo(g'.chunks, 0, 0)
    BY <2>3, <2>4, WrittenNothing DEF WrittenUpTo, Saver
  <2>6. ~g'.failed => WrittenUpTo(g.chunks, 2 * (i - 1), i - 1)'
    <3>1. 2 * (i' - 1) = 0 /\ i' - 1 = 0
      BY <1>3
    <3> QED
      BY <1>1, <2>5, <3>1
  <2>7. held' = Held'
    BY <1>6 DEF Held
  <2>8. (anim \in Animations)' /\ (at \in Places)'
    BY <1>3, <1>6 DEF Saver, Places
  <2> QED
    BY <1>1, <1>2, <1>3, <1>4, <1>6, <2>1, <2>6, <2>7, <2>8 DEF Saver
<1> QED
  BY <1>5, <1>6 DEF SaveHead

LEMMA ControlSaver ==
  ASSUME Saver, SaveControl
  PROVE  Saver'
<1>1. Frames' = Frames /\ \A x, n, k : WrittenUpTo(x, n, k)' <=> WrittenUpTo(x, n, k)
  BY AnimKept DEF SaveControl
<1>2. \A x : WholeAnim(x)' <=> WholeAnim(x)
  BY AnimKept DEF SaveControl
<1>3. /\ at = "frame" /\ UNCHANGED <<anim, i>> /\ i \in 1..Frames
      /\ seq = IF i = 1 THEN 0 ELSE 2 * i - 3
      /\ Frames \in Nat
  BY SaveAssumption DEF SaveControl, Saver, Frames
<1>4. (i \in 1..(Frames + 1))'
  BY <1>1, <1>3
<1>5. CASE SaveFails /\ UNCHANGED <<g, seq>>
  <2>1. (seq \in 0..(2 * Frames))'
    BY <1>1, <1>5 DEF Saver
  <2> QED
    BY <1>3, <1>4, <1>5, <2>1, GivenUp DEF Saver
<1>6. CASE /\ Writable(Frame)
           /\ \E fails \in SaveMayFail :
                PutChunks(<<[ kind |-> "fcTL", seq |-> seq, x |-> 0, y |-> 0,
                              w |-> anim.w, h |-> anim.h, delay |-> Frame.delay,
                              dispose |-> "none", blend |-> BlendSource ]>>, fails)
           /\ seq' = seq + 1
           /\ at' = "encode"
           /\ UNCHANGED <<held, disk, ok, lost>>
  <2> DEFINE c == [ kind |-> "fcTL", seq |-> seq, x |-> 0, y |-> 0,
                    w |-> anim.w, h |-> anim.h, delay |-> Frame.delay,
                    dispose |-> "none", blend |-> BlendSource ]
  <2>1. c = Control(i)
    BY <1>3 DEF Control, Frame, BlendSource
  <2>2. \E fails \in SaveMayFail : PutChunks(<<c>>, fails)
    BY <1>6
  <2> HIDE DEF c
  <2>3. /\ g' = [chunks |-> g'.chunks, failed |-> g'.failed] /\ g'.failed \in BOOLEAN
        /\ ~g'.failed => ~g.failed /\ g'.chunks = g.chunks \o <<c>>
    BY <2>2, PutChunksIs DEF Saver
  <2>4. ASSUME ~g'.failed PROVE WrittenUpTo(g'.chunks, 2 * i - 1, i)
    <3>1. WrittenUpTo(g.chunks, 2 * (i - 1), i - 1)
      BY <1>3, <2>3, <2>4 DEF Saver
    <3>2. c = Body(2 * (i - 1) + 1) /\ 2 * (i - 1) \in Nat /\ 2 * (i - 1) + 1 = 2 * i - 1
      <4>1. 2 * (i - 1) \in Nat /\ 2 * (i - 1) + 1 = 2 * i - 1
        BY <1>3
      <4> QED
        BY <1>3, <2>1, <4>1, BodyIs
    <3>3. Written(g.chunks \o <<c>>, 2 * i - 1)
      BY <3>1, <3>2, WrittenMore DEF WrittenUpTo, Saver
    <3>4. \A j \in 1..i : Writable(anim.frames[j])
      <4>1. \A j \in 1..i : j \in 1..(i - 1) \/ j = i
        BY <1>3
      <4> QED
        BY <1>6, <3>1, <4>1 DEF WrittenUpTo, Frame
    <3> QED
      BY <2>3, <2>4, <3>1, <3>3, <3>4 DEF WrittenUpTo
  <2>5. ~g'.failed => WrittenUpTo(g.chunks, 2 * i - 1, i)'
    BY <1>1, <1>3, <2>4
  <2>6. held' = Held'
    BY <1>3, <1>6 DEF Held, Saver
  <2>7. (anim \in Animations)' /\ (at \in Places)'
    BY <1>3, <1>6 DEF Saver, Places
  <2>8. /\ (seq \in 0..(2 * Frames))' /\ i' <= Frames'
        /\ seq' = IF i' = 1 THEN 1 ELSE 2 * i' - 2
    BY <1>1, <1>3, <1>6
  <2> QED
    BY <1>1, <1>2, <1>3, <1>4, <1>6, <2>3, <2>5, <2>6, <2>7, <2>8 DEF Saver
<1> QED
  BY <1>5, <1>6 DEF SaveControl

LEMMA DataSaver ==
  ASSUME Saver, SaveData
  PROVE  Saver'
<1>1. Frames' = Frames /\ \A x, n, k : WrittenUpTo(x, n, k)' <=> WrittenUpTo(x, n, k)
  BY AnimKept DEF SaveData
<1>2. \A x : WholeAnim(x)' <=> WholeAnim(x)
  BY AnimKept DEF SaveData
<1>3. /\ at = "data" /\ UNCHANGED anim /\ i \in 1..Frames
      /\ seq = IF i = 1 THEN 1 ELSE 2 * i - 2
      /\ Frames \in Nat
  BY SaveAssumption DEF SaveData, Saver, Frames
<1>5. CASE SaveFails /\ UNCHANGED <<g, seq, i>>
  <2>1. (i \in 1..(Frames + 1))' /\ (seq \in 0..(2 * Frames))'
    BY <1>1, <1>5 DEF Saver
  <2> QED
    BY <1>3, <1>5, <2>1, GivenUp DEF Saver
<1>6. CASE LET piece == [pic |-> Frame.picture, part |-> 1]
           IN  /\ \E fails \in SaveMayFail :
                    PutChunks(<<IF i = 1 THEN FirstData(piece) ELSE LaterData(piece)>>, fails)
               /\ seq' = IF i = 1 THEN seq ELSE seq + 1
               /\ IF g'.failed
                    THEN SaveFails /\ UNCHANGED i
                    ELSE /\ i' = i + 1 /\ at' = "frame" /\ held' = held \ {"idat"}
                         /\ UNCHANGED <<disk, ok, lost>>
  <2> DEFINE c == IF i = 1 THEN FirstData([pic |-> Frame.picture, part |-> 1])
                           ELSE LaterData([pic |-> Frame.picture, part |-> 1])
  <2>1. c = Datum(i)
    BY <1>3 DEF Datum, Piece, Frame, FirstData, LaterData
  <2>2. \E fails \in SaveMayFail : PutChunks(<<c>>, fails)
    BY <1>6
  <2> HIDE DEF c
  <2>3. /\ g' = [chunks |-> g'.chunks, failed |-> g'.failed] /\ g'.failed \in BOOLEAN
        /\ ~g'.failed => ~g.failed /\ g'.chunks = g.chunks \o <<c>>
    BY <2>2, PutChunksIs DEF Saver
  <2>4. seq' = IF i = 1 THEN seq ELSE seq + 1
    BY <1>6
  <2>5. CASE g'.failed
    <3>1. SaveFails /\ UNCHANGED i
      BY <1>6, <2>5
    <3>2. (i \in 1..(Frames + 1))' /\ (seq \in 0..(2 * Frames))'
      BY <1>1, <1>3, <2>4, <3>1
    <3> QED
      BY <1>3, <2>3, <3>1, <3>2, GivenUp
  <2>6. CASE ~g'.failed
    <3>1. i' = i + 1 /\ at' = "frame" /\ held' = held \ {"idat"} /\ UNCHANGED <<disk, ok, lost>>
      BY <1>6, <2>6
    <3>2. WrittenUpTo(g.chunks, 2 * i - 1, i)
      BY <1>3, <2>3, <2>6 DEF Saver
    <3>3. c = Body((2 * i - 1) + 1) /\ 2 * i - 1 \in Nat /\ (2 * i - 1) + 1 = 2 * i
      <4>1. 2 * i - 1 \in Nat /\ (2 * i - 1) + 1 = 2 * i
        BY <1>3
      <4> QED
        BY <1>3, <2>1, <4>1, BodyIs
    <3>4. Written(g.chunks \o <<c>>, 2 * i)
      BY <3>2, <3>3, WrittenMore DEF WrittenUpTo, Saver
    <3>5. WrittenUpTo(g'.chunks, 2 * i, i)
      BY <2>3, <2>6, <3>2, <3>4 DEF WrittenUpTo
    <3>6. WrittenUpTo(g.chunks, 2 * (i - 1), i - 1)'
      <4>1. 2 * (i' - 1) = 2 * i /\ i' - 1 = i
        BY <1>3, <3>1
      <4> QED
        BY <1>1, <3>5, <4>1
    <3>7. held' = Held'
      BY <1>3, <3>1 DEF Held, Saver
    <3>8. (anim \in Animations)' /\ (at \in Places)'
      BY <1>3, <3>1 DEF Saver, Places
    <3>9. /\ (i \in 1..(Frames + 1))' /\ (seq \in 0..(2 * Frames))'
          /\ seq' = IF i' = 1 THEN 0 ELSE 2 * i' - 3
      BY <1>1, <1>3, <2>4, <3>1
    <3> QED
      BY <1>1, <1>2, <1>3, <2>3, <2>6, <3>1, <3>6, <3>7, <3>8, <3>9 DEF Saver
  <2> QED
    BY <2>5, <2>6
<1> QED
  BY <1>5, <1>6 DEF SaveData

LEMMA EndSaver ==
  ASSUME Saver, SaveEnd
  PROVE  Saver'
<1>1. Frames' = Frames /\ \A x, n, k : WrittenUpTo(x, n, k)' <=> WrittenUpTo(x, n, k)
  BY AnimKept DEF SaveEnd
<1>2. \A x : WholeAnim(x)' <=> WholeAnim(x)
  BY AnimKept DEF SaveEnd
<1>3. /\ at = "frame" /\ UNCHANGED <<anim, i, seq>> /\ i = Frames + 1 /\ Frames \in Nat
  <2>1. Frames \in Nat
    BY SaveAssumption DEF Saver, Frames
  <2>2. i \in 1..(Frames + 1) /\ i > Frames
    BY DEF SaveEnd, Saver, Frames
  <2> QED
    BY <2>1, <2>2 DEF SaveEnd
<1>4. (i \in 1..(Frames + 1))' /\ (seq \in 0..(2 * Frames))'
  BY <1>1, <1>3 DEF Saver
<1> DEFINE c == [kind |-> "end"]
<1>5. \E fails \in SaveMayFail : PutChunks(<<c>>, fails)
  BY DEF SaveEnd
<1>6. c = Body(2 * Frames + 1)
  BY <1>3, BodyIs
<1> HIDE DEF c
<1>7. /\ g' = [chunks |-> g'.chunks, failed |-> g'.failed] /\ g'.failed \in BOOLEAN
      /\ ~g'.failed => ~g.failed /\ g'.chunks = g.chunks \o <<c>>
  BY <1>5, PutChunksIs DEF Saver
<1>8. CASE g'.failed
  BY <1>3, <1>4, <1>7, <1>8, GivenUp DEF SaveEnd
<1>9. CASE ~g'.failed
  <2>1. at' = "write" /\ UNCHANGED <<held, disk, ok, lost>>
    BY <1>9 DEF SaveEnd
  <2>2. WrittenUpTo(g.chunks, 2 * Frames, Frames)
    <3>1. 2 * (i - 1) = 2 * Frames /\ i - 1 = Frames
      BY <1>3
    <3> QED
      BY <1>3, <1>7, <1>9, <3>1 DEF Saver
  <2>3. Written(g.chunks \o <<c>>, 2 * Frames + 1)
    <3>1. 2 * Frames \in Nat
      BY <1>3
    <3> QED
      BY <1>6, <2>2, <3>1, WrittenMore DEF WrittenUpTo, Saver
  <2>4. WholeAnim(g'.chunks)
    BY <1>7, <1>9, <2>2, <2>3 DEF WrittenUpTo, WholeAnim
  <2>5. WholeAnim(g.chunks)'
    BY <1>2, <2>4
  <2>6. held' = Held'
    BY <1>3, <2>1 DEF Held, Saver
  <2>7. (anim \in Animations)' /\ (at \in Places)'
    BY <1>3, <2>1 DEF Saver, Places
  <2> QED
    BY <1>1, <1>2, <1>3, <1>4, <1>7, <1>9, <2>1, <2>5, <2>6, <2>7 DEF Saver
<1> QED
  BY <1>8, <1>9

LEMMA WriteSaver ==
  ASSUME Saver, WriteFile
  PROVE  Saver'
<1>1. Frames' = Frames /\ \A x : WholeAnim(x)' <=> WholeAnim(x)
  BY AnimKept DEF WriteFile
<1>2. /\ at = "write" /\ UNCHANGED <<anim, i, g, seq>> /\ at' = "saved" /\ held' = held \ {"g", "idat"}
  BY DEF WriteFile, Leave
<1>3. held' = Held'
  BY <1>2 DEF Saver, Held
<1>4. /\ (anim \in Animations)' /\ (at \in Places)'
      /\ (i \in 1..(Frames + 1))' /\ (seq \in 0..(2 * Frames))'
  BY <1>1, <1>2 DEF Saver, Places
<1>5. /\ WholeAnim(g.chunks) /\ WholeFile(g.chunks) /\ IsSequence(g.chunks)
      /\ \A n \in 1..Len(g.chunks) : NumbersOk(g.chunks[n])
  <2>1. WholeAnim(g.chunks) /\ anim \in Animations
    BY <1>2 DEF Saver
  <2>2. Frames \in Nat \ {0} /\ Written(g.chunks, 2 * Frames + 1)
    BY <2>1, SaveAssumption DEF WholeAnim, WrittenUpTo, Frames
  <2>3. WholeFile(g.chunks)
    BY <2>1, <2>2, WholeIs
  <2> QED
    BY <2>1, <2>2, <2>3, WholeNumbers DEF Written
<1>6. CASE disk' = g.chunks /\ ok' = TRUE /\ UNCHANGED lost
  <2>1. IsSequence(disk)' /\ \A n \in 1..Len(disk') : NumbersOk(disk'[n])
    BY <1>5, <1>6 DEF IsSequence
  <2>2. WholeAnim(disk)'
    BY <1>1, <1>5, <1>6
  <2>3. ok' \in BOOLEAN /\ lost' \in BOOLEAN
    BY <1>6 DEF Saver
  <2> QED
    BY <1>1, <1>2, <1>3, <1>4, <2>1, <2>2, <2>3 DEF Saver
<1>7. CASE UNCHANGED <<disk, ok, lost>>
  BY <1>1, <1>2, <1>3, <1>4, <1>7 DEF Saver
<1>8. ASSUME NEW n \in 0..(Len(g.chunks) - 1), disk' = SubSeq(g.chunks, 1, n),
             ok' \in BOOLEAN, lost' = ok'
      PROVE  Saver'
  <2>1. PICK S : g.chunks \in Seq(S)
    BY <1>5 DEF IsSequence
  <2>2. /\ disk' \in Seq(S) /\ Len(disk') = n
        /\ \A m \in 1..n : disk'[m] = g.chunks[m] /\ m \in 1..Len(g.chunks)
    BY <1>8, <2>1, SubSeqProperties
  <2>3. IsSequence(disk)' /\ \A m \in 1..Len(disk') : NumbersOk(disk'[m])
    BY <1>5, <2>2 DEF IsSequence
  <2>4. ok' \in BOOLEAN /\ lost' \in BOOLEAN /\ ~(ok' /\ ~lost')
    BY <1>8
  <2> QED
    BY <1>1, <1>2, <1>3, <1>4, <2>3, <2>4 DEF Saver
<1> QED
  BY <1>6, <1>7, <1>8 DEF WriteFile

LEMMA SaverStep ==
  ASSUME Saver, SaveNext \/ UNCHANGED saveVars
  PROVE  Saver'
<1>1. CASE UNCHANGED saveVars
  <2>1. UNCHANGED <<anim, at, i, g, seq, held, disk, ok, lost>>
    BY <1>1 DEF saveVars
  <2>2. /\ Frames' = Frames /\ (\A x : WholeAnim(x)' <=> WholeAnim(x))
        /\ \A x, n, k : WrittenUpTo(x, n, k)' <=> WrittenUpTo(x, n, k)
    BY <2>1, AnimKept
  <2>3. Held' = Held
    BY <2>1 DEF Held
  <2> QED
    BY <2>1, <2>2, <2>3 DEF Saver
<1> QED
  BY <1>1, HeadSaver, ControlSaver, EncodeSaver, DataSaver, EndSaver, WriteSaver DEF SaveNext

\* What the invariant of the saver is for.
LEMMA SaverGives ==
  ASSUME Saver
  PROVE  SaveInv /\ SavedFilesAreValid
<1>1. SaveInv
  <2>1. i \in 1..(Len(anim.frames) + 1) /\ seq \in 0..(2 * Len(anim.frames))
    BY DEF Saver, Frames
  <2>2. held \subseteq {"g", "idat"}
    BY DEF Saver, Held
  <2>3. SaveTypeOK
    BY <2>1, <2>2 DEF SaveTypeOK, Saver, Places
  <2> QED
    BY <2>3 DEF SaveInv, Saver, Held, Places
<1>2. SavedFilesAreValid
  <2>1. ASSUME RecordsPreserved, ok, ~lost
        PROVE  /\ ValidApng(disk)
               /\ Those(disk, ColourAt(disk)) = Ancillary(ColourGroup)
               /\ Those(disk, PlainAt(disk)) = Ancillary(PlainGroup)
    <3>1. WholeAnim(disk) /\ anim \in Animations /\ IsSequence(disk)
      BY <2>1 DEF Saver
    <3>2. Frames \in Nat \ {0} /\ Written(disk, 2 * Frames + 1)
      BY <3>1, SaveAssumption DEF WholeAnim, WrittenUpTo, Frames
    <3>3. WholeFile(disk)
      BY <3>1, <3>2, WholeIs
    <3> QED
      BY <2>1, <3>1, <3>3, WholeValid, WholeGroups
  <2> QED
    BY <2>1, SavedFilesAre DEF ColourGroup, PlainGroup
<1> QED
  BY <1>1, <1>2

------------------------------------------------------------------------------
(* Saving and loading.                                                       *)

\* A chunk of a file that can be read keeps the first pass going up to its end.
LEMMA ChunkGoes ==
  ASSUME NEW c, Take(c)
  PROVE  /\ loaded' = loaded /\ (starved => starved')
         /\ c.kind = "end" => pc' = "check"
         /\ (c.kind # "end" /\ ~starved' /\ ~(c.kind = "fdAT" /\ fctls = <<>>)) => pc' = "walk"
<1>1. pc = "walk" /\ ReadChunk(c)
  BY TakeReads DEF Take
<1>2. CASE ReadHeader(c) \/ ReadActl(c) \/ ReadPlte(c) \/ ReadTrns(c) \/ ReadOther(c)
  <2>1. UNCHANGED <<pc, loaded, starved>> /\ c.kind # "end"
    BY <1>2 DEF ReadHeader, ReadActl, ReadPlte, ReadTrns, ReadOther, drawVars
  <2> QED
    BY <1>1, <2>1
<1>3. CASE ReadEnd(c)
  <2>1. pc' = "check" /\ UNCHANGED <<loaded, starved>> /\ c.kind = "end"
    BY <1>3 DEF ReadEnd, drawVars
  <2> QED
    BY <2>1
<1>4. CASE ReadFctl(c)
  <2>1. PICK oom \in OutOfMemory :
          /\ starved' = (starved \/ oom)
          /\ IF oom THEN Fail({}) ELSE UNCHANGED <<pc, drawVars>>
    BY <1>4 DEF ReadFctl
  <2>2. loaded' = loaded /\ c.kind = "fcTL"
    BY <1>4, <2>1 DEF Fail, drawVars, ReadFctl
  <2>3. (starved => starved') /\ (oom => starved')
    BY <2>1
  <2>4. ~oom => pc' = pc
    BY <2>1
  <2> QED
    BY <1>1, <2>2, <2>3, <2>4
<1>5. CASE ReadIdat(c)
  <2>1. PICK oom \in OutOfMemory : starved' = (starved \/ oom)
    BY <1>5 DEF ReadIdat
  <2>2. UNCHANGED <<pc, loaded>> /\ c.kind = "IDAT"
    BY <1>5 DEF ReadIdat, drawVars
  <2>3. starved => starved'
    BY <2>1
  <2> QED
    BY <1>1, <2>2, <2>3
<1>6. CASE ReadFdat(c)
  <2>1. CASE fctls = <<>>
    <3>1. UNCHANGED <<loaded, starved>> /\ c.kind = "fdAT"
      BY <1>6, <2>1 DEF ReadFdat, Fail, drawVars
    <3> QED
      BY <2>1, <3>1
  <2>2. CASE fctls # <<>>
    <3>1. PICK oom \in OutOfMemory : starved' = (starved \/ oom)
      BY <1>6, <2>2 DEF ReadFdat
    <3>2. UNCHANGED <<pc, loaded>> /\ c.kind = "fdAT"
      BY <1>6, <2>2 DEF ReadFdat, drawVars
    <3>3. starved => starved'
      BY <3>1
    <3> QED
      BY <1>1, <3>2, <3>3
  <2> QED
    BY <2>1, <2>2
<1> QED
  BY <1>1, <1>2, <1>3, <1>4, <1>5, <1>6 DEF ReadChunk

\* Behind the end no chunk is read.
LEMMA StepGoes ==
  ASSUME LoadStep
  PROVE  pc \notin {"walk", "done"} /\ pc' # "walk" /\ (starved => starved')
<1>1. CASE CheckCanvas
  BY <1>1 DEF CheckCanvas, Fail
<1>2. CASE LoadStill
  <2>1. pc = "still" /\ pc' = "done"
    BY <1>2 DEF LoadStill, Fail, Return
  <2>2. starved => starved'
    <3>1. CASE UNCHANGED starved \/ starved' = TRUE
      BY <3>1
    <3>2. CASE TakeMetadata
      <4>1. PICK x : starved' = (starved \/ x)
        BY <3>2 DEF TakeMetadata
      <4> QED
        BY <4>1
    <3> QED
      BY <1>2, <3>1, <3>2 DEF LoadStill
  <2> QED
    BY <2>1, <2>2
<1>3. CASE AllocateCanvas
  <2>1. pc = "canvas" /\ pc' \in {"compose", "done"}
    BY <1>3 DEF AllocateCanvas, Fail
  <2>2. PICK x : starved' = (starved \/ x)
    BY <1>3 DEF AllocateCanvas
  <2>3. starved => starved'
    BY <2>2
  <2> QED
    BY <2>1, <2>3
<1>4. CASE Compose
  <2>1. pc = "compose" /\ pc' \in {"compose", "done"}
    BY <1>4 DEF Compose, Fail
  <2>2. UNCHANGED starved \/ starved' = TRUE
    BY <1>4 DEF Compose
  <2> QED
    BY <2>1, <2>2
<1>5. CASE ReturnFrames
  <2>1. pc = "compose" /\ pc' = "done" /\ TakeMetadata
    BY <1>5 DEF ReturnFrames, Return
  <2>2. PICK x : starved' = (starved \/ x)
    BY <2>1 DEF TakeMetadata
  <2>3. starved => starved'
    BY <2>2
  <2> QED
    BY <2>1, <2>3
<1> QED
  BY <1>1, <1>2, <1>3, <1>4, <1>5 DEF LoadStep

\* The loader has read a saved file up to some place, or all of it.
ReadUpTo ==
  /\ Len(file) <= Len(disk)
  /\ \A n \in 1..Len(file) : file[n] = disk[n]
  /\ pc = "walk" => Len(file) < Len(disk)
  /\ pc # "walk" => Len(file) = Len(disk)

\* Loader and saver at once: while one runs the other waits, and what is loaded after a
\* successful save is what is on disk, read up to the chunk the loader stands at; unless
\* a record of the metadata is an end that comes early.
Trip ==
  /\ Loader /\ Saver
  /\ at \notin {"foreign", "saved"} => pc = "walk" /\ file = <<>>
  /\ (RecordsPreserved /\ at = "saved" /\ ok /\ ~lost /\ ~starved) => ReadUpTo
  /\ (pc = "done" /\ loaded) => Len(fctls) = Cardinality(Positions("fcTL"))

\* What is on disk after a success is a whole file.
LEMMA SavedIsWhole ==
  ASSUME Saver, ok, ~lost
  PROVE  WholeFile(disk) /\ Len(disk) \in Nat \ {0} /\ anim \in Animations
<1>1. WholeAnim(disk) /\ anim \in Animations
  BY DEF Saver
<1>2. Frames \in Nat \ {0} /\ Written(disk, 2 * Frames + 1)
  BY <1>1, SaveAssumption DEF WholeAnim, WrittenUpTo, Frames
<1>3. WholeFile(disk)
  BY <1>1, <1>2, WholeIs
<1>4. Len(disk) \in Nat \ {0}
  BY <1>3 DEF WholeFile
<1> QED
  BY <1>1, <1>3, <1>4

LEMMA TripInit ==
  ASSUME RoundTripInit
  PROVE  Trip
<1>1. Loader /\ Saver
  BY LoaderInit, SaverInit DEF RoundTripInit
<1>2. pc = "walk" /\ file = <<>> /\ ok = FALSE
  BY DEF RoundTripInit, Init, SaveInit
<1> QED
  BY <1>1, <1>2 DEF Trip

\* The controls of a loaded file have been counted.
LEMMA CountedStep ==
  ASSUME Trip, AnyChunk \/ LoadStep \/ UNCHANGED vars, pc' = "done", loaded'
  PROVE  Len(fctls') = Cardinality(Positions("fcTL"))'
<1>1. CASE AnyChunk
  <2>1. PICK c : Take(c)
    BY <1>1 DEF AnyChunk
  <2>2. pc = "walk" /\ loaded' = loaded
    BY <2>1, TakeReads, ChunkGoes
  <2> QED
    BY <2>2 DEF Trip, Loader, Typed
<1>2. CASE LoadStep
  <2>1. pc # "done" /\ UNCHANGED <<file, fctls>>
    BY <1>2, StepGoes, LoadStepKeepsFile
  <2>2. Positions("fcTL")' = Positions("fcTL")
    BY <2>1 DEF Positions
  <2>3. Len(fctls) = Cardinality(Positions("fcTL"))
    BY <2>1 DEF Trip, Loader, Reading, ControlsRead
  <2> QED
    BY <2>1, <2>2, <2>3
<1>3. CASE UNCHANGED vars
  <2>1. UNCHANGED <<pc, loaded, file, fctls>>
    BY <1>3 DEF vars, frameVars, drawVars
  <2>2. Positions("fcTL")' = Positions("fcTL")
    BY <2>1 DEF Positions
  <2> QED
    BY <2>1, <2>2 DEF Trip
<1> QED
  BY <1>1, <1>2, <1>3

\* A chunk of a saved file.
LEMMA SavedChunk ==
  ASSUME Trip, RecordsPreserved, at = "saved", ok, ~lost, Take(NextOnDisk), ~starved',
         UNCHANGED disk
  PROVE  ReadUpTo'
<1> DEFINE c == NextOnDisk
           e == Len(file) + 1
<1>1. /\ pc = "walk" /\ file' = Append(file, c) /\ IsSequence(file)
      /\ loaded' = loaded /\ (starved => starved')
      /\ c.kind = "end" => pc' = "check"
      /\ (c.kind # "end" /\ ~starved' /\ ~(c.kind = "fdAT" /\ fctls = <<>>)) => pc' = "walk"
  BY TakeReads, ChunkGoes DEF Trip, Loader, FileOk
<1>2. /\ Len(file) < Len(disk) /\ \A n \in 1..Len(file) : file[n] = disk[n]
  BY <1>1 DEF Trip, ReadUpTo
<1>3. c = disk[e]
  BY <1>2 DEF NextOnDisk
<1> HIDE DEF c
<1>4. WholeFile(disk) /\ Len(disk) \in Nat \ {0} /\ anim \in Animations
  BY SavedIsWhole DEF Trip
<1>5. /\ IsSequence(file') /\ Len(file) \in Nat /\ Len(file') = e /\ file'[e] = c
      /\ \A n \in 1..Len(file) : file'[n] = file[n]
  BY <1>1, FileGrows
<1>6. e \in 1..Len(disk)
  BY <1>2, <1>4, <1>5
<1>7. c.kind = "end" <=> e = Len(disk)
  BY <1>3, <1>4, <1>6, KindsAre DEF Kinds
<1>8. ~(c.kind = "fdAT" /\ fctls = <<>>)
  <2> SUFFICES ASSUME c.kind = "fdAT", fctls = <<>> PROVE FALSE
    OBVIOUS
  <2>1. PICK k \in 2..Frames : e = Ahead + 2 * k
    BY <1>3, <1>4, <1>6, KindsAre DEF Kinds
  <2>2. Frames \in Nat \ {0} /\ Ahead \in Nat
    BY <1>4 DEF WholeFile
  <2>3. Ahead + 1 \in 1..Len(file) /\ Ahead + 2 * 1 - 1 = Ahead + 1 /\ 1 \in 1..Frames
    BY <1>5, <2>1, <2>2
  <2>4. disk[Ahead + 1] = Control(1)
    BY <1>4, <2>3 DEF WholeFile
  <2>5. file[Ahead + 1].kind = "fcTL"
    BY <1>2, <2>3, <2>4 DEF Control
  <2>6. Ahead + 1 \in Positions("fcTL")
    BY <2>3, <2>5 DEF Positions
  <2>7. Len(fctls) = Cardinality(Positions("fcTL"))
    BY <1>1 DEF Trip, Loader, Reading, ControlsRead
  <2>8. Cardinality(Positions("fcTL")) # 0
    BY <1>1, <2>6, PositionsAre, FS_EmptySet
  <2> QED
    BY <2>7, <2>8
<1>9. \A n \in 1..e : file'[n] = disk[n]
  <2>1. \A n \in 1..e : n \in 1..Len(file) \/ n = e
    BY <1>5
  <2> QED
    BY <1>2, <1>3, <1>5, <2>1
<1>10. CASE e = Len(disk)
  <2>1. pc' = "check"
    BY <1>1, <1>7, <1>10
  <2> QED
    BY <1>5, <1>4, <1>9, <1>10, <2>1 DEF ReadUpTo
<1>11. CASE e # Len(disk)
  <2>1. pc' = "walk" /\ e < Len(disk)
    BY <1>1, <1>4, <1>6, <1>7, <1>8, <1>11
  <2> QED
    BY <1>5, <1>4, <1>9, <2>1 DEF ReadUpTo
<1> QED
  BY <1>10, <1>11

\* The invariant survives every step of the two.
LEMMA TripStep ==
  ASSUME Trip, RoundTripNext \/ UNCHANGED <<vars, saveVars>>
  PROVE  Trip'
<1>1. CASE UNCHANGED <<vars, saveVars>>
  <2>1. Loader' /\ Saver'
    BY <1>1, LoaderStep, SaverStep DEF Trip
  <2>2. /\ UNCHANGED <<pc, file, fctls, loaded, starved, at, ok, lost, disk>>
        /\ RecordsPreserved' <=> RecordsPreserved
    BY <1>1, AnimKept DEF vars, saveVars, frameVars, drawVars
  <2>3. (pc' = "done" /\ loaded') => Len(fctls') = Cardinality(Positions("fcTL"))'
    BY <1>1, CountedStep
  <2> QED
    BY <2>1, <2>2, <2>3 DEF Trip, ReadUpTo
<1>2. CASE SaveFirst
  <2>1. SaveNext /\ UNCHANGED vars
    BY <1>2 DEF SaveFirst
  <2>2. Loader' /\ Saver'
    BY <2>1, LoaderStep, SaverStep DEF Trip
  <2>3. UNCHANGED <<pc, file, fctls, loaded, starved>>
    BY <2>1 DEF vars, frameVars, drawVars
  <2>4. at \notin {"foreign", "saved"}
    BY <2>1 DEF SaveNext, SaveHead, SaveControl, EncodeFrame, SaveData, SaveEnd, WriteFile
  <2>5. pc = "walk" /\ file = <<>>
    BY <2>4 DEF Trip
  <2>6. (pc' = "done" /\ loaded') => Len(fctls') = Cardinality(Positions("fcTL"))'
    BY <2>3, <2>5
  <2>7. (ok' /\ ~lost') => Len(disk') \in Nat \ {0}
    <3>1. UNCHANGED anim
      BY <2>1 DEF SaveNext, SaveHead, SaveControl, EncodeFrame, SaveData, SaveEnd, WriteFile
    <3>2. ASSUME ok', ~lost' PROVE WholeAnim(disk')
      BY <2>2, <3>1, <3>2, AnimKept DEF Saver
    <3>3. Frames \in Nat /\ Ahead \in Nat
      BY SaveAssumption, WrittenNothing DEF Trip, Saver, Frames
    <3> QED
      BY <3>2, <3>3 DEF WholeAnim, WrittenUpTo, Written
  <2>8. (ok' /\ ~lost') => ReadUpTo'
    BY <2>3, <2>5, <2>7 DEF ReadUpTo
  <2> QED
    BY <2>2, <2>3, <2>5, <2>6, <2>8 DEF Trip
<1>3. CASE LoadForeign
  <2>1. PICK c \in FileChunks : ReadChunk(c)
    BY <1>3 DEF LoadForeign
  <2>2. AnyChunk
    BY <2>1, ApngAssumption DEF AnyChunk, Take
  <2>3. at = "foreign" /\ UNCHANGED saveVars
    BY <1>3 DEF LoadForeign
  <2>4. Loader' /\ Saver'
    BY <2>2, <2>3, LoaderStep, SaverStep DEF Trip
  <2>5. at' = "foreign"
    BY <2>3 DEF saveVars
  <2>6. (pc' = "done" /\ loaded') => Len(fctls') = Cardinality(Positions("fcTL"))'
    BY <2>2, CountedStep
  <2> QED
    BY <2>4, <2>5, <2>6 DEF Trip
<1>4. CASE LoadSaved
  <2>1. at = "saved" /\ ReadChunk(NextOnDisk) /\ UNCHANGED saveVars
    BY <1>4 DEF LoadSaved
  <2>2. Take(NextOnDisk)
    <3>1. CASE Len(file) < Len(disk)
      <4>1. NextOnDisk = disk[Len(file) + 1]
        BY <3>1 DEF NextOnDisk
      <4>2. Len(file) + 1 \in 1..Len(disk)
        <5>1. Len(file) \in Nat /\ Len(disk) \in Nat
          BY NoneIsEmpty DEF Trip, Loader, FileOk, Saver
        <5> QED
          BY <3>1, <5>1
      <4> QED
        BY <2>1, <4>1, <4>2 DEF Take, Trip, Saver
    <3>2. CASE ~(Len(file) < Len(disk))
      BY <2>1, <3>2 DEF Take, NextOnDisk, NumbersOk
    <3> QED
      BY <3>1, <3>2
  <2>3. AnyChunk
    BY <2>2 DEF AnyChunk
  <2>4. Loader' /\ Saver'
    BY <2>1, <2>3, LoaderStep, SaverStep DEF Trip
  <2>5. UNCHANGED <<at, ok, lost, disk>> /\ (RecordsPreserved' <=> RecordsPreserved)
    BY <2>1, AnimKept DEF saveVars
  <2>6. (pc' = "done" /\ loaded') => Len(fctls') = Cardinality(Positions("fcTL"))'
    BY <2>3, CountedStep
  <2>7. (RecordsPreserved' /\ at' = "saved" /\ ok' /\ ~lost' /\ ~starved') => ReadUpTo'
    BY <2>1, <2>2, <2>5, SavedChunk
  <2> QED
    BY <2>1, <2>4, <2>5, <2>6, <2>7 DEF Trip
<1>5. CASE LoadOn
  <2>1. LoadStep /\ UNCHANGED saveVars
    BY <1>5 DEF LoadOn
  <2>2. Loader' /\ Saver'
    BY <2>1, LoaderStep, SaverStep DEF Trip
  <2>3. UNCHANGED <<at, ok, lost, disk, file>> /\ (RecordsPreserved' <=> RecordsPreserved)
    BY <2>1, LoadStepKeepsFile, AnimKept DEF saveVars
  <2>4. pc \notin {"walk", "done"} /\ pc' # "walk" /\ (starved => starved')
    BY <2>1, StepGoes
  <2>5. at \in {"foreign", "saved"}
    BY <2>4 DEF Trip
  <2>6. (pc' = "done" /\ loaded') => Len(fctls') = Cardinality(Positions("fcTL"))'
    BY <2>1, CountedStep
  <2>7. (RecordsPreserved' /\ at' = "saved" /\ ok' /\ ~lost' /\ ~starved') => ReadUpTo'
    BY <2>3, <2>4 DEF Trip, ReadUpTo
  <2> QED
    BY <2>2, <2>3, <2>5, <2>6, <2>7 DEF Trip
<1> QED
  BY <1>1, <1>2, <1>3, <1>4, <1>5 DEF RoundTripNext

\* The data of one chunk.
LEMMA OnePiece ==
  ASSUME NEW e \in Nat
  PROVE  Len(PiecesAt({e})) = 1 /\ PiecesAt({e})[1] = file[e].piece /\ PiecesAt({e}) # <<>>
<1>1. IsFiniteSet({e}) /\ Cardinality({e}) = 1 /\ {e} \in SUBSET Nat
  BY FS_Singleton
<1>2. Nth({e}, 1) \in {e}
  BY <1>1, NthWorks
<1>3. Those(file, {e}) = [n \in 1..1 |-> file[e]]
  BY <1>1, <1>2 DEF Those
<1>4. PiecesAt({e}) = [n \in 1..1 |-> file[e].piece]
  <2>1. DOMAIN [n \in 1..1 |-> file[e]] = 1..1
    OBVIOUS
  <2> QED
    BY <1>3, <2>1 DEF PiecesAt
<1> DEFINE x == [n \in 1..1 |-> file[e].piece]
<1>5. (\E T : x \in Seq(T)) /\ Len(x) = 1
  <2> DEFINE b == [n \in {1} |-> file[e].piece]
  <2>1. x = [n \in 1..1 |-> b[n]]
    OBVIOUS
  <2> HIDE DEF b, x
  <2> QED
    BY <2>1, SeqIs
<1>6. IsSequence(x)
  BY <1>5 DEF IsSequence
<1>7. x # <<>> /\ x[1] = file[e].piece
  <2>1. x[1] = file[e].piece
    OBVIOUS
  <2> HIDE DEF x
  <2>2. x = <<>> => Len(x) = 0
    BY <1>6, NoneIsEmpty
  <2>3. x # <<>>
    BY <1>5, <2>2
  <2> QED
    BY <2>1, <2>3
<1> QED
  BY <1>4, <1>5, <1>7

\* The file that is read is whole, and no record of metadata has a meaning of its own.
WholeRead ==
  /\ anim \in Animations /\ RecordsPreserved /\ WholeFile(file) /\ IsSequence(file)
  /\ \A j \in 1..Frames : Writable(anim.frames[j])

\* A load of a saved file that had the memory for it has read it to its end.
LEMMA WhatIsRead ==
  ASSUME Trip, RecordsPreserved, pc = "done", ~starved, ok, ~lost
  PROVE  WholeRead
<1>1. at = "saved"
  BY DEF Trip, Saver
<1>2. ReadUpTo
  BY <1>1 DEF Trip
<1>3. Len(file) = Len(disk) /\ \A n \in 1..Len(disk) : file[n] = disk[n]
  BY <1>2 DEF ReadUpTo
<1>4. WholeFile(disk) /\ anim \in Animations
  BY SavedIsWhole DEF Trip
<1>5. WholeFile(file)
  <2>1. /\ Frames \in Nat \ {0} /\ Len(Middle) \in Nat
        /\ Ahead \in Nat /\ Ahead = Len(Middle) + 2 /\ Len(disk) = Ahead + 2 * Frames + 1
    BY <1>4 DEF WholeFile
  <2>2. /\ 1 \in 1..Len(disk) /\ Ahead \in 1..Len(disk) /\ Len(disk) \in 1..Len(disk)
        /\ \A n \in 1..Len(Middle) : n + 1 \in 1..Len(disk)
        /\ \A k \in 1..Frames : Ahead + 2 * k - 1 \in 1..Len(disk) /\ Ahead + 2 * k \in 1..Len(disk)
    BY <2>1
  <2> QED
    BY <1>3, <1>4, <2>1, <2>2 DEF WholeFile
<1>6. WholeAnim(disk)
  BY DEF Trip, Saver
<1> QED
  BY <1>4, <1>5, <1>6 DEF WholeRead, WholeAnim, WrittenUpTo, Trip, Loader, FileOk

\* Where such a file has what.
LEMMA WholePositions ==
  ASSUME WholeRead
  PROVE  /\ Frames \in Nat \ {0} /\ Ahead \in Nat /\ Len(file) = Ahead + 2 * Frames + 1
         /\ Positions("IHDR") = {1} /\ Positions("acTL") = {Ahead}
         /\ Positions("IDAT") = {Ahead + 2}
         /\ \A n \in 1..Len(file) :
              n \in Positions("fdAT") <=> \E k \in 2..Frames : n = Ahead + 2 * k
         /\ Positions("fdAT") \subseteq 1..Len(file)
         /\ Cardinality(Positions("fcTL")) = Frames
         /\ \A k \in 1..Frames : ControlAt(k) = Ahead + 2 * k - 1
<1>1. anim \in Animations /\ RecordsPreserved /\ WholeFile(file)
  BY DEF WholeRead
<1>2. /\ Frames \in Nat \ {0} /\ Ahead \in Nat /\ Len(file) = Ahead + 2 * Frames + 1
  BY <1>1 DEF WholeFile
<1>3. Kinds(file)
  BY <1>1, KindsAre
<1>4. /\ Positions("IHDR") = {1} /\ Positions("acTL") = {Ahead}
      /\ Positions("IDAT") = {Ahead + 2}
  <2>1. 1 \in 1..Len(file) /\ Ahead \in 1..Len(file) /\ Ahead + 2 \in 1..Len(file)
    BY <1>1, <1>2 DEF WholeFile
  <2> QED
    BY <1>3, <2>1 DEF Kinds, Positions
<1>5. /\ \A n \in 1..Len(file) :
           n \in Positions("fdAT") <=> \E k \in 2..Frames : n = Ahead + 2 * k
      /\ Positions("fdAT") \subseteq 1..Len(file)
  BY <1>3 DEF Kinds, Positions
<1>6. Positions("fcTL") = { n \in 1..Len(file) : file[n].kind = "fcTL" }
  BY DEF Positions
<1>7. /\ Cardinality(Positions("fcTL")) = Frames
      /\ \A k \in 1..Frames : Nth(Positions("fcTL"), k) = Ahead + 2 * k - 1
  BY <1>1, <1>6, ControlPlaces
<1> QED
  BY <1>2, <1>4, <1>5, <1>7 DEF ControlAt

\* Each of its frames has the chunk behind its control,
LEMMA WholeData ==
  ASSUME WholeRead, NEW k \in 1..Frames
  PROVE  DataChunks(k) = {Ahead + 2 * k}
<1>1. /\ Frames \in Nat \ {0} /\ Ahead \in Nat /\ Len(file) = Ahead + 2 * Frames + 1
      /\ Positions("IDAT") = {Ahead + 2}
      /\ \A n \in 1..Len(file) :
              n \in Positions("fdAT") <=> \E j \in 2..Frames : n = Ahead + 2 * j
      /\ Positions("fdAT") \subseteq 1..Len(file)
      /\ Cardinality(Positions("fcTL")) = Frames
      /\ \A j \in 1..Frames : ControlAt(j) = Ahead + 2 * j - 1
  BY WholePositions
<1>2. CASE k = 1
  <2>1. \A n \in Positions("IDAT") : ControlAt(k) < n
    BY <1>1, <1>2
  <2>2. DataChunks(k) = Positions("IDAT")
    BY <1>2, <2>1 DEF DataChunks
  <2> QED
    BY <1>1, <1>2, <2>2
<1>3. CASE k # 1
  <2> DEFINE last == IF k < Frames THEN Ahead + 2 * k + 1 ELSE Len(file)
  <2>1. DataChunks(k) = Positions("fdAT") \cap ((Ahead + 2 * k - 1)..last)
    <3>1. k < Frames => k + 1 \in 1..Frames /\ Ahead + 2 * (k + 1) - 1 = Ahead + 2 * k + 1
      BY <1>1
    <3>2. k < Frames => ControlAt(k + 1) = Ahead + 2 * k + 1
      BY <1>1, <3>1
    <3> QED
      BY <1>1, <1>3, <3>2 DEF DataChunks
  <2>2. Ahead + 2 * k \in Positions("fdAT")
    <3>1. k \in 2..Frames /\ Ahead + 2 * k \in 1..Len(file)
      BY <1>1, <1>3
    <3> QED
      BY <1>1, <3>1
  <2>3. Ahead + 2 * k \in (Ahead + 2 * k - 1)..last
    BY <1>1
  <2>4. ASSUME NEW n \in Positions("fdAT"), n \in (Ahead + 2 * k - 1)..last
        PROVE  n = Ahead + 2 * k
    <3>1. PICK j \in 2..Frames : n = Ahead + 2 * j
      BY <1>1
    <3>2. Ahead + 2 * k - 1 <= Ahead + 2 * j /\ Ahead + 2 * j <= last
      BY <1>1, <2>4, <3>1
    <3>3. k <= j
      BY <1>1, <3>2
    <3>4. j <= k
      BY <1>1, <3>2
    <3>5. j = k
      BY <3>3, <3>4
    <3> QED
      BY <3>1, <3>5
  <2> HIDE DEF last
  <2> QED
    BY <2>1, <2>2, <2>3, <2>4
<1> QED
  BY <1>2, <1>3

\* lies within the canvas and decodes,
LEMMA WholeFrame ==
  ASSUME WholeRead, anim.size = "canvas", NEW k \in 1..Frames
  PROVE  /\ file[ControlAt(k)] = Control(k) /\ FrameShows(k)
         /\ AreaOf(Control(k)) = Pixels
         /\ PiecesOf(k)[1] = Piece(k)
<1>1. /\ Frames \in Nat \ {0} /\ Ahead \in Nat /\ ControlAt(k) = Ahead + 2 * k - 1
  BY WholePositions
<1>2. /\ file[Ahead + 2 * k - 1] = Control(k) /\ file[Ahead + 2 * k] = Datum(k)
      /\ anim \in Animations
  BY DEF WholeRead, WholeFile
<1>3. PiecesOf(k) = PiecesAt({Ahead + 2 * k})
  BY WholeData DEF PiecesOf
<1>4. Ahead + 2 * k \in Nat
  BY <1>1
<1>5. Len(PiecesOf(k)) = 1 /\ PiecesOf(k)[1] = Datum(k).piece /\ PiecesOf(k) # <<>>
  BY <1>2, <1>3, <1>4, OnePiece
<1>6. Datum(k).piece = Piece(k)
  BY DEF Datum
<1>7. k \in 1..Len(anim.frames) /\ Writable(anim.frames[k])
  BY DEF WholeRead, Frames
<1>8. /\ anim.w = Width /\ anim.h = Height
      /\ anim.frames[k].picture.w = anim.w /\ anim.frames[k].picture.h = anim.h
      /\ anim.frames[k].picture.parts = 1
  BY <1>2, <1>7, RoundTripAssumption
<1>9. Control(k).x = 0 /\ Control(k).y = 0 /\ Control(k).w = Width /\ Control(k).h = Height
  BY <1>8 DEF Control
<1>10. AreaOf(Control(k)) = Pixels
  <2>1. 0 + Width - 1 = Width - 1 /\ 0 + Height - 1 = Height - 1
    BY ApngAssumption
  <2> QED
    BY <1>9, <2>1 DEF AreaOf, Pixels
<1>11. Pixels # {}
  <2>1. 0 \in 0..(Width - 1) /\ 0 \in 0..(Height - 1)
    BY ApngAssumption
  <2>2. <<0, 0>> \in Pixels
    BY <2>1 DEF Pixels
  <2> QED
    BY <2>2
<1>12. Whole(PiecesOf(k), Width, Height)
  <2>1. Piece(k).pic = anim.frames[k].picture /\ Piece(k) = [pic |-> anim.frames[k].picture, part |-> 1]
    BY DEF Piece
  <2>2. IsWhole(PiecesOf(k), anim.frames[k].picture)
    <3>1. \A n \in 1..1 : n = 1
      OBVIOUS
    <3> QED
      BY <1>5, <1>6, <1>8, <2>1, <3>1 DEF IsWhole
  <2> QED
    BY <1>5, <1>6, <1>8, <2>1, <2>2 DEF Whole
<1> QED
  BY <1>1, <1>2, <1>5, <1>6, <1>9, <1>10, <1>11, <1>12 DEF FrameShows

\* and its samples mean what those of the animation do,
LEMMA WholeSamples ==
  ASSUME WholeRead
  PROVE  /\ Max(Positions("IHDR")) = 1 /\ Color = SavedColor /\ ~Keyed
         /\ \A x : MeantSample(x) = SavedSample(x)
<1>1. Positions("IHDR") = {1}
  BY WholePositions
<1>2. Max(Positions("IHDR")) = 1
  <2>1. Positions("IHDR") \in SUBSET Int /\ 1 \in Positions("IHDR") /\ \A n \in Positions("IHDR") : n <= 1
    BY <1>1
  <2> QED
    BY <2>1, MaxIs
<1>3. file[1].color = SavedColor
  BY DEF WholeRead, WholeFile
<1>4. Color = SavedColor
  BY <1>1, <1>2, <1>3 DEF Color
<1>5. Color = "indexed" \/ Color = "alpha"
  BY <1>4 DEF SavedColor
<1>6. Color = "indexed" <=> Indexed
  BY <1>4 DEF SavedColor
<1>7. Positions("tRNS") # {} <=> Indexed /\ anim.alpha
  <2>1. (\E n \in 1..Len(file) : file[n].kind = "tRNS") <=> Indexed /\ anim.alpha
    BY WholeGroups DEF WholeRead
  <2> QED
    BY <2>1 DEF Positions
<1> QED
  BY <1>2, <1>4, <1>5, <1>6, <1>7 DEF Keyed, MeantSample, SavedSample

\* so that the file can be shown.
LEMMA WholeShowable ==
  ASSUME WholeRead, anim.size = "canvas"
  PROVE  Showable
<1>1. /\ Frames \in Nat \ {0} /\ Ahead \in Nat /\ Len(file) = Ahead + 2 * Frames + 1
      /\ Positions("IHDR") = {1}
      /\ \A n \in 1..Len(file) :
              n \in Positions("fdAT") <=> \E j \in 2..Frames : n = Ahead + 2 * j
      /\ Positions("fdAT") \subseteq 1..Len(file)
      /\ Cardinality(Positions("fcTL")) = Frames
      /\ \A j \in 1..Frames : ControlAt(j) = Ahead + 2 * j - 1
  BY WholePositions
<1>2. Max(Positions("IHDR")) = 1 /\ Color = SavedColor
  BY WholeSamples
<1>3. file[1] = [kind |-> "IHDR", size |-> anim.size, color |-> SavedColor] /\ WholeFile(file)
      /\ anim \in Animations
  BY DEF WholeRead, WholeFile
<1>4. file[1].size = "canvas" /\ file[1].color = Color
  BY <1>2, <1>3
<1>5. Color = "indexed" => Positions("PLTE") # {}
  <2>1. ValidApng(file)
    BY <1>3, WholeValid DEF WholeRead
  <2>2. OfKind(file, {"PLTE"}) = Positions("PLTE")
    BY DEF OfKind, Positions
  <2> QED
    BY <1>4, <2>1, <2>2 DEF ValidApng
<1>6. \A n \in Positions("fdAT") : \E j \in Positions("fcTL") : j < n
  <2> SUFFICES ASSUME NEW n \in Positions("fdAT") PROVE \E j \in Positions("fcTL") : j < n
    OBVIOUS
  <2>1. PICK k \in 2..Frames : n = Ahead + 2 * k
    BY <1>1
  <2>2. 1 \in 1..Cardinality(Positions("fcTL")) /\ IsSequence(file)
    BY <1>1 DEF WholeRead
  <2>3. ControlAt(1) \in Positions("fcTL")
    BY <2>2, ControlsAre
  <2>4. ControlAt(1) = Ahead + 1
    <3>1. 1 \in 1..Frames /\ Ahead + 2 * 1 - 1 = Ahead + 1
      BY <1>1
    <3> QED
      BY <1>1, <3>1
  <2>5. Ahead + 1 < n
    BY <1>1, <2>1
  <2> QED
    BY <2>3, <2>4, <2>5
<1>7. \A k \in 1..Cardinality(Positions("fcTL")) : FrameShows(k)
  BY <1>1, WholeFrame
<1>8. Positions("fcTL") # {}
  BY <1>1, FS_EmptySet
<1> QED
  BY <1>1, <1>2, <1>4, <1>5, <1>6, <1>7, <1>8 DEF Showable, FrameShows, Whole

\* A frame that covers the canvas and replaces what is below is what is shown.
LEMMA FrameBack ==
  ASSUME WholeRead, anim.size = "canvas", NEW k \in 1..Frames, NEW shot, FrameIs(k, shot, Frames)
  PROVE  /\ shot.pixels = [p \in Pixels |-> <<SavedSample(anim.frames[k].picture.px[p])>>]
         /\ shot.delay = anim.frames[k].delay
<1> DEFINE L == FirstLayers(Frames)
           pic == anim.frames[k].picture
<1>1. /\ file[ControlAt(k)] = Control(k) /\ AreaOf(Control(k)) = Pixels
      /\ PiecesOf(k)[1] = Piece(k)
  BY WholeFrame
<1>2. Frames \in Nat \ {0}
  BY WholePositions
<1>3. L[k] = LayerOf(k)
  BY DEF FirstLayers
<1>4. PiecesOf(k)[1].pic = pic
  BY <1>1 DEF Piece
<1>5. Control(k).x = 0 /\ Control(k).y = 0 /\ Control(k).blend = "source"
      /\ Control(k).delay = anim.frames[k].delay
  BY DEF Control
<1>6. ASSUME NEW p \in Pixels
      PROVE  /\ p \in L[k].area /\ L[k].paint[p].kind = "solid"
             /\ L[k].paint[p].colour = SavedSample(pic.px[p])
  <2>1. <<p[1] - 0, p[2] - 0>> = p
    BY ApngAssumption DEF Pixels
  <2> HIDE DEF L, pic
  <2>2. L[k].area = Pixels
    <3>1. LayerOf(k).area = AreaOf(file[ControlAt(k)])
      BY SMTT(30) DEF LayerOf
    <3> QED
      BY <1>1, <1>3, <3>1, Zenon
  <2>3. L[k].paint[p] = [ colour |-> MeantSample(pic.px[<<p[1] - 0, p[2] - 0>>]), kind |-> "solid" ]
    BY <1>1, <1>3, <1>4, <1>5 DEF LayerOf
  <2> QED
    BY <2>1, <2>2, <2>3, WholeSamples
<1>7. ASSUME NEW p \in Pixels
      PROVE  Shown(L, k, p) = <<SavedSample(pic.px[p])>>
  <2>1. k - 1 \in Nat /\ k = (k - 1) + 1
    BY <1>2
  <2> HIDE DEF L, pic
  <2>2. \A n \in Nat : k = n + 1 => AddsLayer(L, n, k, p)
    BY LayerDrawn
  <2>3. AddsLayer(L, k - 1, k, p)
    BY <2>1, <2>2
  <2> QED
    BY <1>6, <2>3 DEF AddsLayer
<1>8. shot.pixels = [p \in Pixels |-> Shown(L, k, p)]
  BY DEF FrameIs
<1>9. shot.pixels = [p \in Pixels |-> <<SavedSample(pic.px[p])>>]
  <2> HIDE DEF L, pic
  <2> QED
    BY <1>7, <1>8
<1>10. shot.delay = anim.frames[k].delay
  BY <1>1, <1>5 DEF FrameIs
<1> QED
  BY <1>9, <1>10

\* Every frame comes back, with its delay, the loop count and the metadata.
LEMMA LoadsBack ==
  ASSUME Trip
  PROVE  SavedFilesLoadBack
<1> SUFFICES ASSUME RecordsPreserved, pc = "done", ~starved, ok, ~lost, anim.size = "canvas"
             PROVE  /\ loaded
                    /\ Len(shots) = Len(anim.frames)
                    /\ \A k \in 1..Len(shots) :
                         /\ shots[k].pixels =
                              [p \in Pixels |-> <<SavedSample(anim.frames[k].picture.px[p])>>]
                         /\ shots[k].delay = anim.frames[k].delay
                    /\ num_plays = anim.plays
                    /\ metadata <=> \E n \in 1..Len(Records) :
                                      ~IsDroppedType(Records[n].type, FALSE)
  BY DEF SavedFilesLoadBack
<1>1. WholeRead
  BY WhatIsRead
<1>2. /\ Frames \in Nat \ {0} /\ Ahead \in Nat /\ Positions("acTL") = {Ahead}
      /\ Cardinality(Positions("fcTL")) = Frames
  BY <1>1, WholePositions
<1>3. FramesAreLayers /\ VerdictIsExact
  BY LoaderGives DEF Trip
<1>4. loaded /\ Len(shots) = Max({1, Frames})
  BY <1>1, <1>2, <1>3, WholeShowable DEF VerdictIsExact
<1>5. Len(shots) = Frames
  <2>1. Max({1, Frames}) = IF Frames <= 1 THEN 1 ELSE Frames
    BY <1>2, MaxOfTwo
  <2> QED
    BY <1>2, <1>4, <2>1
<1>6. fctls # <<>>
  <2>1. Len(fctls) = Frames
    BY <1>2, <1>4 DEF Trip
  <2> QED
    BY <1>2, <2>1
<1>7. \A k \in 1..Len(shots) : FrameIs(k, shots[k], Len(shots))
  BY <1>1, <1>3, <1>6, FramesNow, WholeSamples
<1>8. \A k \in 1..Len(shots) :
        /\ shots[k].pixels = [p \in Pixels |-> <<SavedSample(anim.frames[k].picture.px[p])>>]
        /\ shots[k].delay = anim.frames[k].delay
  BY <1>1, <1>5, <1>7, FrameBack
<1>9. num_plays = anim.plays
  <2>1. \E n : IsLast("acTL", n) /\ num_plays = file[n].plays
    BY <1>2 DEF Trip, Loader, HeadersRead
  <2>2. num_plays = file[Ahead].plays
    BY <1>2, <2>1 DEF IsLast
  <2> QED
    BY <1>1, <2>2 DEF WholeRead, WholeFile
<1>10. metadata <=> \E n \in 1..Len(Records) : ~IsDroppedType(Records[n].type, FALSE)
  <2>1. metadata <=> HasMetadata
    BY <1>4 DEF Trip, Loader, Pictured
  <2>2. ComesBack(file) <=> \E n \in 1..Len(Records) : ~IsDroppedType(Records[n].type, FALSE)
    BY <1>1, WholeGroups DEF WholeRead
  <2> QED
    BY <2>1, <2>2 DEF HasMetadata, ComesBack
<1> QED
  BY <1>4, <1>5, <1>8, <1>9, <1>10 DEF Frames

\* What the invariant is for.
LEMMA TripGives ==
  ASSUME Trip
  PROVE  /\ ApngInv /\ FramesAreLayers /\ VerdictIsExact
         /\ SavedFilesAreValid /\ SavedFilesLoadBack
BY LoaderGives, SaverGives, LoadsBack DEF Trip, ApngInv

LEMMA RoundTripHolds == RoundTripSpec => []Trip
<1>1. RoundTripInit => Trip
  BY TripInit
<1>2. Trip /\ [RoundTripNext]_<<vars, saveVars>> => Trip'
  BY TripStep
<1> QED
  BY <1>1, <1>2, PTL DEF RoundTripSpec

\* Saving and loading, whatever the file and whichever allocation fails: types, and no
\* block of apng_load or apng_save is left allocated that is not returned (LoadInv,
\* SaveInv: done, fail and the frees of both functions).
THEOREM ApngIsClean == RoundTripSpec => []ApngInv
BY RoundTripHolds, TripGives, PTL

\* apng_load, for every file of chunks: shot k shows the first k frames, each drawn over
\* what the disposals before it have left, with the delay of its own fcTL, although
\* frames, data and default image are matched up by their order alone.  Only of a gray
\* or RGB file with a tRNS nothing is said: synth_png leaves that out.
THEOREM ApngFramesAreLayers == RoundTripSpec => []FramesAreLayers
BY RoundTripHolds, TripGives, PTL

\* apng_load, for every file of chunks and unless memory runs out: it succeeds if and
\* only if the file can be shown, and then shows each frame once.
THEOREM ApngVerdictIsExact == RoundTripSpec => []VerdictIsExact
BY RoundTripHolds, TripGives, PTL

\* apng_save, for every animation whose metadata are of types that extraction preserves
\* (apng_save takes any): a success that lost nothing on its way to the disk leaves a file whose chunks are where the APNG specification wants them, numbered
\* without a gap across fcTL and fdAT, with every record of metadata in its group.
THEOREM ApngSavedFilesAreValid == RoundTripSpec => []SavedFilesAreValid
BY RoundTripHolds, TripGives, PTL

\* What apng_save has written, with metadata of types that extraction preserves, apng_load
\* reads back: every frame, delay and loop count, and metadata if and only if there were
\* others than sBIT.
THEOREM ApngSavedFilesLoadBack == RoundTripSpec => []SavedFilesLoadBack
BY RoundTripHolds, TripGives, PTL
==============================================================================
