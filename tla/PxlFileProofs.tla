----------------------------- MODULE PxlFileProofs -----------------------------
(***************************************************************************)
(* What both decoders rest on: the sizes a header's checks guarantee, and  *)
(* what one call of the decompressor does to its context, for every header *)
(* and every frame.                                                        *)
(***************************************************************************)
EXTENDS PxlFile, TLAPS

------------------------------------------------------------------------------
(* Header arithmetic                                                         *)

\* A header both decoders accept announces at least one row of at least one
\* filtered byte, and exactly as many bytes as its rows take.
LEMMA HeaderSizes ==
  ASSUME NEW h \in Headers, Decodable(h)
  PROVE  /\ h.height \in Nat \ {0}
         /\ FrowStride(h) \in Nat \ {0}
         /\ h.raw_byte_count = h.height * FrowStride(h)
<1> DEFINE w == FilterWidth(h)
           p == PixelBytes(h)
<1>1. /\ h.height \in Nat \ {0}
      /\ w \in Nat \ {0}
  BY FormatAssumption
  DEF Decodable, GeometryOk, WithinLimits, Headers
<1>2. p \in Nat \ {0}
  BY DEF PixelBytes, Decodable, HeaderReadOk, DepthOk, Headers
<1> HIDE DEF w, p
<1>3. w * p \in Nat \ {0}
  BY <1>1, <1>2
<1>4. /\ FrowStride(h) = IF h.color_filter = "ADAPTIVE" THEN w * p + 1 ELSE w * p
      /\ h.raw_byte_count = IF h.color_filter = "ADAPTIVE"
                              THEN h.height * (1 + w * p) ELSE w * h.height * p
  BY DEF FrowStride, RowStride, Decodable, FilteredSize, w, p
<1>5. w * h.height * p = h.height * (w * p)
  BY <1>1, <1>2
<1>6. QED
  BY <1>1, <1>3, <1>4, <1>5

\* Any header has its sizes, even one that is refused.
LEMMA SizesAreNat ==
  ASSUME NEW h \in Headers
  PROVE  /\ FilterWidth(h) \in Nat
         /\ PixelBytes(h) \in Nat
         /\ FrowStride(h) \in Nat
<1> DEFINE w == FilterWidth(h)
           p == PixelBytes(h)
<1>1. /\ h.width \in Nat /\ h.channels \in Nat /\ h.bit_depth \in Nat
  BY DEF Headers
<1>2. w \in Nat
  <2> DEFINE bits == h.width * h.channels * h.bit_depth + 7
  <2>1. bits \in Nat
    BY <1>1
  <2> HIDE DEF bits
  <2>2. bits \div 8 \in Nat
    BY <2>1
  <2>3. QED
    BY <1>1, <2>2 DEF FilterWidth, RowBytesOf, bits
<1>3. p \in Nat
  <2> DEFINE bytes == h.bit_depth \div 8
  <2>1. bytes \in Nat
    BY <1>1
  <2> HIDE DEF bytes
  <2>2. h.channels * bytes \in Nat
    BY <1>1, <2>1
  <2>3. QED
    BY <2>2 DEF PixelBytes, bytes
<1> HIDE DEF w, p
<1>4. w * p \in Nat
  BY <1>2, <1>3
<1>5. FrowStride(h) \in Nat
  BY <1>4 DEF FrowStride, RowStride, w, p
<1>6. QED
  BY <1>2, <1>3, <1>5 DEF w, p

LEMMA FilteredSizeIsNat ==
  ASSUME NEW filter, NEW width \in Nat, NEW height \in Nat, NEW pixel_bytes \in Nat
  PROVE  FilteredSize(filter, width, height, pixel_bytes) \in Nat
<1>1. width * pixel_bytes \in Nat /\ width * height \in Nat
  OBVIOUS
<1>2. height * (1 + width * pixel_bytes) \in Nat /\ width * height * pixel_bytes \in Nat
  BY <1>1
<1>3. QED
  BY <1>2 DEF FilteredSize

------------------------------------------------------------------------------
(* The decompressor                                                          *)

\* A fresh context is one of them: it has decoded nothing.
LEMMA FreshContextOk ==
  ASSUME NEW fr, IsFrame(fr)
  PROVE  /\ ContextOk(fr, FreshContext)
         /\ FreshContext.out = 0
         /\ DecodedTo(fr, FreshContext) = 0
         /\ fr.bad \in Nat
BY DEF IsFrame, ContextOk, FreshContext, Contexts, DecodedTo

\* A call keeps the context in order, writes no more than its room, reads no
\* more than its input, and never decodes less than before.
LEMMA CallKeepsContext ==
  ASSUME NEW fr, IsFrame(fr), NEW z, ContextOk(fr, z),
         NEW avail \in Nat, NEW room \in Nat \ {0},
         NEW d \in ReadStops(fr, z, avail, room),
         NEW w, w = AfterCall(fr, z, d, avail, room)
  PROVE  /\ ContextOk(fr, w)
         /\ z.out <= w.out /\ w.out <= z.out + room
         /\ z.in <= w.in /\ w.in <= z.in + avail
         /\ DecodedTo(fr, w) = d
<1> DEFINE from == DecodedTo(fr, z)
<1>1. /\ fr.n \in Nat \ {0} /\ z.in \in Nat /\ z.out \in Nat
      /\ z.hostage \in BOOLEAN /\ from \in 0..fr.n
      /\ z.hostage => z.in = fr.n - 1
  BY DEF IsFrame, ContextOk, Contexts, DecodedTo
<1>2. /\ d \in from..fr.n
      /\ z.hostage => d = fr.n
      /\ ~z.hostage => d <= z.in + avail
  BY <1>1 DEF ReadStops, DecodedTo, Smaller
<1>3. /\ \A i \in 0..fr.n : fr.prod[i] \in Nat
      /\ fr.prod[from] <= fr.prod[d]
  BY <1>1, <1>2, SMTT(30) DEF IsFrame
<1> DEFINE out   == Smaller(z.out + room, fr.prod[d])
           drain == d = fr.n /\ out < fr.prod[fr.n]
           stuck == d = fr.n /\ z.hostage /\ avail = 0
<1>4. /\ w = [in |-> IF drain \/ stuck THEN fr.n - 1 ELSE d,
              out |-> out, hostage |-> drain \/ stuck]
      /\ out \in Nat /\ z.out <= out /\ out <= z.out + room /\ out <= fr.prod[d]
  BY <1>1, <1>2, <1>3 DEF AfterCall, Smaller, ContextOk
<1>5. ~drain /\ d = fr.n => out = fr.prod[fr.n]
  BY <1>1, <1>3, <1>4
<1>6. drain => z.in < fr.n \/ z.hostage
  BY <1>1, <1>2, <1>4 DEF ContextOk
<1> HIDE DEF out, drain, stuck
<1>7. /\ drain \in BOOLEAN /\ stuck \in BOOLEAN
      /\ drain \/ stuck => d = fr.n
      /\ stuck <=> d = fr.n /\ z.hostage /\ avail = 0
  BY <1>1 DEF drain, stuck
<1>8. /\ w.in = IF drain \/ stuck THEN fr.n - 1 ELSE d
      /\ w.out = out
      /\ w.hostage <=> drain \/ stuck
      /\ w \in Contexts
  BY <1>1, <1>2, <1>4, <1>7 DEF Contexts
<1>9. DecodedTo(fr, w) = d
  BY <1>7, <1>8 DEF DecodedTo
<1>10. z.in <= w.in /\ w.in <= z.in + avail
  <2>1. CASE drain \/ stuck
    BY <2>1, <1>1, <1>2, <1>6, <1>7, <1>8
  <2>2. CASE ~(drain \/ stuck)
    BY <2>2, <1>1, <1>2, <1>7, <1>8 DEF DecodedTo
  <2>3. QED
    BY <2>1, <2>2
<1>11. ContextOk(fr, w)
  BY <1>1, <1>2, <1>4, <1>5, <1>7, <1>8, <1>9 DEF ContextOk
<1>12. QED
  BY <1>4, <1>8, <1>9, <1>10, <1>11

\* What a call writes, and why it stopped where it did: out of input, or with
\* more decoded than fits, which fills the room.
LEMMA CallStops ==
  ASSUME NEW fr, IsFrame(fr), NEW z, ContextOk(fr, z),
         NEW avail \in Nat, NEW room \in Nat \ {0},
         NEW d \in ReadStops(fr, z, avail, room),
         NEW w, w = AfterCall(fr, z, d, avail, room)
  PROVE  /\ d \in DecodedTo(fr, z)..fr.n
         /\ fr.prod[d] \in Nat /\ fr.prod[d] <= fr.prod[fr.n]
         /\ fr.prod[DecodedTo(fr, z)] <= fr.prod[d]
         /\ w.out = Smaller(z.out + room, fr.prod[d])
         /\ \/ d = IF z.hostage THEN fr.n ELSE Smaller(fr.n, z.in + avail)
            \/ fr.prod[d] > z.out + room
         /\ w.hostage => w.out < fr.prod[fr.n] \/ (z.hostage /\ avail = 0)
<1>1. /\ fr.n \in Nat \ {0} /\ z.in \in Nat /\ z.out \in Nat
      /\ DecodedTo(fr, z) \in 0..fr.n /\ fr.n \in 0..fr.n
  BY DEF IsFrame, ContextOk, Contexts, DecodedTo
<1>2. d \in DecodedTo(fr, z)..fr.n
  BY <1>1 DEF ReadStops, DecodedTo, Smaller
<1>3. /\ fr.prod[d] \in Nat /\ fr.prod[d] <= fr.prod[fr.n]
      /\ fr.prod[DecodedTo(fr, z)] <= fr.prod[d]
  BY <1>1, <1>2, SMTT(30) DEF IsFrame
<1>4. w.out = Smaller(z.out + room, fr.prod[d])
  BY DEF AfterCall
<1>5. \/ d = IF z.hostage THEN fr.n ELSE Smaller(fr.n, z.in + avail)
      \/ fr.prod[d] > z.out + room
  BY DEF ReadStops
<1>6. w.hostage => w.out < fr.prod[fr.n] \/ (z.hostage /\ avail = 0)
  BY <1>4 DEF AfterCall
<1>7. QED
  BY <1>2, <1>3, <1>4, <1>5, <1>6

\* A call with room that neither reads nor writes has delivered all that is
\* decoded; if it was given input, the frame is complete.
LEMMA CallMoves ==
  ASSUME NEW fr, IsFrame(fr), NEW z, ContextOk(fr, z),
         NEW avail \in Nat, NEW room \in Nat \ {0},
         NEW d \in ReadStops(fr, z, avail, room),
         NEW w, w = AfterCall(fr, z, d, avail, room),
         w.in = z.in, w.out = z.out
  PROVE  /\ fr.prod[DecodedTo(fr, w)] = w.out
         /\ avail # 0 => FrameComplete(fr, w)
<1>1. /\ fr.n \in Nat \ {0} /\ z.in \in Nat /\ z.out \in Nat /\ z.in <= fr.n
      /\ z.hostage => z.in = fr.n - 1
  BY DEF IsFrame, ContextOk, Contexts
<1>2. ContextOk(fr, w) /\ DecodedTo(fr, w) = d
  BY CallKeepsContext
<1>3. /\ d \in DecodedTo(fr, z)..fr.n
      /\ fr.prod[d] \in Nat
      /\ w.out = Smaller(z.out + room, fr.prod[d])
      /\ \/ d = IF z.hostage THEN fr.n ELSE Smaller(fr.n, z.in + avail)
         \/ fr.prod[d] > z.out + room
      /\ w.hostage => w.out < fr.prod[fr.n] \/ avail = 0
  BY CallStops
<1> DEFINE p == fr.prod[d]
<1> HIDE DEF p
<1>4. /\ p \in Nat /\ z.out = Smaller(z.out + room, p)
      /\ \/ p > z.out + room
         \/ d = IF z.hostage THEN fr.n ELSE Smaller(fr.n, z.in + avail)
  BY <1>3 DEF p
<1>5. p = z.out
  BY <1>1, <1>4 DEF Smaller
<1>6. d = IF z.hostage THEN fr.n ELSE Smaller(fr.n, z.in + avail)
  BY <1>1, <1>4, <1>5
<1>7. ASSUME avail # 0
      PROVE  FrameComplete(fr, w)
  <2>1. ~w.hostage
    <3>1. SUFFICES ASSUME w.hostage PROVE FALSE
      OBVIOUS
    <3>2. d = fr.n /\ w.out < fr.prod[d]
      BY <3>1, <1>2, <1>3, <1>7 DEF DecodedTo
    <3>3. QED
      BY <3>2, <1>1, <1>4, <1>5 DEF p
  <2>2. w.in = d
    BY <1>2, <2>1 DEF DecodedTo
  <2>3. d = fr.n
    <3>1. CASE z.hostage
      BY <3>1, <1>6
    <3>2. CASE ~z.hostage
      BY <3>2, <1>1, <1>6, <1>7, <2>2 DEF Smaller
    <3>3. QED
      BY <3>1, <3>2
  <2>4. QED
    BY <1>5, <2>2, <2>3 DEF FrameComplete, p
<1>8. QED
  BY <1>2, <1>5, <1>7 DEF p

------------------------------------------------------------------------------
(* Files                                                                     *)

\* What every file offers.
LEMMA FileSizes ==
  ASSUME IsFile(file)
  PROVE  /\ H \in Headers
         /\ IsFrame(file.frame) /\ file.frame.n \in Nat \ {0}
         /\ PaletteBytes(H) \in Nat /\ H.meta_byte_count \in Nat
         /\ H.height \in Nat /\ H.raw_byte_count \in Nat /\ RawSize \in Nat
         /\ FrameOffset \in Nat /\ FileLength \in Nat /\ file.trailing \in Nat
         /\ FileLength = FrameOffset + file.frame.n + file.trailing
         /\ FrameOffset = PXL_HEADER_BYTES + PaletteBytes(H) + H.meta_byte_count
         /\ PXL_HEADER_BYTES \in Nat \ {0}
<1>1. H \in Headers /\ IsFrame(file.frame) /\ file.trailing \in Nat
  BY DEF IsFile, H
<1>2. /\ PaletteBytes(H) \in Nat /\ H.meta_byte_count \in Nat
      /\ H.height \in Nat /\ H.raw_byte_count \in Nat
  BY <1>1 DEF Headers, PaletteBytes
<1>3. /\ file.frame.n \in Nat \ {0} /\ RawSize \in Nat
      /\ PXL_HEADER_BYTES \in Nat \ {0}
  BY <1>1, FormatAssumption DEF IsFrame, RawSize
<1>4. FrameOffset \in Nat /\ FileLength \in Nat
  BY <1>1, <1>2, <1>3 DEF FileLength, FrameOffset
<1>5. QED
  BY <1>1, <1>2, <1>3, <1>4 DEF FileLength, FrameOffset
==============================================================================
