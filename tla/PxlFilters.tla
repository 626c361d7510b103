----------------------------- MODULE PxlFilters -----------------------------
(***************************************************************************)
(* The row filters of a still: pack_delta, pack_bcif3/4 and pack_adaptive  *)
(* of pxl_codec_encode.c, and the unfilters of pxl_codec_decode.c that     *)
(* undo them.  A picture is filtered row by row with one colour filter and *)
(* then unfiltered, byte by byte (BCIF: pixel by pixel) as the decoder's   *)
(* loops go.                                                               *)
(*                                                                         *)
(* A byte is a number below Base, all arithmetic on it is modulo Base.     *)
(* The filtered stream is kept by row: a byte's index in a plane or in a   *)
(* filtered row stands for the running pointers of the code.               *)
(***************************************************************************)
EXTENDS Counting

CONSTANTS
  Base,      \* values of a byte (256 in the code)
  Pictures   \* [width, height, bpp, pix]: pix[y][i] is byte i of row y

ASSUME BaseAssumption == Base \in Nat /\ Base > 1

Byte == 0..(Base - 1)

VARIABLES
  filter,            \* "NONE", "DELTA", "BCIF" or "ADAPTIVE"
  pic,               \* the picture
  step,              \* "pack", "try", "unpack" or "done"
  row,               \* the row that is packed or unpacked
  type,              \* pack_adaptive: the row filter tried next
  best_s, best_type, \* its locals
  best, cand,        \* its two row buffers
  stream,            \* stream[y]: the row filter and the filtered bytes of row y
  i,                 \* bytes of the row unpacked
  out                \* the decoder's pixels

filterVars == <<filter, pic, step, row, type, best_s, best_type, best, cand,
                stream, i, out>>
triedVars == <<type, best_s, best_type, best, cand>>

\* uint8_t arithmetic on bytes.
minus(x, y) == IF x >= y THEN x - y ELSE x - y + Base
plus(x, y) == IF x + y < Base THEN x + y ELSE x + y - Base

Stride == pic.width * pic.bpp
Bytes == 0..(Stride - 1)
RowsOf == 0..(pic.height - 1)

------------------------------------------------------------------------------
(* Predictors.                                                               *)

RowFilters == 0..4
NONE == 0
SUB == 1
UP == 2
AVG == 3
PAETH == 4

AbsOf(n) == IF n < 0 THEN -n ELSE n

\* pxl_paeth: the nearest of a, b, c to a + b - c, in that order on a tie.
Paeth(a, b, c) ==
  LET p == a + b - c
  IN  IF AbsOf(p - a) <= AbsOf(p - b) /\ AbsOf(p - a) <= AbsOf(p - c) THEN a
      ELSE IF AbsOf(p - b) <= AbsOf(p - c) THEN b ELSE c

\* The encoder's prediction from the bytes to the left, above, and above left.
Pred(t, a, b, c) ==
  CASE t = SUB -> a [] t = UP -> b [] t = AVG -> (a + b) \div 2
    [] t = PAETH -> Paeth(a, b, c) [] OTHER -> 0

\* The decoder's, for the first `bpp' bytes of a row, where nothing is to the left.
HeadPred(t, first, b) ==
  CASE first \/ t = SUB -> 0
    [] t = UP -> b [] t = AVG -> b \div 2 [] t = PAETH -> b [] OTHER -> 0

\* And for the others: rowfilter_decode_n without a row above, and with one
\* (rowfilter_decode_1 to _4 are this for a fixed pixel width).
BulkPred(t, first, a, b, c) ==
  IF first
    THEN CASE t \in {SUB, PAETH} -> a [] t = AVG -> a \div 2 [] OTHER -> 0
    ELSE CASE t = SUB -> a [] t = UP -> b [] t = AVG -> (a + b) \div 2
           [] t = PAETH -> Paeth(a, b, c) [] OTHER -> 0

\* Byte k of row y of p, and 0 outside the picture.
At(p, y, k) == IF y < 0 \/ k < 0 THEN 0 ELSE p[y][k]

------------------------------------------------------------------------------
(* Packing.                                                                  *)

\* rowfilter_encode
RowFilterEncode(t, y) ==
  [ k \in Bytes |->
      minus(pic.pix[y][k],
            Pred(t, At(pic.pix, y, k - pic.bpp), At(pic.pix, y - 1, k),
                    At(pic.pix, y - 1, k - pic.bpp))) ]

\* pack_delta: prev[] starts each row with zeros.
PackDelta(y) ==
  [ k \in Bytes |-> minus(pic.pix[y][k], At(pic.pix, y, k - pic.bpp)) ]

\* The colour transform of the pixel at byte k, of which d[k], d[k + 1] and
\* d[k + 2] are red, green and blue.
Transform(d, k) ==
  <<d[k + 2], minus(d[k + 1], d[k + 2]), minus(d[k + 1], d[k])>>

\* pack_bcif3/4: the delta, then the colour transform; alpha stays as it is.
\* What goes to plane p of pixel x is kept at byte x * bpp + p.
PackBcif(y) ==
  LET d == PackDelta(y)
      plane(k) == k % pic.bpp
  IN  [ k \in Bytes |-> IF plane(k) > 2 THEN d[k]
                        ELSE Transform(d, k - plane(k))[plane(k) + 1] ]

\* row_score: the sum of the bytes taken as signed, without their signs.
Score(bytes) ==
  LET size(v) == AbsOf(IF 2 * v >= Base THEN v - Base ELSE v)
  IN  SumTo([k \in 1..Stride |-> size(bytes[k - 1])], Stride)

NoBytes == [k \in {} |-> 0]

FilterInit ==
  /\ pic \in Pictures
  /\ filter \in {"NONE", "DELTA", "ADAPTIVE"}
                  \cup (IF pic.bpp \in {3, 4} THEN {"BCIF"} ELSE {})
  /\ step = "pack" /\ row = 0 /\ type = 0
  /\ best_s = -1 /\ best_type = NONE /\ best = NoBytes /\ cand = NoBytes
  /\ stream = [y \in {} |-> 0]
  /\ i = 0 /\ out = [y \in RowsOf |-> NoBytes]

\* A row of the stream is out, and the next one is packed, or the stream is read.
PutRow(t, bytes) ==
  /\ stream' = [y \in 0..row |-> IF y = row THEN [type |-> t, bytes |-> bytes]
                                            ELSE stream[y]]
  /\ IF row + 1 < pic.height THEN step' = "pack" /\ row' = row + 1
                             ELSE step' = "unpack" /\ row' = 0
  /\ UNCHANGED <<filter, pic, i, out>>

PackRow ==
  /\ step = "pack" /\ filter # "ADAPTIVE"
  /\ \/ filter = "NONE" /\ PutRow(NONE, pic.pix[row])
     \/ filter = "DELTA" /\ PutRow(NONE, PackDelta(row))
     \/ filter = "BCIF" /\ PutRow(NONE, PackBcif(row))
  /\ UNCHANGED triedVars

\* pack_adaptive, a turn of its loop over the rows: the locals start afresh.
StartRow ==
  /\ step = "pack" /\ filter = "ADAPTIVE"
  /\ step' = "try"
  /\ type' = 0 /\ best_s' = -1 /\ best_type' = NONE
  /\ UNCHANGED <<filter, pic, row, best, cand, stream, i, out>>

\* The candidate is the best so far: the two buffers change places.
Promote(bytes) ==
  best' = bytes /\ cand' = best

BetterOrTie(s) == type = 0 \/ s <= best_s

\* The first score is below (unsigned long)-1.
Better(s) == type = 0 \/ s < best_s

\* A turn of its loop over the row filters.
TryType ==
  /\ step = "try" /\ type \in RowFilters
  /\ LET bytes == RowFilterEncode(type, row)
         s == Score(bytes)
     IN  IF Better(s)
           THEN best_s' = s /\ best_type' = type /\ Promote(bytes)
           ELSE cand' = bytes /\ UNCHANGED <<best_s, best_type, best>>
  /\ type' = type + 1
  /\ UNCHANGED <<filter, pic, step, row, stream, i, out>>

EndRow ==
  /\ step = "try" /\ type \notin RowFilters
  /\ PutRow(best_type, best)
  /\ UNCHANGED triedVars

------------------------------------------------------------------------------
(* Unpacking.                                                                *)

\* `bytes', which are those of the row from i on, are written.
WriteBytes(next, bytes) ==
  /\ out' = [out EXCEPT ![row] =
               [k \in 0..(next - 1) |-> IF k < i THEN out[row][k] ELSE bytes[k]]]
  /\ IF next < Stride
       THEN i' = next /\ UNCHANGED <<row, step>>
       ELSE /\ i' = 0
            /\ IF row + 1 < pic.height THEN row' = row + 1 /\ UNCHANGED step
                                       ELSE step' = "done" /\ UNCHANGED row
  /\ UNCHANGED <<filter, pic, triedVars, stream>>

\* unfilter_row and unpack_adaptive: what the row filter adds to byte k, from
\* the bytes of the output that are there already.
DecodedPred(k) ==
  LET t == stream[row].type
      a == At(out, row, k - pic.bpp)
      b == At(out, row - 1, k)
      c == At(out, row - 1, k - pic.bpp)
  IN  IF k < pic.bpp THEN HeadPred(t, row = 0, b) ELSE BulkPred(t, row = 0, a, b, c)

UnpackAdaptive ==
  /\ step = "unpack" /\ filter = "ADAPTIVE"
  /\ WriteBytes(i + 1, [k \in {i} |-> plus(stream[row].bytes[k], DecodedPred(k))])

UnpackNone ==
  /\ step = "unpack" /\ filter = "NONE"
  /\ WriteBytes(i + 1, [k \in {i} |-> stream[row].bytes[k]])

UnpackDelta ==
  /\ step = "unpack" /\ filter = "DELTA"
  /\ WriteBytes(i + 1, [k \in {i} |->
       plus(stream[row].bytes[k], At(out, row, k - pic.bpp))])

\* The inverse colour transform: B = Y, G = U + B, R = G - V.
UntransformSwapped(bytes, k) ==
  LET B == bytes[i]
      G == plus(bytes[i + 1], B)
  IN  IF k = i THEN plus(G, bytes[i + 2])
      ELSE IF k = i + 1 THEN G ELSE IF k = i + 2 THEN B ELSE bytes[k]

Untransform(bytes, k) ==
  LET B == bytes[i]
      G == plus(bytes[i + 1], B)
  IN  IF k = i THEN minus(G, bytes[i + 2])
      ELSE IF k = i + 1 THEN G ELSE IF k = i + 2 THEN B ELSE bytes[k]

\* unpack_bcif3/4: a pixel.
UnpackBcif ==
  /\ step = "unpack" /\ filter = "BCIF"
  /\ WriteBytes(i + pic.bpp, [k \in i..(i + pic.bpp - 1) |->
       plus(Untransform(stream[row].bytes, k), At(out, row, k - pic.bpp))])

FilterNext ==
  \/ PackRow \/ StartRow \/ TryType \/ EndRow
  \/ UnpackAdaptive \/ UnpackNone \/ UnpackDelta \/ UnpackBcif

FilterSpec == FilterInit /\ [][FilterNext]_filterVars

------------------------------------------------------------------------------
(* Properties                                                                *)

IsPicture(p) ==
  /\ p.width \in Nat \ {0} /\ p.height \in Nat \ {0} /\ p.bpp \in 1..8
  /\ p.pix \in [0..(p.height - 1) -> [0..(p.width * p.bpp - 1) -> Byte]]

ASSUME PicturesAssumption == \A p \in Pictures : IsPicture(p)

\* `bytes' are row y of the picture, filtered (adaptively: with row filter t).
PackedAs(t, bytes, y) ==
  /\ t \in RowFilters
  /\ filter = "NONE" => bytes = pic.pix[y]
  /\ filter = "DELTA" => bytes = PackDelta(y)
  /\ filter = "BCIF" => bytes = PackBcif(y)
  /\ filter = "ADAPTIVE" => bytes = RowFilterEncode(t, y)

\* What the loops keep: the rows packed, the better of two buffers, and the
\* rows, and part of a row, unpacked.
FilterInv ==
  /\ pic \in Pictures
  /\ filter \in {"NONE", "DELTA", "BCIF", "ADAPTIVE"}
  /\ filter = "BCIF" => pic.bpp \in {3, 4}
  /\ step \in {"pack", "try", "unpack", "done"}
  /\ row \in RowsOf
  /\ stream = [y \in DOMAIN stream |-> stream[y]]
  /\ DOMAIN stream = IF step \in {"pack", "try"} THEN 0..(row - 1) ELSE RowsOf
  /\ \A y \in DOMAIN stream : PackedAs(stream[y].type, stream[y].bytes, y)
  /\ step = "try" =>
       /\ filter = "ADAPTIVE" /\ type \in 0..5
       /\ type > 0 => best_type \in RowFilters /\ best = RowFilterEncode(best_type, row)
  /\ i \in Nat
  /\ step \in {"pack", "try", "done"} => i = 0
  /\ i < Stride /\ (filter = "BCIF" => i % pic.bpp = 0)
  /\ out = [y \in RowsOf |-> out[y]]
  /\ step = "unpack" =>
       /\ \A y \in 0..(row - 1) : \A k \in Bytes : out[y][k] = pic.pix[y][k]
       /\ \A k \in 0..(i - 1) : out[row][k] = pic.pix[row][k]
  /\ step = "done" => \A y \in RowsOf : \A k \in Bytes : out[y][k] = pic.pix[y][k]

\* The score of row y with row filter t; t has the least of the first n filters,
\* and is the first that has it.
ScoreOf(t, y) == Score(RowFilterEncode(t, y))

IsFirstBest(t, y, n) ==
  \A u \in 0..(n - 1) :
    ScoreOf(t, y) <= ScoreOf(u, y) /\ (u < t => ScoreOf(t, y) < ScoreOf(u, y))

\* And what the choice of a row filter keeps: the best of those tried, and its score.
BestInv ==
  filter = "ADAPTIVE" =>
    /\ \A y \in DOMAIN stream : IsFirstBest(stream[y].type, y, 5)
    /\ (step = "try" /\ type > 0) =>
         best_s = Score(best) /\ best_type < type /\ IsFirstBest(best_type, row, type)

\* Whatever filter the encoder takes, the decoder has, at every point of its loops,
\* the original bytes of all rows before and of the row so far: the residuals
\* and the predictions agree on both sides, the first row, the first pixel and
\* the specialised loops included.
UnfilteredIsOriginal ==
  step \in {"unpack", "done"} =>
    \A y \in RowsOf :
      LET known == IF step = "done" \/ y < row THEN Stride
                   ELSE IF y = row THEN i ELSE 0
      IN  \A k \in 0..(known - 1) : out[y][k] = pic.pix[y][k]

\* A row of the stream is filtered as its type byte says, with the first of
\* the row filters that leave the smallest residuals, whatever the two
\* buffers have been through.
RowsFilteredBest ==
  filter = "ADAPTIVE" =>
    \A y \in DOMAIN stream :
      /\ stream[y].bytes = RowFilterEncode(stream[y].type, y)
      /\ \A t \in RowFilters :
           /\ Score(stream[y].bytes) <= ScoreOf(t, y)
           /\ t < stream[y].type => Score(stream[y].bytes) < ScoreOf(t, y)
==============================================================================
