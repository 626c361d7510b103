----------------------------- MODULE PxlPixels ------------------------------
(***************************************************************************)
(* What a caller gets to see of a decoded still: the check of its indices  *)
(* (row_indices_ok), pxl_image_expand of pxl_codec_common.c, and the       *)
(* conversions to packed formats, convert_row and pxl_convert_palette of   *)
(* pxl_codec_decode.c.  One call, pixel by pixel.                          *)
(*                                                                         *)
(* An image is [width, height, channels, depth, size, rows, palette,       *)
(* alpha]: rows[y] are the bytes of a row from 0 on, size is buffer.size,  *)
(* palette a sequence of <<r, g, b>>, alpha a sequence, both empty if not  *)
(* there.  Bytes have 8 bits, as the packed formats have their fields.     *)
(***************************************************************************)
EXTENDS Counting

CONSTANT Images  \* the images a caller may hold

Octet == 0..255

BytesPerChannel(p) == IF p.depth = 16 THEN 2 ELSE 1
RowBytes(p) == (p.width * p.channels * p.depth + 7) \div 8
PaletteCount(p) == Len(p.palette)

\* Images are as pxl.h describes them: samples of less than a byte and indices
\* have one channel, and every row has its bytes.
IsImage(p) ==
  /\ p.width \in Nat \ {0} /\ p.height \in Nat \ {0}
  /\ p.channels \in 1..4 /\ p.depth \in {1, 2, 4, 8, 16}
  /\ p.depth < 8 => p.channels = 1
  /\ \A r \in 0..(p.height - 1), k \in 0..(RowBytes(p) - 1) : p.rows[r][k] \in Octet
  /\ p.palette \in Seq([1..3 -> Octet]) /\ p.alpha \in Seq(Octet)
  /\ p.palette # <<>> => p.channels = 1 /\ p.depth <= 8

ASSUME ImagesAssumption == \A p \in Images : IsImage(p)

\* The powers of two that shifts and depths use.
ASSUME PowersOfTwo == 2^0 = 1 /\ \A n \in 0..15 : 2^(n + 1) = 2 * 2^n

VARIABLES
  img,     \* the image passed
  call,    \* "indices_ok", "expand", "palette" or "rows"
  fmt,     \* the output format asked for
  status,  \* "called", "running", "refused" (nothing is returned) or "returned"
  pos,     \* the pixel, or palette entry, that is next
  result   \* the pixels of the output so far, each a sequence of bytes

pixelVars == <<img, call, fmt, status, pos, result>>

Formats == {"RGBA8888", "RGB565", "RGBA5551", "RGBA4444"}

\* (v >> n) and (v << n) of numbers that keep all their bits.
shr(v, n) == v \div 2^n
shl(v, n) == v * 2^n

PixelInit ==
  /\ img \in Images
  /\ \/ call = "indices_ok" /\ img.palette # <<>> /\ img.depth <= 8
     \/ call = "expand"
     \/ call = "palette"
     \/ call = "rows" /\ img.palette = <<>> /\ img.depth = 8
  /\ fmt \in (IF call \in {"palette", "rows"} THEN Formats ELSE {"RGBA8888"})
  /\ status = "called" /\ pos = 0 /\ result = <<>>

Pixels == img.width * img.height
X == pos % img.width
Y == pos \div img.width

\* The pixel at pos is out, or was the last of n.
Put(bytes, n) ==
  /\ result' = Append(result, bytes)
  /\ pos' = pos + 1
  /\ status' = IF pos + 1 = n THEN "returned" ELSE "running"
  /\ UNCHANGED <<img, call, fmt>>

Refuse ==
  /\ status' = "refused"
  /\ UNCHANGED <<img, call, fmt, pos, result>>

------------------------------------------------------------------------------
(* Samples and indices                                                       *)

\* Sample x of a row of packed bytes, the first in the highest bits.
SampleLsbFirst(bytes, x, depth) ==
  LET per_byte == 8 \div depth
  IN  shr(bytes[x \div per_byte], depth * (x % per_byte)) % 2^depth

sample_at(bytes, x, depth) ==
  LET per_byte == 8 \div depth
      shift == 8 - depth * (x % per_byte) - depth
  IN  shr(bytes[x \div per_byte], shift) % 2^depth

Index(x, y) == IF img.depth = 8 THEN img.rows[y][x]
                                ELSE sample_at(img.rows[y], x, img.depth)

\* indices_ok, up to the first index that is too large.
CheckIndex ==
  /\ call = "indices_ok" /\ status \in {"called", "running"}
  /\ IF Index(X, Y) < PaletteCount(img) THEN Put(<<>>, Pixels) ELSE Refuse

------------------------------------------------------------------------------
(* pxl_image_expand                                                          *)

ToExpand == PaletteCount(img) > 0 \/ img.depth < 8

Expanding == call = "expand" /\ status = "called"

BufferTooSmall == img.size < RowBytes(img) * img.height

\* No buffer of the size announced, or no memory for the output.
ExpandFails == Expanding /\ Refuse

\* The bytes of pixel n as they are.
PlainPixel(n) ==
  LET unit == img.channels * BytesPerChannel(img)
      x == n % img.width
  IN  [k \in 1..unit |-> img.rows[n \div img.width][x * unit + k - 1]]

\* Nothing to expand: a copy.
ExpandCopy ==
  /\ Expanding /\ ~BufferTooSmall /\ ~ToExpand
  /\ result' = [n \in 1..Pixels |-> PlainPixel(n - 1)]
  /\ pos' = Pixels /\ status' = "returned"
  /\ UNCHANGED <<img, call, fmt>>

\* Indices are clamped, alpha ends before the palette may, gray is scaled.
Expanded(v) ==
  LET s == IF v >= PaletteCount(img) THEN PaletteCount(img) - 1 ELSE v
  IN  IF PaletteCount(img) > 0
        THEN img.palette[s + 1]
               \o (IF img.alpha = <<>> THEN <<>>
                   ELSE << IF s < Len(img.alpha) THEN img.alpha[s + 1] ELSE 255 >>)
        ELSE << (v * 255) \div (2^img.depth - 1) >>

ExpandPixel ==
  /\ call = "expand" /\ status \in {"called", "running"}
  /\ ~BufferTooSmall /\ ToExpand
  /\ Put(Expanded(Index(X, Y)), Pixels)

------------------------------------------------------------------------------
(* Packed formats                                                            *)

\* Two bytes, the lower first.
LittleEndian(v) == << v % 256, shr(v, 8) % 256 >>

\* The fields are disjoint, so that `|' is a sum.
Pack5551(r, g, b, a) ==
  shl(shr(r, 3), 11) + shl(shr(g, 3), 6) + shl(shr(b, 3), 1) + shr(a, 7)

Packed(f, r, g, b, a) ==
  CASE f = "RGBA8888" -> <<r, g, b, a>>
    [] f = "RGB565" -> LittleEndian(shl(shr(r, 3), 11) + shl(shr(g, 2), 5) + shr(b, 3))
    [] f = "RGBA5551" -> LittleEndian(Pack5551(r, g, b, a))
    [] f = "RGBA4444" -> LittleEndian(shl(shr(r, 4), 12) + shl(shr(g, 4), 8)
                                       + shl(shr(b, 4), 4) + shr(a, 4))

\* convert_row: gray is red, green and blue; without alpha a pixel is opaque.
Convert(f, p) ==
  IF Len(p) <= 2
    THEN Packed(f, p[1], p[1], p[1], IF Len(p) = 2 THEN p[2] ELSE 255)
    ELSE Packed(f, p[1], p[2], p[3], IF Len(p) = 4 THEN p[4] ELSE 255)

ConvertPixel ==
  /\ call = "rows" /\ status \in {"called", "running"}
  /\ Put(Convert(fmt, PlainPixel(pos)), Pixels)

\* pxl_convert_palette: the alpha list, if it covers the palette.
ClutAlpha == IF Len(img.alpha) >= PaletteCount(img) THEN img.alpha ELSE <<>>

ClutEntry(n) ==
  Convert(fmt, Append(img.palette[n], IF ClutAlpha = <<>> THEN 255 ELSE ClutAlpha[n]))

ConvertNoPalette == call = "palette" /\ status = "called" /\ img.palette = <<>> /\ Refuse

ConvertEntry ==
  /\ call = "palette" /\ status \in {"called", "running"} /\ img.palette # <<>>
  /\ Put(ClutEntry(pos + 1), PaletteCount(img))

PixelNext ==
  \/ CheckIndex
  \/ ExpandFails \/ ExpandCopy \/ ExpandPixel
  \/ ConvertPixel
  \/ ConvertNoPalette \/ ConvertEntry

PixelSpec == PixelInit /\ [][PixelNext]_pixelVars

------------------------------------------------------------------------------
(* What an image shows                                                       *)

\* Bit n of a row, the first being the highest of byte 0.
BitOf(bytes, n) == shr(bytes[n \div 8], 7 - (n % 8)) % 2

\* PNG: a sample is the next `depth' bits of its row, the first the highest.
SampleOf(p, n) ==
  LET first == (n % p.width) * p.depth
  IN  SumTo([k \in 1..p.depth |->
               BitOf(p.rows[n \div p.width], first + k - 1) * 2^(p.depth - k)], p.depth)

InPalette(p) == \A n \in 0..(p.width * p.height - 1) : SampleOf(p, n) < PaletteCount(p)

\* Entries behind the end of the alpha list are opaque.
AlphaOf(p, s) == IF s < Len(p.alpha) THEN p.alpha[s + 1] ELSE 255

\* A field of a packed pixel: its n bits from bit m on.
Field(q, m, n) == shr(q[1] + 256 * q[2], m) % 2^n

\* A pixel of the format stands for the colour, as exactly as its fields are wide.
Stands(f, q, r, g, b, a) ==
  CASE f = "RGBA8888" -> q = <<r, g, b, a>>
    [] f = "RGB565" -> <<Field(q, 11, 5), Field(q, 5, 6), Field(q, 0, 5)>>
                         = <<shr(r, 3), shr(g, 2), shr(b, 3)>>
    [] f = "RGBA5551" -> <<Field(q, 11, 5), Field(q, 6, 5), Field(q, 1, 5), Field(q, 0, 1)>>
                           = <<shr(r, 3), shr(g, 3), shr(b, 3), shr(a, 7)>>
    [] f = "RGBA4444" -> <<Field(q, 12, 4), Field(q, 8, 4), Field(q, 4, 4), Field(q, 0, 4)>>
                           = <<shr(r, 4), shr(g, 4), shr(b, 4), shr(a, 4)>>

------------------------------------------------------------------------------
(* Properties                                                                *)

\* Indices are accepted exactly if every sample of the picture is one of the
\* palette, whatever the bits behind the end of a row are.
IndexCheckIsExact ==
  (call = "indices_ok" /\ status \in {"refused", "returned"}) =>
    (status = "returned" <=> InPalette(img))

\* An expanded image shows the picture: each pixel the colour of its own entry,
\* with that entry's alpha, or its gray from black to white.
ExpandShowsPicture ==
  (call = "expand" /\ status = "returned" /\ ToExpand /\ (img.palette # <<>> => InPalette(img))) =>
    /\ Len(result) = Pixels
    /\ \A n \in 0..(Pixels - 1) :
         LET s == SampleOf(img, n)
         IN  IF img.palette = <<>>
               THEN result[n + 1] = <<s * (255 \div (2^img.depth - 1))>>
               ELSE /\ SubSeq(result[n + 1], 1, 3) = img.palette[s + 1]
                    /\ (IF Len(result[n + 1]) = 4 THEN result[n + 1][4] ELSE 255)
                         = AlphaOf(img, s)

\* A row or a palette in a packed format stands for the colours of the image; of
\* the alphas of a palette this holds if the list is empty or covers it.
PackedStandsForColours ==
  /\ call = "rows" =>
       \A n \in 1..Len(result) :
         LET p == PlainPixel(n - 1)
             gray == img.channels <= 2
         IN  Stands(fmt, result[n], p[1], IF gray THEN p[1] ELSE p[2],
                    IF gray THEN p[1] ELSE p[3],
                    IF img.channels \in {2, 4} THEN p[img.channels] ELSE 255)
  /\ (call = "palette" /\ Len(img.alpha) \in {0, PaletteCount(img)}) =>
       \A n \in 1..Len(result) :
         Stands(fmt, result[n], img.palette[n][1], img.palette[n][2],
                img.palette[n][3], AlphaOf(img, n - 1))

\* What a caller is shown, or told of, is the picture.
PixelsAreShown == IndexCheckIsExact /\ ExpandShowsPicture /\ PackedStandsForColours

\* The inductive invariant: pixel for pixel, the output is what the picture has
\* there, and a refusal has found an index behind the palette.
Total == IF call = "palette" THEN PaletteCount(img) ELSE Pixels

CallOk ==
  /\ img \in Images
  /\ call \in {"indices_ok", "expand", "palette", "rows"}
  /\ call = "indices_ok" => img.palette # <<>> /\ img.depth <= 8
  /\ call = "rows" => img.palette = <<>> /\ img.depth = 8
  /\ fmt \in Formats
  /\ status \in {"called", "running", "refused", "returned"}
  /\ pos \in 0..Total /\ result = [n \in 1..pos |-> result[n]]
  /\ (status \in {"called", "running"} /\ Total # 0) => pos < Total
  /\ status = "called" => pos = 0
  /\ status = "returned" => pos = Total

PixelDone(n, e) ==
  /\ call = "indices_ok" => SampleOf(img, n) < PaletteCount(img)
  /\ call = "expand" /\ ToExpand => e = Expanded(SampleOf(img, n))
  /\ call = "rows" => e = Convert(fmt, PlainPixel(n))
  /\ call = "palette" => e = ClutEntry(n + 1)

PixelsDone == \A n \in 0..(pos - 1) : PixelDone(n, result[n + 1])

RefusedRightly ==
  (call = "indices_ok" /\ status = "refused") => ~InPalette(img)

PixelInv == CallOk /\ PixelsDone /\ RefusedRightly

\* pxl.h: "Entries beyond palette_alpha's length (or when it is empty) read
\* fully opaque", and so the entries within it with their alpha.
ClutKeepsAlpha ==
  call = "palette" =>
    \A n \in 1..Len(result) :
      Stands(fmt, result[n], img.palette[n][1], img.palette[n][2],
             img.palette[n][3], AlphaOf(img, n - 1))
==============================================================================
