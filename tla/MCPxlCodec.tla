------------------------------ MODULE MCPxlCodec ------------------------------
(***************************************************************************)
(* Small files, cut off at every byte, are decoded; small images of every  *)
(* kind are encoded, at the limits of the format and just beyond them, and *)
(* decoded again.  In the same run, apart from these (`walk'), all small   *)
(* pictures go through the row filters, and decoded stills are converted   *)
(* to what a caller shows.                                                 *)
(***************************************************************************)
EXTENDS PxlCodec, MCPxlFile, PxlFilters, PxlPixels

VARIABLE walk  \* "codec", "filters" or "pixels": what runs; the others rest

\* An 8-bit gray image of one row, in the fields of pxl_image.
Plain ==
  [ width |-> 2, height |-> 1, channels |-> 1, bytes_per_channel |-> 1,
    bit_depth |-> 8, buffer |-> 9, palette |-> 0, palette_alpha |-> 0,
    metadata |-> 0, foreign |-> {} ]

\* Images of `width' at every depth; bit_depth 0 is the depth of the bytes.
Depths ==
  UNION { { [Plain EXCEPT !.bit_depth = d, !.width = w, !.channels = c] :
              c \in 0..5, d \in {0, 1, 2, 8}, w \in {0, 2, 8, 9} },
          { [Plain EXCEPT !.bit_depth = 16, !.bytes_per_channel = b, !.buffer = n] :
              b \in 1..3, n \in {3, 4} },
          { [Plain EXCEPT !.height = h, !.buffer = n, !.width = 8] :
              h \in 0..3, n \in {0, 8, 16, 24} } }

\* Indexed images: entries at and past what the depth and the format allow.
Indexed ==
  { [Plain EXCEPT !.bit_depth = d, !.palette = p, !.palette_alpha = a, !.channels = c,
                  !.metadata = m, !.foreign = f] :
      d \in {1, 2, 8}, p \in {2, 3, 4, 6, 9, 12, 15}, a \in {0, 1, 3}, c \in {1, 3},
      m \in {0, 2}, f \in {{}, {0}} }

\* Metadata that just fit their field in the header, and that do not.
Annotated ==
  { [Plain EXCEPT !.metadata = m] : m \in {Uint32Max, Uint32Max + 1, Uint32Max + 3} }

SmallSources == Depths \cup Indexed \cup Annotated

MayRunOut == BOOLEAN
NeverOut == {FALSE}

\* Pictures of every byte below Base.
PicturesOf(width, height, bpp) ==
  [ width : {width}, height : {height}, bpp : {bpp},
    pix : [0..(height - 1) -> [0..(width * bpp - 1) -> Byte]] ]

SmallPictures ==
  PicturesOf(3, 2, 1) \cup PicturesOf(2, 1, 2) \cup PicturesOf(2, 1, 3)
    \cup PicturesOf(1, 1, 4)

Image(width, height, channels, depth, bytes, palette, alpha) ==
  LET n == (width * channels * depth + 7) \div 8
  IN  [ width : {width}, height : {height}, channels : {channels}, depth : {depth},
        size : {n * height - 1, n * height},
        rows : [0..(height - 1) -> [0..(n - 1) -> bytes]],
        palette : {palette}, alpha : alpha ]

Red == <<255, 8, 3>>
Dark == <<1, 130, 16>>
Blue == <<7, 64, 248>>

\* Gray and indexed pictures of every depth, with alpha for none, some or all of
\* the entries, and indices behind the palette; rows that end within a byte.
SmallImages ==
  UNION { Image(3, 2, 1, depth, {0, 27, 120, 228}, <<>>, {<<>>})
            \cup Image(3, 2, 1, depth, {0, 64, 80, 170}, <<Red, Dark>>,
                       {<<>>, <<9>>, <<9, 128>>}) : depth \in {1, 2, 4} }
    \cup Image(2, 1, 1, 8, {0, 1, 2}, <<Red, Dark, Blue>>, {<<>>, <<9>>, <<0, 255, 16>>})
    \cup Image(9, 1, 1, 1, {0, 128, 170}, <<Blue, Red>>, {<<>>, <<0>>})
    \cup UNION { Image(1, 2, channels, 8, {0, 7, 200}, <<>>, {<<>>}) : channels \in {1, 2} }
    \cup UNION { Image(1, 1, channels, 8, {0, 7, 200, 255}, <<>>, {<<>>}) : channels \in {3, 4} }
    \cup Image(2, 1, 1, 16, {0, 200}, <<>>, {<<>>})

Rows == [r \in {0} |-> [k \in {0} |-> 0]]

NoPicture == [width |-> 1, height |-> 1, bpp |-> 1, pix |-> Rows]
NoImage == [ width |-> 1, height |-> 1, channels |-> 1, depth |-> 8, size |-> 1,
             rows |-> Rows, palette |-> <<>>, alpha |-> <<>> ]

idleFilters ==
  /\ pic = NoPicture
  /\ filter = "NONE" /\ step = "pack" /\ row = 0 /\ type = 0
  /\ best_s = -1 /\ best_type = NONE /\ best = NoBytes /\ cand = NoBytes
  /\ stream = [r \in {} |-> 0] /\ i = 0 /\ out = [r \in RowsOf |-> NoBytes]

idlePixels ==
  /\ img = NoImage
  /\ call = "expand" /\ fmt = "RGBA8888" /\ status = "called" /\ pos = 0 /\ result = <<>>

\* The codec rests between two calls; and while a foreign file is decoded the
\* encoder does.
idleEncoder == input = Plain /\ flags = {}
idleDecoder == file = (CHOOSE f \in BcifFiles : TRUE) /\ present = 0
idleCodec ==
  /\ idleEncoder /\ EncodeInit /\ origin = "foreign"
  /\ idleDecoder /\ pc = "done" /\ heap = {}
  /\ ds = FreshContext /\ y = 0 /\ have = 0 /\ image = {} /\ starved = FALSE

\* CodecInit, what is fixed first.
MCInit ==
  \/ /\ walk = "codec" /\ idleFilters /\ idlePixels
     /\ \/ origin = "foreign" /\ idleEncoder /\ EncodeInit /\ Init
        \/ origin = "encoding" /\ idleDecoder /\ Init /\ EncodeInit
  \/ walk = "filters" /\ idlePixels /\ idleCodec /\ FilterInit
  \/ walk = "pixels" /\ idleFilters /\ idleCodec /\ PixelInit

MCNext ==
  \/ walk = "codec" /\ CodecNext /\ UNCHANGED <<walk, filterVars, pixelVars>>
  \/ walk = "filters" /\ FilterNext /\ UNCHANGED <<walk, codecVars, pixelVars>>
  \/ walk = "pixels" /\ PixelNext /\ UNCHANGED <<walk, codecVars, filterVars>>

mcVars == <<walk, codecVars, filterVars, pixelVars>>

MCSpec == MCInit /\ [][MCNext]_mcVars /\ WF_codecVars(CodecNext)
==============================================================================
