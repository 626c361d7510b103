------------------------------ MODULE GifImage -------------------------------
(***************************************************************************)
(* read_image of gif.c, once the data of an image are concatenated: they   *)
(* are decoded into raw, and the rows of an interlaced image copied from   *)
(* there to the indices.  An image that is not interlaced is its raw.      *)
(***************************************************************************)
EXTENDS GifLzw, GifInterlace

imageVars == <<vars, rowVars>>

\* h rows of the same width.
w == out_len \div h

ImageInit ==
  /\ Init /\ RowsInit
  /\ out_len % h = 0

Decode == Next /\ UNCHANGED rowVars

Deinterlace ==
  /\ result = "ok"
  /\ RowsNext
  /\ UNCHANGED vars

ImageNext == Decode \/ Deinterlace

ImageSpec == ImageInit /\ [][ImageNext]_imageVars

------------------------------------------------------------------------------
(* A property of the two together.                                           *)

\* A row that deinterlace is about to copy was decoded to its last pixel: it
\* never reads what malloc left in raw.
CopiesDecodedRows ==
  (result = "ok" /\ pass < 4 /\ row < h) => (sy + 1) * w <= Len(out)
==============================================================================
