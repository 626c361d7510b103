------------------------------ MODULE MCPxlFile ------------------------------
(***************************************************************************)
(* Small files.  A file is a header, the kind of each row, and a frame of  *)
(* at most MaxFrame compressed bytes with every way of spreading its       *)
(* output over them.                                                       *)
(***************************************************************************)
EXTENDS PxlFile, FiniteSets

CONSTANTS MaxFrame, MaxHeight, Trailing

\* An 8-bit picture of 1-pixel rows: F is 1 (gray), 2 (ADAPTIVE gray) or 3 (BCIF).
Header(filter, channels, height, meta, pal, alpha) ==
  [ good_magic |-> TRUE, version |-> 1, channels |-> channels, bit_depth |-> 8,
    color_filter |-> filter, width |-> 1, height |-> height,
    raw_byte_count |-> FilteredSize(filter, 1, height, channels),
    meta_byte_count |-> meta, palette_count |-> pal,
    palette_alpha_count |-> alpha ]

\* Frames of n bytes whose output grows in steps of at most the whole, up to
\* `size' or one byte more or less.
FramesOf(size, bads) ==
  UNION { { [n |-> n, prod |-> p, bad |-> b] :
              p \in { q \in [0..n -> 0..(size + 1)] :
                        /\ q[0] = 0
                        /\ \A i \in 1..n : q[i - 1] <= q[i]
                        /\ q[n] >= size - 1 },
              b \in bads \cap (0..n) } : n \in 1..MaxFrame }

FilesOf(h, kinds, bads) ==
  { [hdr |-> h, row |-> r, frame |-> fr, trailing |-> t] :
      r \in [0..(h.height - 1) -> kinds],
      fr \in FramesOf(h.raw_byte_count, bads), t \in Trailing }

\* Row filters, from the plainest header to one with every section.
RowFiles ==
  UNION { FilesOf(Header("DELTA", 2, ht, 0, 0, 0), {"ok"}, {0, 2})
            \cup FilesOf(Header("ADAPTIVE", 1, ht, 1, 0, 0), {"ok", "bad_type"}, {0})
            \cup FilesOf(Header("NONE", 1, ht, 1, 1, 1), {"ok", "bad_index"}, {0})
            : ht \in 1..MaxHeight }

BcifFiles == FilesOf(Header("BCIF", 3, 1, 0, 0, 0), {"ok"}, {0, 2})

\* Headers stream_begin refuses: each breaks one rule.
BadHeaders ==
  LET good == Header("DELTA", 1, 1, 0, 0, 0)
  IN  { [good EXCEPT !.good_magic = FALSE], [good EXCEPT !.version = 2],
        [good EXCEPT !.width = 0], [good EXCEPT !.raw_byte_count = 2],
        [good EXCEPT !.color_filter = "UNKNOWN"],
        [good EXCEPT !.color_filter = "BCIF"],
        [good EXCEPT !.palette_alpha_count = 1],
        [good EXCEPT !.bit_depth = 3] }

BadFiles ==
  { [hdr |-> h, row |-> [y \in 0..0 |-> "ok"],
     frame |-> [n |-> 1, prod |-> [i \in 0..1 |-> i], bad |-> 0],
     trailing |-> 0] : h \in BadHeaders }

AllFiles == RowFiles \cup BcifFiles \cup BadFiles
==============================================================================
