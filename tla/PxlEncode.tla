------------------------------ MODULE PxlEncode ------------------------------
(***************************************************************************)
(* pxl_encode_ex of pxl_codec_encode.c: a picture is filtered with every   *)
(* candidate filter, each result is compressed, and the smallest frame is  *)
(* put into a file behind header, palette and metadata.                    *)
(*                                                                         *)
(* What is in a buffer is reduced to where it came from and how long it    *)
(* is: a compressed frame is [of, bytes, n], n bytes that hold the `bytes' *)
(* filtered bytes of filter `of'.  The filters themselves are PxlFilters.  *)
(* Any allocation may fail, those within pack_adaptive and zstd included.  *)
(***************************************************************************)
EXTENDS PxlFormat, Sequences, SequencesExt

CONSTANTS
  Sources,     \* the images a caller may pass, in the fields of pxl_image
  FrameSizes,  \* the sizes zstd may come to
  Uint32Max,   \* the largest value of a uint32_t
  EncodeOom    \* the outcomes of an allocation: {FALSE} or BOOLEAN

\* An image in the fields of pxl_image: palette, palette_alpha and metadata are
\* byte counts, `foreign' the rows with an index beyond the palette.
IsSource(s) ==
  /\ s \in [ width : Nat, height : Nat, channels : Nat, bytes_per_channel : Nat,
             bit_depth : Nat, buffer : Nat, palette : Nat, palette_alpha : Nat,
             metadata : Nat, foreign : SUBSET Nat ]
  /\ s.foreign \subseteq 0..(s.height - 1)

ASSUME EncodeAssumption ==
  /\ \A s \in Sources : IsSource(s)
  /\ FrameSizes \subseteq Nat \ {0}
  /\ Uint32Max \in Nat /\ 8 * PXL_MAX_PIXELS + PXL_MAX_DIM <= Uint32Max
  /\ EncodeOom \subseteq BOOLEAN

VARIABLES
  input, flags,      \* the arguments
  at,              \* where the call is
  blocks,          \* the blocks allocated: "filtered", two for frames, "file"
  ci,              \* candidates tried
  slot,            \* what is in each of the two blocks for frames
  best_block, work,      \* which of them is which
  found,           \* best_frame # NULL
  csize, chosen,   \* the smallest size so far, and the filter that came to it
  filtered_bytes,
  encoded,         \* the file returned
  tried,           \* what each filter tried came to, 0 if it failed
  short            \* an allocation has failed

encodeVars == <<input, flags, at, blocks, ci, slot, best_block, work, found, csize, chosen,
                filtered_bytes, encoded, tried, short>>
loopVars == <<ci, slot, best_block, work, found, csize, chosen, filtered_bytes, tried>>

NoFile == [of |-> "none"]
Garbage == [of |-> "none", bytes |-> 0, n |-> 0]

------------------------------------------------------------------------------
(* The picture                                                               *)

\* pxl_bit_depth and pxl_palette_count
Depth == IF input.bit_depth # 0 THEN input.bit_depth ELSE input.bytes_per_channel * 8
EntryCount == input.palette \div 3

\* palette_ok; input.palette and input.palette_alpha are sizes in bytes.
PaletteOkAnyCount ==
  IF EntryCount = 0 THEN input.palette_alpha = 0
  ELSE /\ input.palette % 3 = 0 /\ EntryCount <= PXL_MAX_PALETTE
       /\ input.channels = 1 /\ Depth <= 8

PaletteOk ==
  IF EntryCount = 0 THEN input.palette_alpha = 0
  ELSE /\ input.palette % 3 = 0 /\ EntryCount <= PXL_MAX_PALETTE
       /\ input.channels = 1 /\ Depth <= 8
       /\ Depth < 8 => EntryCount <= 2 ^ Depth
       /\ input.palette_alpha <= EntryCount

\* The cast of a size_t to a field of the header.
Uint32(n) == n % (Uint32Max + 1)

\* The header for the frame of filter f.
HeaderOf(f, size) ==
  [ good_magic |-> TRUE, version |-> 1, channels |-> input.channels, bit_depth |-> Depth,
    color_filter |-> f, width |-> input.width, height |-> input.height,
    raw_byte_count |-> Uint32(size), meta_byte_count |-> Uint32(input.metadata),
    palette_count |-> EntryCount,
    palette_alpha_count |-> IF EntryCount = 0 THEN 0 ELSE input.palette_alpha ]

G == HeaderOf("NONE", 0)

\* What pxl_encode_ex refuses to encode.
Encodable ==
  /\ input.buffer > 0 /\ input.width # 0 /\ input.height # 0
  /\ input.channels \in 1..4
  /\ input.bytes_per_channel \in {1, 2}
  /\ input.bytes_per_channel = IF Depth = 16 THEN 2 ELSE 1
  /\ PaletteOk
  /\ GeometryOk(G)
  /\ input.buffer >= RowBytesOf(input.width, input.channels, Depth) * input.height

\* The candidates, the one that decodes fastest first.
Candidates ==
  <<"NONE", "DELTA">>
    \o (IF "FAST_DECODE" \notin flags THEN <<"ADAPTIVE">> ELSE <<>>)
    \o (IF /\ flags \cap {"PROGRESSIVE", "FAST_DECODE"} = {} /\ EntryCount = 0
           /\ Depth = 8 /\ input.channels \in {3, 4}
          THEN <<"BCIF">> ELSE <<>>)

\* apply_filter: the bytes it writes.
FilteredBytes(f) == FilteredSize(f, FilterWidth(G), input.height, PixelBytes(G))

------------------------------------------------------------------------------
EncodeInit ==
  /\ input \in Sources
  /\ flags \in SUBSET {"PROGRESSIVE", "FAST_DECODE"}
  /\ at = "begin" /\ blocks = {}
  /\ ci = 0 /\ slot = [b \in {"A", "B"} |-> Garbage]
  /\ best_block = "A" /\ work = "B" /\ found = FALSE
  /\ csize = 0 /\ chosen = "DELTA" /\ filtered_bytes = 0
  /\ encoded = NoFile /\ tried = <<>> /\ short = FALSE

ReturnNothing(freed) ==
  at' = "returned" /\ blocks' = blocks \ freed /\ UNCHANGED encoded

CheckImage ==
  /\ at = "begin"
  /\ IF Encodable THEN at' = "buffers" /\ UNCHANGED <<blocks, encoded>>
                  ELSE ReturnNothing({})
  /\ UNCHANGED <<input, flags, loopVars, short>>

\* filtered, best_block and work; one that was not to be had frees the others.
AllocateBuffers ==
  /\ at = "buffers"
  /\ \E oom \in EncodeOom :
       IF oom THEN short' = TRUE /\ ReturnNothing({})
              ELSE /\ blocks' = {"filtered", "A", "B"}
                   /\ at' = "try"
                   /\ UNCHANGED <<encoded, short>>
  /\ UNCHANGED <<input, flags, loopVars>>

\* best_block and work both keep pointing to the block that was just filled.
PromoteNoSwap == best_block' = work /\ work' = work

\* work becomes best_block, and the old best_block is written over by the next candidate.
PromoteWork == best_block' = work /\ work' = best_block

Smallest(n) == ~found \/ n < csize

\* A candidate that no memory was left for is passed over: pack_adaptive and zstd
\* allocate, and zstd may have written half a frame by then.
SkipCandidate(f) ==
  /\ TRUE \in EncodeOom /\ short' = TRUE
  /\ slot' \in {slot, [slot EXCEPT ![work] = Garbage]}
  /\ tried' = Append(tried, [of |-> f, n |-> 0])
  /\ UNCHANGED <<best_block, work, found, csize, chosen, filtered_bytes>>

Compress(f) ==
  \E n \in FrameSizes :
    /\ slot' = [slot EXCEPT ![work] = [of |-> f, bytes |-> FilteredBytes(f), n |-> n]]
    /\ tried' = Append(tried, [of |-> f, n |-> n])
    /\ IF Smallest(n)
         THEN /\ PromoteWork
              /\ found' = TRUE /\ csize' = n /\ chosen' = f
              /\ filtered_bytes' = FilteredBytes(f)
         ELSE UNCHANGED <<best_block, work, found, csize, chosen, filtered_bytes>>
    /\ UNCHANGED short

TryCandidate ==
  /\ at = "try" /\ ci < Len(Candidates)
  /\ LET f == Candidates[ci + 1] IN SkipCandidate(f) \/ Compress(f)
  /\ ci' = ci + 1
  /\ UNCHANGED <<input, flags, at, blocks, encoded>>

\* The loop is over.
EndTries ==
  /\ at = "try" /\ ci = Len(Candidates)
  /\ IF found THEN /\ at' = "assemble"
                   /\ blocks' = blocks \ {"filtered", work}
                   /\ UNCHANGED encoded
              ELSE ReturnNothing({"filtered", work, best_block})
  /\ UNCHANGED <<input, flags, loopVars, short>>

\* The metadata that the length in the header leaves out.
Surplus == input.metadata - Uint32(input.metadata)

\* A frame of zstd: nothing comes out of it before its last byte.  What a decoder
\* takes for the frame begins with the surplus, which is taken to be none itself.
FrameOf(c, n) ==
  [ n |-> Surplus + n, prod |-> [k \in 0..(Surplus + n) |-> IF k = Surplus + n THEN c.bytes ELSE 0],
    bad |-> IF Surplus = 0 THEN 0 ELSE 1 ]

\* Header, palette, metadata, and the first csize bytes of best_block.
ChosenFile ==
  [ hdr |-> HeaderOf(chosen, filtered_bytes),
    row |-> [y \in 0..(input.height - 1) |->
               IF EntryCount > 0 /\ y \in input.foreign THEN "bad_index" ELSE "ok"],
    frame |-> FrameOf(slot[best_block], csize), trailing |-> 0 ]

Assemble ==
  /\ at = "assemble"
  /\ \E oom \in EncodeOom :
       IF oom
         THEN short' = TRUE /\ ReturnNothing({best_block})
         ELSE /\ at' = "returned"
              /\ blocks' = (blocks \ {best_block}) \cup {"file"}
              /\ encoded' = ChosenFile
              /\ UNCHANGED short
  /\ UNCHANGED <<input, flags, loopVars>>

EncodeNext ==
  \/ CheckImage \/ AllocateBuffers \/ TryCandidate \/ EndTries \/ Assemble

EncodeSpec == EncodeInit /\ [][EncodeNext]_encodeVars

------------------------------------------------------------------------------
(* Properties                                                                *)

\* The first of the smallest frames is the k-th.
SmallestIs(k) ==
  \A j \in 1..Len(tried) :
    tried[j].n > 0 => tried[k].n < tried[j].n \/ (tried[k].n = tried[j].n /\ k <= j)

\* The file holds the smallest frame of all the filters the flags allow, the one
\* that decodes fastest among those of a size, under a header that says by which
\* filter it was made: a decoder has no other way to know.
SmallestFrameKept ==
  encoded # NoFile =>
    \E k \in 1..Len(tried) :
      /\ tried[k].of = encoded.hdr.color_filter /\ Surplus + tried[k].n = encoded.frame.n
      /\ slot[best_block].of = encoded.hdr.color_filter
      /\ "FAST_DECODE" \in flags => tried[k].of \in {"NONE", "DELTA"}
      /\ "PROGRESSIVE" \in flags => tried[k].of # "BCIF"
      /\ SmallestIs(k)

------------------------------------------------------------------------------
(* The inductive invariant behind it                                         *)

Frames == [of : ColorFilters \cup {"none"}, bytes : Nat, n : Nat]

EncodeTypeOK ==
  /\ IsSource(input) /\ flags \subseteq {"PROGRESSIVE", "FAST_DECODE"}
  /\ at \in {"begin", "buffers", "try", "assemble", "returned"}
  /\ slot \in [{"A", "B"} -> Frames]
  /\ best_block \in {"A", "B"} /\ work \in {"A", "B"} \ {best_block}
  /\ found \in BOOLEAN /\ short \in BOOLEAN
  /\ csize \in Nat /\ filtered_bytes \in Nat
  /\ tried \in Seq([of : ColorFilters, n : Nat])
  /\ ci = Len(tried) /\ ci <= Len(Candidates)

\* The two blocks for frames never become one, and best_block holds the frame of the
\* chosen filter at its size, whatever work was used for since.
BestKept ==
  /\ \A k \in 1..ci : tried[k].of = Candidates[k] /\ (tried[k].n = 0 => short)
  /\ found <=> \E k \in 1..ci : tried[k].n > 0
  /\ found =>
       /\ slot[best_block] = [of |-> chosen, bytes |-> filtered_bytes, n |-> csize]
       /\ filtered_bytes = FilteredBytes(chosen) /\ csize > 0
       /\ \E k \in 1..ci : tried[k].of = chosen /\ tried[k].n = csize /\ SmallestIs(k)

\* A returned call owns no block but the file it returns, and it returns one
\* unless the image cannot be encoded or memory ran out.
CallInStep ==
  /\ at \in {"begin", "buffers"} => blocks = {} /\ ci = 0
  /\ at = "try" => blocks = {"filtered", "A", "B"}
  /\ at = "assemble" => blocks = {best_block} /\ found
  /\ at \in {"buffers", "try", "assemble"} => Encodable
  /\ at # "returned" => encoded = NoFile
  /\ at = "returned" =>
       /\ blocks = IF encoded = NoFile THEN {} ELSE {"file"}
       /\ encoded = NoFile => short \/ ~Encodable

FileIsChosen == encoded # NoFile => Encodable /\ found /\ encoded = ChosenFile

EncodeInv ==
  /\ EncodeTypeOK
  /\ BestKept
  /\ CallInStep
  /\ FileIsChosen
==============================================================================
