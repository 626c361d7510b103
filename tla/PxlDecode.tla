------------------------------ MODULE PxlDecode ------------------------------
(***************************************************************************)
(* pxl_decode, the one-shot decoder of pxl_codec_decode.c: the caller has  *)
(* `present' bytes of a file in a buffer and gets an image or nothing.     *)
(* Row filters are decoded through a window of one filtered row            *)
(* (decode_rows_bounded), BCIF through the whole filtered image.           *)
(*                                                                         *)
(* Any allocation may fail.  `heap' holds the blocks that are allocated,   *)
(* by the name of the variable that points to them; a returned image owns  *)
(* some of them.  The bytes after the frame are no zstd frame themselves.  *)
(***************************************************************************)
EXTENDS PxlFile

CONSTANT OutOfMemory  \* the outcomes of an allocation: {FALSE} or BOOLEAN

ASSUME DecodeAssumption == OutOfMemory \subseteq BOOLEAN

VARIABLES
  present,   \* file.size: the first bytes of the file, perhaps not all
  pc,        \* where the call is
  heap,      \* the blocks allocated
  ds,        \* the zstd context
  y,         \* rows unfiltered into pixels so far
  have,      \* out.pos: bytes of row y in the window
  image,     \* the parts of the returned image; none is returned while {}
  starved    \* an allocation has failed

vars == <<file, present, pc, heap, ds, y, have, image, starved>>

rowVars == <<ds, y, have>>

\* The part of the frame, and of what follows it, that the buffer holds.
FramePresent == Smaller(file.frame.n, present - FrameOffset)
Beyond       == present - FrameOffset - FramePresent

\* in.size - in.pos: what a call of the decompressor has not read.
Unread == FramePresent + Beyond - ds.in

CallBegins ==
  /\ present \in 0..FileLength
  /\ pc = "header"
  /\ heap = {}
  /\ ds = FreshContext /\ y = 0 /\ have = 0
  /\ image = {} /\ starved = FALSE

Init == file \in Files /\ CallBegins

------------------------------------------------------------------------------
\* The call returns no image, having freed `blocks'.
ReturnNone(blocks) ==
  /\ pc' = "done"
  /\ heap' = heap \ blocks
  /\ UNCHANGED image

\* An allocation succeeds and the call goes on, or fails.
Allocate(blocks, next, undone) ==
  \E oom \in OutOfMemory :
    IF oom THEN starved' = TRUE /\ ReturnNone(undone)
           ELSE /\ heap' = heap \cup blocks
                /\ pc' = next
                /\ UNCHANGED <<image, starved>>

\* Header, limits, announced size, and the sections before the frame.
CheckHeader ==
  /\ pc = "header"
  /\ IF /\ present >= PXL_HEADER_BYTES
        /\ Decodable(H)
        /\ PaletteBytes(H) <= present - PXL_HEADER_BYTES
        /\ H.meta_byte_count <= present - (PXL_HEADER_BYTES + PaletteBytes(H))
       THEN pc' = "pixels" /\ UNCHANGED <<heap, image>>
       ELSE ReturnNone({})
  /\ UNCHANGED <<file, present, rowVars, starved>>

AllocatePixels ==
  /\ pc = "pixels"
  /\ Allocate({"pixels"}, IF Bcif THEN "filtered" ELSE "window", {})
  /\ UNCHANGED <<file, present, rowVars>>

------------------------------------------------------------------------------
(* BCIF                                                                      *)

AllocateFiltered ==
  /\ pc = "filtered"
  /\ Allocate({"filtered"}, "planes", {"pixels"})
  /\ UNCHANGED <<file, present, rowVars>>

\* ZSTD_decompress takes the rest of the buffer, which has to be one whole
\* frame that fits the announced size.
WholeFrame ==
  /\ FramePresent = file.frame.n /\ Beyond = 0
  /\ file.frame.bad = 0
  /\ RawSize <= H.raw_byte_count

DecompressPlanes ==
  /\ pc = "planes"
  /\ IF WholeFrame /\ RawSize = H.raw_byte_count
       THEN /\ pc' = "palette"
            /\ heap' = heap \ {"filtered"}
            /\ y' = H.height
            /\ UNCHANGED image
       ELSE ReturnNone({"filtered", "pixels"}) /\ UNCHANGED y
  /\ UNCHANGED <<file, present, ds, have, starved>>

------------------------------------------------------------------------------
(* decode_rows_bounded                                                       *)

\* Its row buffer and its zstd stream, freed at `done' whatever happened.
AllocateWindow ==
  /\ pc = "window"
  /\ Allocate({"frow", "ds"}, "rows", {"pixels"})
  /\ UNCHANGED <<file, present, rowVars>>

RowsFail == ReturnNone({"frow", "ds", "pixels"})

\* What a call with `room' bytes of output can do: fail, or move the context.
\* Behind the frame it meets bytes that start no other.
Outcomes(room) ==
  LET avail == FramePresent - ds.in
  IN  IF FrameComplete(file.frame, ds)
        THEN { [ok |-> Beyond = 0, ds |-> ds] }
        ELSE { IF ReadError(file.frame, ds, d)
                 THEN [ok |-> FALSE, ds |-> ds]
                 ELSE [ok |-> TRUE, ds |-> AfterCall(file.frame, ds, d, avail, room)]
               : d \in ReadStops(file.frame, ds, avail, room) }

GivesUpNever(filled, moved) == FALSE

\* Neither side moved and the row is still short.
GivesUp(filled, moved) == filled < F /\ ~moved

RoomOneMore == F + 1 - have

\* out.size - out.pos
Room == F - have

\* unfilter_row refuses the row it is given.
BadType(filled) == filled = F /\ file.row[y] = "bad_type"

\* One turn of while (y < height); the window always has room here.
DecodeRow ==
  /\ pc = "rows" /\ y < H.height
  /\ \E o \in Outcomes(Room) :
       LET filled == have + (o.ds.out - ds.out)
           fails  == ~o.ok \/ GivesUp(filled, o.ds # ds) \/ BadType(filled)
       IN  \/ fails /\ RowsFail /\ UNCHANGED rowVars
           \/ /\ ~fails
              /\ ds' = o.ds
              /\ y' = IF filled = F THEN y + 1 ELSE y
              /\ have' = IF filled = F THEN 0 ELSE filled
              /\ UNCHANGED <<pc, heap, image>>
  /\ UNCHANGED <<file, present, starved>>

OverLongIgnored(o) == FALSE

\* One more byte of output means the frame is over-long.
OverLong(o) == ~o.ok \/ o.ds.out # ds.out

RowsDone ==
  /\ pc' = "palette"
  /\ heap' = heap \ {"frow", "ds"}
  /\ UNCHANGED image

\* Every row is out: what the buffer still holds must add nothing.
CheckOverLong ==
  /\ pc = "rows" /\ y = H.height
  /\ \/ Unread = 0 /\ RowsDone
     \/ /\ Unread > 0
        /\ \E o \in Outcomes(1) : IF OverLong(o) THEN RowsFail ELSE RowsDone
  /\ UNCHANGED <<file, present, rowVars, starved>>

------------------------------------------------------------------------------
(* The sections before the frame                                             *)

PaletteParts ==
  (IF H.palette_count > 0 THEN {"palette"} ELSE {})
    \cup (IF H.palette_alpha_count > 0 THEN {"palette_alpha"} ELSE {})

CopyPalette ==
  /\ pc = "palette"
  /\ IF PaletteBytes(H) = 0
       THEN pc' = "indices" /\ UNCHANGED <<heap, image, starved>>
       ELSE Allocate(PaletteParts, "indices", {"pixels"})
  /\ UNCHANGED <<file, present, rowVars>>

IndicesOk == \A r \in 0..(H.height - 1) : file.row[r] # "bad_index"

UndecodedPixels == {"pixels"}

\* What a failed index check frees.
Undecoded == {"palette", "palette_alpha", "pixels"}

CheckIndices ==
  /\ pc = "indices"
  /\ IF H.palette_count > 0 /\ ~IndicesOk
       THEN ReturnNone(Undecoded)
       ELSE pc' = "metadata" /\ UNCHANGED <<heap, image>>
  /\ UNCHANGED <<file, present, rowVars, starved>>

ImageParts == {"pixels", "palette", "palette_alpha", "metadata"}

\* The metadata block is dropped when there is no memory for it.
CopyMetadata ==
  /\ pc = "metadata"
  /\ \E oom \in OutOfMemory :
       /\ heap' = IF H.meta_byte_count = 0 \/ oom THEN heap
                                                  ELSE heap \cup {"metadata"}
       /\ starved' = (starved \/ (H.meta_byte_count > 0 /\ oom))
  /\ image' = heap' \cap ImageParts
  /\ pc' = "done"
  /\ UNCHANGED <<file, present, rowVars>>

Next ==
  \/ CheckHeader \/ AllocatePixels
  \/ AllocateFiltered \/ DecompressPlanes
  \/ AllocateWindow \/ DecodeRow \/ CheckOverLong
  \/ CopyPalette \/ CheckIndices \/ CopyMetadata

Spec == Init /\ [][Next]_vars

------------------------------------------------------------------------------
(* Properties                                                                *)

Blocks == ImageParts \cup {"filtered", "frow", "ds"}

TypeOK ==
  /\ IsFile(file)
  /\ present \in 0..FileLength
  /\ pc \in {"header", "pixels", "filtered", "planes", "window", "rows",
             "palette", "indices", "metadata", "done"}
  /\ heap \subseteq Blocks
  /\ ds \in Contexts
  /\ y \in 0..H.height /\ have \in 0..F
  /\ image \subseteq ImageParts
  /\ starved \in BOOLEAN

\* Whatever fails, and wherever, the call leaves no block behind that the
\* image it returns does not own.
NothingLeaks == pc = "done" => heap = image

\* The part of the frame in the buffer decompresses to at least the picture.
RowsPresent ==
  /\ FramePresent > 0
  /\ file.frame.prod[FramePresent] >= H.raw_byte_count

\* An image is returned only for a header both decoders accept, after every row
\* was decoded from the bytes at hand and found good, and with its palette.  Of
\* all its parts only the metadata may be missing, and only for lack of memory.
ImageIsSound ==
  (pc = "done" /\ image # {}) =>
    /\ Decodable(H)
    /\ RowsPresent
    /\ \A r \in 0..(H.height - 1) : file.row[r] = "ok"
    /\ image \ {"metadata"} = {"pixels"} \cup PaletteParts
    /\ ~starved => ("metadata" \in image <=> H.meta_byte_count > 0)

\* What a call of pxl_decode may return, and leave behind.
ReturnIsSound == NothingLeaks /\ ImageIsSound

\* Of a whole file the decoder's verdict is exact: with memory enough it returns
\* an image if and only if the file holds exactly its picture and ends with it.
WholeFileVerdict ==
  (pc = "done" /\ present = FileLength /\ ~starved) =>
    (image # {} <=> ExactFile /\ file.trailing = 0)

------------------------------------------------------------------------------
(* The inductive invariant behind both                                       *)

\* The window lies where its row does: row y is unfiltered from the bytes
\* [y * F, (y + 1) * F) of the stream, above a finished row y - 1, and the rows
\* that were finished have a filter the format knows.
WindowInStep ==
  pc = "rows" =>
    /\ ds.out = y * F + have
    /\ have < F
    /\ y = H.height => have = 0
    /\ \A r \in 0..(y - 1) : file.row[r] # "bad_type"

\* What zstd has decoded is in the buffer and sound, and it only stopped there
\* for want of input or of room.
ReadsInStep ==
  pc = "rows" =>
    LET to == DecodedTo(file.frame, ds)
    IN  /\ ContextOk(file.frame, ds)
        /\ to <= FramePresent
        /\ file.frame.bad # 0 => to < file.frame.bad
        /\ ds.hostage => ds.out < RawSize
        /\ ds.out = 0 \/ to = FramePresent \/ file.frame.prod[to] > ds.out

\* The blocks that are allocated, at each place of the call.
BlocksAt(place) ==
  CASE place = "filtered"              -> {"pixels"}
    [] place = "planes"                -> {"pixels", "filtered"}
    [] place = "window"                -> {"pixels"}
    [] place = "rows"                  -> {"pixels", "frow", "ds"}
    [] place = "palette"               -> {"pixels"}
    [] place \in {"indices", "metadata"} -> {"pixels"} \cup PaletteParts
    [] OTHER                           -> {}

BlocksHeld ==
  /\ pc # "done" => heap = BlocksAt(pc) /\ image = {} /\ ~starved
  /\ pc \in {"filtered", "planes"} => Bcif
  /\ pc \in {"window", "rows"} => ~Bcif

HeaderChecked ==
  /\ pc \notin {"header", "done"} => Decodable(H) /\ FrameOffset <= present
  /\ pc \in {"header", "pixels", "filtered", "planes", "window"} =>
       ds = FreshContext /\ y = 0 /\ have = 0

\* The pixels are out: they were all there, and nothing follows them.
PictureDecoded ==
  /\ pc \in {"palette", "indices", "metadata"} =>
       /\ RowsPresent /\ Beyond = 0
       /\ FramePresent = file.frame.n => RawSize = H.raw_byte_count /\ file.frame.bad = 0
       /\ \A r \in 0..(H.height - 1) : file.row[r] # "bad_type"
  /\ pc = "metadata" => \A r \in 0..(H.height - 1) : file.row[r] = "ok"

DecodeInv ==
  /\ TypeOK
  /\ BlocksHeld
  /\ HeaderChecked
  /\ WindowInStep
  /\ ReadsInStep
  /\ PictureDecoded
  /\ ReturnIsSound
  /\ WholeFileVerdict
==============================================================================
