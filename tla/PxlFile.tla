------------------------------- MODULE PxlFile -------------------------------
(***************************************************************************)
(* A .pxl file as both decoders meet it: header, palette, metadata, one    *)
(* zstd frame, and whatever follows.  What a byte of it is worth is        *)
(* abstracted to what the decoders tell apart: the header, what each byte  *)
(* of the frame decompresses to, and whether the filtered bytes of a row   *)
(* carry a filter type or palette indices the format does not have.        *)
(***************************************************************************)
EXTENDS PxlFormat, ZstdFrame

CONSTANT Files  \* the files a decoder may meet

VARIABLE file   \* the file being decoded

RowKinds == {"ok", "bad_type", "bad_index"}

\* A file a decoder may meet.  Only an ADAPTIVE row has a type byte, and
\* only an indexed image has indices.
IsFile(f) ==
  /\ f.hdr \in Headers
  /\ f.row \in [0..(f.hdr.height - 1) -> RowKinds]
  /\ \A y \in 0..(f.hdr.height - 1) :
       /\ f.row[y] = "bad_type" => f.hdr.color_filter = "ADAPTIVE"
       /\ f.row[y] = "bad_index" => f.hdr.palette_count > 0
  /\ IsFrame(f.frame)
  /\ f.trailing \in Nat

ASSUME FilesAssumption == \A f \in Files : IsFile(f)

------------------------------------------------------------------------------
H == file.hdr

\* The bytes of one filtered row, and of the whole decompressed stream.
F       == FrowStride(H)
RawSize == file.frame.prod[file.frame.n]

\* Where the frame starts, and where the file ends.
FrameOffset == PXL_HEADER_BYTES + PaletteBytes(H) + H.meta_byte_count
FileLength  == FrameOffset + file.frame.n + file.trailing

Bcif == H.color_filter = "BCIF"

\* The file is exactly the picture its header announces.
ExactFile ==
  /\ Decodable(H)
  /\ RawSize = H.raw_byte_count
  /\ file.frame.bad = 0
  /\ \A y \in 0..(H.height - 1) : file.row[y] = "ok"
==============================================================================
