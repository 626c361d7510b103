------------------------------ MODULE PxlFormat ------------------------------
(***************************************************************************)
(* The fixed .pxl header and the geometry both decoders derive from it     *)
(* (pxl_io.c, pxl_codec_common.c, pxl_codec_internal.h).  A header is a    *)
(* record with the fields of pxl_header; a colour filter is a string and   *)
(* "UNKNOWN" stands for every filter byte above PXL_FILTER_MAX.            *)
(***************************************************************************)
EXTENDS Integers

CONSTANTS
  PXL_HEADER_BYTES,   \* length of the fixed header (28 in the code)
  PXL_MAX_DIM,        \* largest width or height a decoder accepts
  PXL_MAX_PIXELS,     \* largest width * height a decoder accepts
  PXL_MAX_PALETTE     \* most palette entries (256 in the code)

ASSUME FormatAssumption ==
  /\ PXL_HEADER_BYTES \in Nat \ {0}
  /\ PXL_MAX_DIM \in Nat \ {0}
  /\ PXL_MAX_PIXELS \in Nat \ {0}
  /\ PXL_MAX_PALETTE \in Nat \ {0}

ColorFilters == {"DELTA", "BCIF", "ADAPTIVE", "NONE", "UNKNOWN"}

\* Every header the bytes of a file can spell, the invalid ones included.
Headers ==
  [ good_magic : BOOLEAN, version : Nat, channels : Nat, bit_depth : Nat,
    color_filter : ColorFilters, width : Nat, height : Nat,
    raw_byte_count : Nat, meta_byte_count : Nat,
    palette_count : Nat, palette_alpha_count : Nat ]

PaletteBytes(h) == 3 * h.palette_count + h.palette_alpha_count

------------------------------------------------------------------------------
(* Rows: PNG's packing, a row is padded to a whole byte.                     *)

DepthOk(channels, depth) ==
  /\ channels \in 1..4
  /\ depth \in {1, 2, 4, 8, 16}
  /\ depth < 8 => channels = 1

\* 0 when no row of this kind exists.
RowBytesOf(width, channels, depth) ==
  IF width = 0 \/ ~DepthOk(channels, depth)
    THEN 0
    ELSE (width * channels * depth + 7) \div 8

PixelBytes(h) == IF h.bit_depth >= 8 THEN h.channels * (h.bit_depth \div 8) ELSE 1

\* The filters see a sub-byte row as a row of packed bytes.
FilterWidth(h) ==
  IF h.bit_depth >= 8 THEN h.width
                      ELSE RowBytesOf(h.width, h.channels, h.bit_depth)

\* width * height > PXL_MAX_PIXELS, computed in 64 bits by the code.
WithinLimits(width, height) ==
  /\ width \in 1..PXL_MAX_DIM
  /\ height \in 1..PXL_MAX_DIM
  /\ width * height <= PXL_MAX_PIXELS

GeometryOk(h) ==
  /\ RowBytesOf(h.width, h.channels, h.bit_depth) > 0
  /\ WithinLimits(h.width, h.height)
  /\ WithinLimits(FilterWidth(h), h.height)

RowStride(h) == FilterWidth(h) * PixelBytes(h)

\* The bytes of one filtered row: ADAPTIVE puts a filter type before each.
FrowStride(h) == IF h.color_filter = "ADAPTIVE" THEN RowStride(h) + 1 ELSE RowStride(h)

FilteredSize(filter, width, height, pixel_bytes) ==
  IF filter = "ADAPTIVE" THEN height * (1 + width * pixel_bytes)
                         ELSE width * height * pixel_bytes

------------------------------------------------------------------------------
(* What makes a header acceptable.                                           *)

HeaderReadOk(h) ==
  /\ h.good_magic
  /\ h.version = 1
  /\ DepthOk(h.channels, h.bit_depth)
  /\ h.palette_count <= PXL_MAX_PALETTE
  /\ h.palette_alpha_count <= h.palette_count
  /\ h.palette_count > 0 => h.channels = 1 /\ h.bit_depth <= 8

\* The checks pxl_decode and stream_begin share.
Decodable(h) ==
  /\ HeaderReadOk(h)
  /\ GeometryOk(h)
  /\ h.color_filter # "UNKNOWN"
  /\ h.raw_byte_count =
       FilteredSize(h.color_filter, FilterWidth(h), h.height, PixelBytes(h))
  /\ h.color_filter = "BCIF" =>
       h.bit_depth = 8 /\ h.palette_count = 0 /\ h.channels \in {3, 4}

\* A packed output format exists only for 8-bit samples that are no indices.
OutputFormatOk(h, out_fmt) ==
  out_fmt # "NATIVE" => h.bit_depth = 8 /\ h.palette_count = 0
==============================================================================
