------------------------------- MODULE PxlCodec -------------------------------
(***************************************************************************)
(* pxl_encode and pxl_decode, one behind the other: the file the encoder   *)
(* returned is decoded; or any other file is.                              *)
(***************************************************************************)
EXTENDS PxlEncode, PxlDecode

VARIABLE origin   \* "foreign", "encoding" or "own": where `file' is from

codecVars == <<vars, encodeVars, origin>>

CodecInit ==
  /\ EncodeInit /\ Init
  /\ origin \in {"foreign", "encoding"}

Encode ==
  /\ origin = "encoding" /\ EncodeNext
  /\ UNCHANGED <<vars, origin>>

\* The decoder gets all of the encoder's file.
HandOver ==
  /\ origin = "encoding" /\ at = "returned" /\ encoded # NoFile
  /\ origin' = "own"
  /\ file' = encoded
  /\ present' = FileLength'
  /\ UNCHANGED <<pc, heap, rowVars, image, starved, encodeVars>>

Decode ==
  /\ origin \in {"foreign", "own"} /\ Next
  /\ UNCHANGED <<encodeVars, origin>>

CodecNext == Encode \/ HandOver \/ Decode

CodecSpec == CodecInit /\ [][CodecNext]_codecVars /\ WF_codecVars(CodecNext)

\* One call runs at a time, and the decoder has what the encoder returned.
HandedOver ==
  /\ origin \in {"foreign", "encoding", "own"}
  /\ origin = "encoding" => CallBegins
  /\ origin = "own" => encoded # NoFile /\ file = encoded /\ present = FileLength

\* What the loops of both keep.
CodecInv == EncodeInv /\ DecodeInv /\ HandedOver

\* The header can say how long the metadata are.
MetadataFit == input.metadata <= Uint32Max

\* Whatever the encoder accepted decodes again, with memory enough, to an image
\* of its size with its palette and metadata: the limits, the sizes the two
\* compute and the filters they allow agree.  Only an index beyond the palette,
\* which the encoder does not look for, is refused; and metadata must fit their
\* field, which it does not look at either.
OwnFilesDecode ==
  (origin = "own" /\ pc = "done" /\ ~starved /\ MetadataFit) =>
    /\ image = {} <=> (EntryCount > 0 /\ input.foreign # {})
    /\ image # {} =>
         /\ <<H.width, H.height, H.channels, H.bit_depth>>
              = <<input.width, input.height, input.channels, Depth>>
         /\ "palette" \in image <=> EntryCount > 0
         /\ "palette_alpha" \in image <=> input.palette_alpha > 0
         /\ "metadata" \in image <=> input.metadata > 0

\* A call that was begun returns.
CallsReturn == <>(pc = "done" \/ (at = "returned" /\ encoded = NoFile))
==============================================================================
