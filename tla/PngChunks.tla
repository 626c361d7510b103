------------------------------ MODULE PngChunks ------------------------------
(***************************************************************************)
(* How pxl_meta.c and apng.c classify the chunks of a PNG.  A chunk is its *)
(* type and its content; CutOff stands where the data break off within a   *)
(* chunk or a record.                                                      *)
(***************************************************************************)
EXTENDS Naturals, Sequences

Structural == {"IHDR", "IDAT", "IEND"}
LayoutDependent == {"PLTE", "tRNS", "bKGD", "hIST"}
AnimationControl == {"acTL", "fcTL", "fdAT"}

IsDroppedType(type, keep_sbit) ==
  \/ ~keep_sbit /\ type = "sBIT"
  \/ type \in Structural \cup LayoutDependent \cup AnimationControl

EarlyTypes == {"cHRM", "gAMA", "iCCP", "sBIT", "sRGB", "cICP"}

MustPrecedePlteNever(type) == FALSE
MustPrecedePlte(type) == type \in EarlyTypes

CutOff == [type |-> "cut", id |-> 0]
==============================================================================
