------------------------------ MODULE ZstdFrame ------------------------------
(***************************************************************************)
(* The Zstandard frame of a file and one call of ZSTD_decompressStream on  *)
(* it, as far as the decoders of this repository depend on it.  External:  *)
(* the library is not part of the sources.                                 *)
(*                                                                         *)
(* A frame is n compressed bytes; prod[i] is how many bytes the first i of *)
(* them decode to, and bad is the byte whose arrival makes the decoder     *)
(* report an error (0: none).  Bytes that add nothing (headers, an empty   *)
(* last block, a content checksum) repeat the value of prod.               *)
(*                                                                         *)
(* A decompression context z has read z.in bytes of the frame and written  *)
(* z.out bytes to its callers.  A call reads as long as what it decoded    *)
(* fits in the output room; what does not fit stays inside.  When it has   *)
(* read the whole frame and still holds output it gives the last byte back *)
(* (hostage), so that the caller has a reason to call again.               *)
(***************************************************************************)
EXTENDS Integers

Smaller(a, b) == IF a <= b THEN a ELSE b

\* The well-formed frames of n bytes.
IsFrame(fr) ==
  /\ fr.n \in Nat \ {0}
  /\ fr.prod \in [0..fr.n -> Nat]
  /\ fr.prod[0] = 0
  /\ \A i, j \in 0..fr.n : i <= j => fr.prod[i] <= fr.prod[j]
  /\ fr.bad \in 0..fr.n

Contexts == [in : Nat, out : Nat, hostage : BOOLEAN]

FreshContext == [in |-> 0, out |-> 0, hostage |-> FALSE]

\* The bytes of the frame the context has decoded, the hostage included.
DecodedTo(fr, z) == IF z.hostage THEN fr.n ELSE z.in

\* The contexts zstd can be in on a frame.
ContextOk(fr, z) ==
  /\ z \in Contexts
  /\ z.in <= fr.n
  /\ z.out <= fr.prod[DecodedTo(fr, z)]
  /\ z.hostage => z.in = fr.n - 1
  /\ ~z.hostage /\ z.in = fr.n => z.out = fr.prod[fr.n]

\* Where a call stops reading: out of input, or with more decoded than fits.
ReadStops(fr, z, avail, room) ==
  LET from  == DecodedTo(fr, z)
      limit == IF z.hostage THEN fr.n ELSE Smaller(fr.n, z.in + avail)
  IN  { d \in from..limit :
          /\ d = limit \/ fr.prod[d] > z.out + room
          /\ \A j \in from..(d - 1) : fr.prod[j] <= z.out + room }

\* Reading up to byte d meets the corrupt byte.
ReadError(fr, z, d) == fr.bad # 0 /\ DecodedTo(fr, z) < fr.bad /\ fr.bad <= d

\* The context after a call that reads to d.
AfterCall(fr, z, d, avail, room) ==
  LET out   == Smaller(z.out + room, fr.prod[d])
      drain == d = fr.n /\ out < fr.prod[fr.n]
      stuck == d = fr.n /\ z.hostage /\ avail = 0
  IN  [ in      |-> IF drain \/ stuck THEN fr.n - 1 ELSE d,
        out     |-> out,
        hostage |-> drain \/ stuck ]

\* The call returns 0: the frame is decoded and everything is flushed.
FrameComplete(fr, z) == z.in = fr.n /\ z.out = fr.prod[fr.n]
==============================================================================
