------------------------------- MODULE PxlCodecProofs ------------------------
(***************************************************************************)
(* pxl_encode and pxl_decode for every set of files and of images, every   *)
(* frame, and every allocation that may fail: what the decoder returns,    *)
(* which frame the encoder keeps, and that the two agree on a file.  The   *)
(* row filters, for every picture: the encoder takes the best of them for  *)
(* each row, and the decoder gives the picture back.  And, for every image *)
(* too, what a caller is shown of it.                                      *)
(***************************************************************************)
EXTENDS PxlCodec, PxlFilters, PxlPixels, PxlFileProofs, CountingProofs, SequenceTheorems,
        TLAPS

------------------------------------------------------------------------------
(* The decoder                                                               *)

\* A file whose header was checked, and the part of it in the buffer.
LEMMA DecodeFacts ==
  ASSUME DecodeInv, pc \notin {"header", "done"}
  PROVE  /\ IsFile(file) /\ IsFrame(file.frame) /\ file.frame.n \in Nat \ {0}
         /\ Decodable(H) /\ H \in Headers
         /\ H.height \in Nat \ {0} /\ F \in Nat \ {0}
         /\ H.raw_byte_count = H.height * F
         /\ FramePresent \in 0..file.frame.n /\ Beyond \in Nat
         /\ Beyond > 0 => FramePresent = file.frame.n
         /\ present = FileLength =>
              FramePresent = file.frame.n /\ Beyond = file.trailing
         /\ RawSize \in Nat /\ file.trailing \in Nat
<1>1. IsFile(file) /\ present \in 0..FileLength /\ Decodable(H) /\ FrameOffset <= present
  BY DEF DecodeInv, TypeOK, HeaderChecked
<1>2. /\ H \in Headers /\ IsFrame(file.frame) /\ file.frame.n \in Nat \ {0}
      /\ FrameOffset \in Nat /\ file.trailing \in Nat /\ RawSize \in Nat
      /\ FileLength = FrameOffset + file.frame.n + file.trailing
  BY <1>1, FileSizes
<1>3. /\ H.height \in Nat \ {0} /\ F \in Nat \ {0} /\ H.raw_byte_count = H.height * F
  BY <1>1, <1>2, HeaderSizes DEF F
<1>4. present \in Nat
  BY <1>1, <1>2
<1>5. /\ FramePresent \in 0..file.frame.n /\ Beyond \in Nat
      /\ Beyond > 0 => FramePresent = file.frame.n
      /\ present = FileLength => FramePresent = file.frame.n /\ Beyond = file.trailing
  BY <1>1, <1>2, <1>4 DEF FramePresent, Beyond, Smaller
<1>6. QED
  BY <1>1, <1>2, <1>3, <1>5

\* What depends on the file and the buffer stands while they do.
LEMMA FileStays ==
  ASSUME UNCHANGED <<file, present>>
  PROVE  /\ H' = H /\ F' = F /\ RawSize' = RawSize /\ (Bcif' <=> Bcif)
         /\ FrameOffset' = FrameOffset /\ FileLength' = FileLength
         /\ FramePresent' = FramePresent /\ Beyond' = Beyond
         /\ PaletteParts' = PaletteParts /\ (RowsPresent' <=> RowsPresent)
         /\ (ExactFile' <=> ExactFile)
         /\ (IsFile(file)' <=> IsFile(file))
<1>1. /\ H' = H /\ F' = F /\ RawSize' = RawSize /\ (Bcif' <=> Bcif)
  BY DEF H, F, RawSize, Bcif
<1>2. FrameOffset' = FrameOffset /\ FileLength' = FileLength
  BY <1>1 DEF FrameOffset, FileLength
<1>3. FramePresent' = FramePresent /\ Beyond' = Beyond
  BY <1>2 DEF FramePresent, Beyond
<1>4. PaletteParts' = PaletteParts
  BY <1>1 DEF PaletteParts
<1>5. RowsPresent' <=> RowsPresent
  BY <1>1, <1>3 DEF RowsPresent
<1>6. (ExactFile' <=> ExactFile) /\ (IsFile(file)' <=> IsFile(file))
  BY <1>1 DEF ExactFile
<1>7. QED
  BY <1>1, <1>2, <1>3, <1>4, <1>5, <1>6

\* Places at which nothing is promised but what was allocated.
LEMMA EarlyPlace ==
  ASSUME DecodeInv, pc # "done", UNCHANGED <<file, present, rowVars, image, starved>>,
         Decodable(H), FrameOffset <= present,
         ds = FreshContext, y = 0, have = 0,
         pc' \in {"pixels", "filtered", "planes", "window"},
         heap' = BlocksAt(pc'),
         pc' \in {"filtered", "planes"} => Bcif,
         pc' = "window" => ~Bcif
  PROVE  DecodeInv'
<1>1. TypeOK'
  BY FileStays DEF DecodeInv, TypeOK, rowVars, BlocksAt, Blocks, ImageParts
<1>2. BlocksHeld'
  BY FileStays DEF DecodeInv, BlocksHeld, BlocksAt
<1>3. HeaderChecked'
  BY FileStays DEF HeaderChecked, rowVars
<1>4. WindowInStep' /\ ReadsInStep' /\ PictureDecoded' /\ ReturnIsSound' /\ WholeFileVerdict'
  BY DEF WindowInStep, ReadsInStep, PictureDecoded, ReturnIsSound, NothingLeaks,
         ImageIsSound, WholeFileVerdict
<1>5. QED
  BY <1>1, <1>2, <1>3, <1>4 DEF DecodeInv

\* A call may return nothing when it was short of memory, or the buffer is not
\* exactly one good file.
LEMMA NoneReturned ==
  ASSUME DecodeInv, pc # "done", UNCHANGED <<file, present, rowVars, image>>,
         pc' = "done", heap' = {}, starved' \in BOOLEAN,
         starved' \/ present # FileLength \/ ~(ExactFile /\ file.trailing = 0)
  PROVE  DecodeInv'
<1>1. image = {}
  BY DEF DecodeInv, BlocksHeld
<1>2. TypeOK'
  BY <1>1, FileStays DEF DecodeInv, TypeOK, rowVars
<1>3. ReturnIsSound' /\ WholeFileVerdict'
  BY <1>1, FileStays DEF ReturnIsSound, NothingLeaks, ImageIsSound, WholeFileVerdict
<1>4. BlocksHeld' /\ HeaderChecked' /\ WindowInStep' /\ ReadsInStep' /\ PictureDecoded'
  BY DEF BlocksHeld, HeaderChecked, WindowInStep, ReadsInStep, PictureDecoded
<1>5. QED
  BY <1>2, <1>3, <1>4 DEF DecodeInv

LEMMA CheckHeaderKeeps ==
  ASSUME DecodeInv, CheckHeader
  PROVE  DecodeInv'
<1> DEFINE ok == /\ present >= PXL_HEADER_BYTES
                 /\ Decodable(H)
                 /\ PaletteBytes(H) <= present - PXL_HEADER_BYTES
                 /\ H.meta_byte_count <= present - (PXL_HEADER_BYTES + PaletteBytes(H))
<1>1. /\ pc = "header" /\ UNCHANGED <<file, present, rowVars, starved>>
      /\ heap = {} /\ image = {} /\ ~starved
      /\ ds = FreshContext /\ y = 0 /\ have = 0
  BY DEF CheckHeader, DecodeInv, BlocksHeld, BlocksAt, HeaderChecked
<1>2. /\ IsFile(file) /\ present \in 0..FileLength /\ starved \in BOOLEAN
  BY DEF DecodeInv, TypeOK
<1>3. /\ PaletteBytes(H) \in Nat /\ H.meta_byte_count \in Nat
      /\ PXL_HEADER_BYTES \in Nat /\ FrameOffset \in Nat /\ FileLength \in Nat
      /\ FrameOffset = PXL_HEADER_BYTES + PaletteBytes(H) + H.meta_byte_count
      /\ FileLength = FrameOffset + file.frame.n + file.trailing
      /\ file.frame.n \in Nat /\ file.trailing \in Nat
  BY <1>2, FileSizes
<1>4. present \in Nat
  BY <1>2, <1>3
<1>5. CASE ok
  <2>1. pc' = "pixels" /\ UNCHANGED <<heap, image>>
    BY <1>5 DEF CheckHeader
  <2>2. Decodable(H) /\ FrameOffset <= present
    BY <1>3, <1>4, <1>5
  <2>3. QED
    BY <1>1, <2>1, <2>2, EarlyPlace DEF BlocksAt
<1>6. CASE ~ok
  <2>1. pc' = "done" /\ heap' = {} /\ UNCHANGED image
    BY <1>1, <1>6 DEF CheckHeader, ReturnNone
  <2>2. present = FileLength => ~Decodable(H)
    BY <1>3, <1>4, <1>6
  <2>3. present # FileLength \/ ~(ExactFile /\ file.trailing = 0)
    BY <2>2 DEF ExactFile
  <2>4. QED
    BY <1>1, <1>2, <2>1, <2>3, NoneReturned
<1>7. QED
  BY <1>5, <1>6

LEMMA AllocateKeeps ==
  ASSUME DecodeInv, AllocatePixels \/ AllocateFiltered
  PROVE  DecodeInv'
<1>1. /\ pc \in {"pixels", "filtered"} /\ UNCHANGED <<file, present, rowVars>>
      /\ heap = BlocksAt(pc) /\ image = {} /\ ~starved
      /\ ds = FreshContext /\ y = 0 /\ have = 0
      /\ Decodable(H) /\ FrameOffset <= present
      /\ pc = "filtered" => Bcif
  BY DEF AllocatePixels, AllocateFiltered, DecodeInv, BlocksHeld, HeaderChecked
<1>2. \/ pc' = "done" /\ heap' = {} /\ image' = image /\ starved' = TRUE
      \/ /\ pc' = IF pc = "filtered" THEN "planes" ELSE IF Bcif THEN "filtered" ELSE "window"
         /\ heap' = BlocksAt(pc') /\ UNCHANGED <<image, starved>>
  <2>1. CASE AllocatePixels
    BY <2>1, <1>1 DEF AllocatePixels, Allocate, ReturnNone, BlocksAt
  <2>2. CASE AllocateFiltered
    BY <2>2, <1>1 DEF AllocateFiltered, Allocate, ReturnNone, BlocksAt
  <2>3. QED
    BY <2>1, <2>2
<1>3. CASE starved' = TRUE /\ pc' = "done"
  BY <1>1, <1>2, <1>3, NoneReturned
<1>4. CASE ~(starved' = TRUE /\ pc' = "done")
  BY <1>1, <1>2, <1>4, EarlyPlace
<1>5. QED
  BY <1>3, <1>4

\* The pixels are out: with RowsPresent and nothing behind the frame, the call
\* goes on to the sections before the frame.
LEMMA PictureOut ==
  ASSUME DecodeInv, pc \in {"planes", "rows"},
         UNCHANGED <<file, present, image, starved>>,
         pc' = "palette", heap' = {"pixels"},
         ds' = ds, have' = have, y' = H.height,
         RowsPresent, Beyond = 0,
         FramePresent = file.frame.n => RawSize = H.raw_byte_count /\ file.frame.bad = 0,
         \A r \in 0..(H.height - 1) : file.row[r] # "bad_type"
  PROVE  DecodeInv'
<1>1. /\ Decodable(H) /\ FrameOffset <= present /\ image = {} /\ ~starved
      /\ H.height \in Nat
  BY DecodeFacts DEF DecodeInv, HeaderChecked, BlocksHeld
<1>2. TypeOK'
  BY <1>1, FileStays DEF DecodeInv, TypeOK, Blocks, ImageParts
<1>3. BlocksHeld' /\ HeaderChecked'
  BY <1>1, FileStays DEF BlocksHeld, BlocksAt, HeaderChecked
<1>4. WindowInStep' /\ ReadsInStep' /\ ReturnIsSound' /\ WholeFileVerdict'
  BY DEF WindowInStep, ReadsInStep, ReturnIsSound, NothingLeaks, ImageIsSound,
         WholeFileVerdict
<1>5. PictureDecoded'
  BY FileStays DEF PictureDecoded
<1>6. QED
  BY <1>2, <1>3, <1>4, <1>5 DEF DecodeInv

LEMMA DecompressPlanesKeeps ==
  ASSUME DecodeInv, DecompressPlanes
  PROVE  DecodeInv'
<1>1. /\ pc = "planes" /\ UNCHANGED <<file, present, ds, have, starved>>
      /\ heap = {"pixels", "filtered"} /\ image = {} /\ ~starved /\ Bcif
      /\ starved \in BOOLEAN
  BY DEF DecompressPlanes, DecodeInv, BlocksHeld, BlocksAt, TypeOK
<1>2. /\ IsFile(file) /\ file.frame.n \in Nat \ {0} /\ H.height \in Nat
      /\ RawSize \in Nat
      /\ present = FileLength => FramePresent = file.frame.n /\ Beyond = file.trailing
  BY <1>1, DecodeFacts
<1>3. CASE WholeFrame /\ RawSize = H.raw_byte_count
  <2>1. pc' = "palette" /\ heap' = {"pixels"} /\ y' = H.height /\ UNCHANGED image
    BY <1>1, <1>3 DEF DecompressPlanes
  <2>2. RowsPresent
    BY <1>2, <1>3 DEF RowsPresent, WholeFrame, RawSize
  <2>3. \A r \in 0..(H.height - 1) : file.row[r] # "bad_type"
    BY <1>1, <1>2 DEF IsFile, Bcif, H
  <2>4. QED
    BY <1>1, <1>3, <2>1, <2>2, <2>3, PictureOut DEF WholeFrame
<1>4. CASE ~(WholeFrame /\ RawSize = H.raw_byte_count)
  <2>1. pc' = "done" /\ heap' = {} /\ UNCHANGED image /\ y' = y
    BY <1>1, <1>4 DEF DecompressPlanes, ReturnNone
  <2>2. present # FileLength \/ ~(ExactFile /\ file.trailing = 0)
    BY <1>2, <1>4 DEF WholeFrame, ExactFile
  <2>3. QED
    BY <1>1, <2>1, <2>2, NoneReturned DEF rowVars
<1>5. QED
  BY <1>3, <1>4

\* An empty window stands before row 0 of the stream.
LEMMA AllocateWindowKeeps ==
  ASSUME DecodeInv, AllocateWindow
  PROVE  DecodeInv'
<1>1. /\ pc = "window" /\ UNCHANGED <<file, present, rowVars>>
      /\ heap = {"pixels"} /\ image = {} /\ ~starved /\ ~Bcif
      /\ ds = FreshContext /\ y = 0 /\ have = 0
      /\ Decodable(H) /\ FrameOffset <= present
  BY DEF AllocateWindow, DecodeInv, BlocksHeld, BlocksAt, HeaderChecked
<1>2. CASE pc' = "done"
  <2>1. pc' = "done" /\ heap' = {} /\ image' = image /\ starved' = TRUE
    BY <1>1, <1>2 DEF AllocateWindow, Allocate, ReturnNone
  <2>2. QED
    BY <1>1, <2>1, NoneReturned
<1>3. CASE pc' # "done"
  <2>1. pc' = "rows" /\ heap' = {"pixels", "frow", "ds"} /\ UNCHANGED <<image, starved>>
    BY <1>1, <1>3 DEF AllocateWindow, Allocate, ReturnNone
  <2>2. TypeOK' /\ BlocksHeld' /\ HeaderChecked'
    BY <1>1, <2>1, FileStays
    DEF DecodeInv, TypeOK, BlocksHeld, BlocksAt, HeaderChecked, rowVars, Blocks, ImageParts
  <2>3. /\ H.height \in Nat \ {0} /\ F \in Nat \ {0} /\ IsFrame(file.frame)
        /\ FramePresent \in 0..file.frame.n
    BY <1>1, DecodeFacts
  <2>4. WindowInStep'
    BY <1>1, <2>1, <2>3, FileStays DEF WindowInStep, rowVars, FreshContext
  <2>5. ReadsInStep'
    <3>1. /\ ContextOk(file.frame, ds) /\ ds.out = 0 /\ DecodedTo(file.frame, ds) = 0
          /\ ~ds.hostage /\ file.frame.bad \in Nat
      BY <1>1, <2>3, FreshContextOk DEF FreshContext
    <3>2. /\ file' = file /\ ds' = ds /\ FramePresent' = FramePresent
      BY <1>1, FileStays DEF rowVars
    <3>3. QED
      BY <2>3, <3>1, <3>2 DEF ReadsInStep, ContextOk, DecodedTo
  <2>6. PictureDecoded' /\ ReturnIsSound' /\ WholeFileVerdict'
    BY <2>1 DEF PictureDecoded, ReturnIsSound, NothingLeaks, ImageIsSound, WholeFileVerdict
  <2>7. QED
    BY <2>2, <2>4, <2>5, <2>6 DEF DecodeInv
<1>4. QED
  BY <1>2, <1>3

\* What a call of the decompressor on the row window can come to.  Either it
\* stops having run out of the buffer, or it decoded more than there is room for.
LEMMA OutcomeFacts ==
  ASSUME DecodeInv, pc = "rows", NEW room \in Nat \ {0}, NEW o \in Outcomes(room)
  PROVE  /\ FrameComplete(file.frame, ds) =>
              o.ds = ds /\ (o.ok <=> Beyond = 0)
         /\ ~FrameComplete(file.frame, ds) /\ file.frame.bad = 0 => o.ok
         /\ o.ok =>
              /\ ContextOk(file.frame, o.ds)
              /\ ds.out <= o.ds.out /\ o.ds.out <= ds.out + room
              /\ DecodedTo(file.frame, o.ds) <= FramePresent
              /\ file.frame.bad # 0 => DecodedTo(file.frame, o.ds) < file.frame.bad
              /\ o.ds.hostage => o.ds.out < RawSize
              /\ \/ o.ds.out = 0
                 \/ DecodedTo(file.frame, o.ds) = FramePresent
                 \/ file.frame.prod[DecodedTo(file.frame, o.ds)] > o.ds.out
         /\ o.ok /\ ~FrameComplete(file.frame, ds) =>
              \/ o.ds.out = ds.out + room
              \/ /\ DecodedTo(file.frame, o.ds) = FramePresent
                 /\ o.ds.out = file.frame.prod[FramePresent]
         /\ ~FrameComplete(file.frame, ds) /\ o.ok
              /\ file.frame.prod[DecodedTo(file.frame, ds)] > ds.out => o.ds.out > ds.out
<1> DEFINE fr == file.frame
           avail == FramePresent - ds.in
           to == DecodedTo(fr, ds)
<1>1. /\ IsFrame(fr) /\ fr.n \in Nat \ {0} /\ FramePresent \in 0..fr.n
      /\ Beyond \in Nat /\ RawSize \in Nat
  BY DecodeFacts
<1>2. /\ ContextOk(fr, ds) /\ to <= FramePresent
      /\ fr.bad # 0 => to < fr.bad
      /\ ds.hostage => ds.out < RawSize
      /\ ds.out = 0 \/ to = FramePresent \/ fr.prod[to] > ds.out
  BY DEF DecodeInv, ReadsInStep
<1>3. /\ avail \in Nat /\ ds.in \in Nat /\ ds.out \in Nat /\ fr.bad \in Nat
      /\ ds.hostage => avail > 0 /\ FramePresent = fr.n
      /\ ds.in + avail = FramePresent
  <2>1. /\ ds.in \in Nat /\ ds.out \in Nat /\ fr.bad \in Nat /\ ds.hostage \in BOOLEAN
        /\ ds.hostage => ds.in = fr.n - 1
    BY <1>1, <1>2 DEF ContextOk, Contexts, IsFrame
  <2>2. to = IF ds.hostage THEN fr.n ELSE ds.in
    BY DEF DecodedTo
  <2>3. QED
    BY <1>1, <1>2, <2>1, <2>2
<1>4. CASE FrameComplete(fr, ds)
  <2>1. o = [ok |-> Beyond = 0, ds |-> ds]
    BY <1>4 DEF Outcomes
  <2>2. o.ds = ds /\ (o.ok <=> Beyond = 0)
    BY <2>1, Zenon
  <2>3. QED
    BY <1>1, <1>2, <1>3, <1>4, <2>2
<1>5. CASE ~FrameComplete(fr, ds)
  <2>1. PICK d \in ReadStops(fr, ds, avail, room) :
          o = IF ReadError(fr, ds, d)
                THEN [ok |-> FALSE, ds |-> ds]
                ELSE [ok |-> TRUE, ds |-> AfterCall(fr, ds, d, avail, room)]
    BY <1>5 DEF Outcomes
  <2>2. CASE ReadError(fr, ds, d)
    BY <1>5, <2>1, <2>2 DEF ReadError
  <2>3. CASE ~ReadError(fr, ds, d)
    <3>1. o.ok /\ o.ds = AfterCall(fr, ds, d, avail, room)
      BY <2>1, <2>3
    <3> DEFINE w == o.ds
    <3>2. /\ ContextOk(fr, w) /\ ds.out <= w.out /\ w.out <= ds.out + room
          /\ DecodedTo(fr, w) = d
      BY <1>1, <1>2, <1>3, <3>1, CallKeepsContext
    <3>3. /\ d \in to..fr.n
          /\ fr.prod[d] \in Nat /\ fr.prod[d] <= fr.prod[fr.n] /\ fr.prod[to] <= fr.prod[d]
          /\ w.out = Smaller(ds.out + room, fr.prod[d])
          /\ \/ d = IF ds.hostage THEN fr.n ELSE Smaller(fr.n, ds.in + avail)
             \/ fr.prod[d] > ds.out + room
          /\ w.hostage => w.out < fr.prod[fr.n] \/ (ds.hostage /\ avail = 0)
      BY <1>1, <1>2, <1>3, <3>1, CallStops
    <3> HIDE DEF w, avail, to, fr
    <3>4. d <= FramePresent
      BY <1>1, <1>2, <1>3, <2>1 DEF ReadStops, Smaller, to, DecodedTo
    <3>5. d = FramePresent \/ fr.prod[d] > ds.out + room
      BY <1>1, <1>3, <3>3 DEF Smaller
    <3>6. w.out = ds.out + room \/ (d = FramePresent /\ w.out = fr.prod[FramePresent])
      BY <1>3, <3>3, <3>5 DEF Smaller
    <3>7. fr.bad # 0 => d < fr.bad
      BY <1>2, <1>3, <2>3, <3>3 DEF ReadError, to
    <3>8. w.hostage => w.out < RawSize
      BY <1>3, <3>3 DEF RawSize, fr
    <3>9. d = FramePresent \/ fr.prod[d] > w.out
      <4>1. w.out \in Nat
        BY <3>2 DEF ContextOk, Contexts
      <4>2. QED
        BY <1>3, <3>2, <3>3, <3>5, <4>1
    <3>10. fr.prod[to] > ds.out => w.out > ds.out
      <4>1. to \in 0..fr.n
        BY <1>1, <1>2, <1>3 DEF to, DecodedTo, ContextOk
      <4>2. fr.prod[to] \in Nat
        BY <1>1, <4>1 DEF IsFrame
      <4>3. QED
        BY <1>3, <3>3, <4>2 DEF Smaller
    <3>11. QED
      BY <1>5, <3>1, <3>2, <3>4, <3>6, <3>7, <3>8, <3>9, <3>10 DEF w, fr, to
  <2>4. QED
    BY <2>2, <2>3
<1>6. QED
  BY <1>4, <1>5

\* Row y of h rows of f bytes, and a window that was filled from `out' to `new'.
LEMMA RowArithmetic ==
  ASSUME NEW h \in Nat, NEW f \in Nat \ {0}, NEW r \in Nat, r < h,
         NEW held \in Nat, held < f, NEW new \in Nat,
         r * f + held <= new, new <= (r * f + held) + (f - held)
  PROVE  /\ r * f + held < h * f
         /\ held + (new - (r * f + held)) \in 0..f
         /\ held + (new - (r * f + held)) = f => new = (r + 1) * f + 0
         /\ new = r * f + (held + (new - (r * f + held)))
<1> DEFINE base == r * f
           rest == (h - (r + 1)) * f
<1>1. /\ base \in Nat /\ rest \in Nat /\ (r + 1) * f = base + f
      /\ h * f = base + f + rest
  <2>1. rest \in Nat
    <3>1. h - (r + 1) \in Nat
      OBVIOUS
    <3>2. QED
      BY <3>1
  <2>2. base \in Nat /\ (r + 1) * f = base + f
    OBVIOUS
  <2>3. h * f = (r + 1) * f + rest
    OBVIOUS
  <2>4. QED
    BY <2>1, <2>2, <2>3
<1> HIDE DEF base, rest
<1>2. /\ base + held < h * f
      /\ held + (new - (base + held)) \in 0..f
      /\ held + (new - (base + held)) = f => new = base + f + 0
      /\ new = base + (held + (new - (base + held)))
  BY <1>1 DEF base
<1>3. QED
  BY <1>1, <1>2 DEF base

\* The state of the row loop.
LEMMA RowFacts ==
  ASSUME DecodeInv, pc = "rows"
  PROVE  /\ y \in Nat /\ y <= H.height /\ have \in Nat /\ have < F
         /\ ds.out = y * F + have /\ y = H.height => have = 0
         /\ ds.out = y * F + have /\ ds.out \in Nat
         /\ y = H.height => ds.out = H.raw_byte_count
         /\ \A r \in 0..(y - 1) : file.row[r] # "bad_type"
         /\ ContextOk(file.frame, ds)
         /\ heap = {"pixels", "frow", "ds"} /\ image = {} /\ starved = FALSE /\ ~Bcif
<1>1. /\ H.height \in Nat \ {0} /\ F \in Nat \ {0} /\ H.raw_byte_count = H.height * F
  BY DecodeFacts
<1>2. /\ y \in 0..H.height /\ have \in 0..F /\ starved \in BOOLEAN
      /\ heap = {"pixels", "frow", "ds"} /\ image = {} /\ ~starved /\ ~Bcif
  BY DEF DecodeInv, TypeOK, BlocksHeld, BlocksAt
<1>3. /\ ds.out = y * F + have /\ have < F /\ (y = H.height => have = 0)
      /\ \A r \in 0..(y - 1) : file.row[r] # "bad_type"
      /\ ContextOk(file.frame, ds) /\ ds.out \in Nat
  BY DEF DecodeInv, WindowInStep, ReadsInStep, ContextOk, Contexts
<1>4. y = H.height => ds.out = H.raw_byte_count
  <2>1. SUFFICES ASSUME y = H.height PROVE ds.out = H.raw_byte_count
    OBVIOUS
  <2>2. ds.out = H.height * F + 0
    BY <1>3, <2>1
  <2>3. H.height * F + 0 = H.height * F
    BY <1>1
  <2>4. QED
    BY <1>1, <2>2, <2>3
<1>5. QED
  BY <1>1, <1>2, <1>3, <1>4

\* A turn of the row loop gives a good file no reason to fail.
LEMMA GoodRowsGoOn ==
  ASSUME DecodeInv, pc = "rows", y < H.height, NEW o \in Outcomes(Room),
         present = FileLength, ExactFile, file.trailing = 0
  PROVE  /\ o.ok
         /\ ~GivesUp(have + (o.ds.out - ds.out), o.ds # ds)
         /\ ~BadType(have + (o.ds.out - ds.out))
<1>1. /\ H.height \in Nat \ {0} /\ F \in Nat \ {0} /\ RawSize = H.height * F
      /\ FramePresent = file.frame.n
      /\ file.frame.bad = 0
      /\ \A r \in 0..(H.height - 1) : file.row[r] = "ok"
  BY DecodeFacts DEF ExactFile
<1>2. /\ y \in Nat /\ have \in Nat /\ have < F /\ ds.out = y * F + have /\ ds.out \in Nat
  BY RowFacts
<1>3. Room \in Nat \ {0}
  BY <1>1, <1>2 DEF Room
<1>4. ds.out < RawSize
  <2>1. y * F + have <= y * F + have /\ y * F + have <= (y * F + have) + (F - have)
    BY <1>1, <1>2
  <2>2. y * F + have < H.height * F
    BY <1>1, <1>2, <2>1, RowArithmetic
  <2>3. QED
    BY <1>1, <1>2, <2>2
<1>5. ~FrameComplete(file.frame, ds)
  BY <1>2, <1>4 DEF FrameComplete, RawSize
<1>6. /\ o.ok
      /\ o.ds.out = ds.out + Room \/ o.ds.out = RawSize
  BY <1>1, <1>3, <1>5, OutcomeFacts DEF RawSize
<1>7. o.ds # ds
  BY <1>2, <1>3, <1>4, <1>6
<1>8. file.row[y] # "bad_type"
  BY <1>1, <1>2
<1>9. QED
  BY <1>6, <1>7, <1>8 DEF GivesUp, BadType

LEMMA DecodeRowKeeps ==
  ASSUME DecodeInv, DecodeRow
  PROVE  DecodeInv'
<1>1. /\ pc = "rows" /\ y < H.height /\ UNCHANGED <<file, present, starved>>
  BY DEF DecodeRow
<1>2. /\ y \in Nat /\ have \in Nat /\ have < F /\ ds.out = y * F + have /\ ds.out \in Nat
      /\ heap = {"pixels", "frow", "ds"} /\ image = {} /\ starved = FALSE /\ ~Bcif
      /\ \A r \in 0..(y - 1) : file.row[r] # "bad_type"
  BY <1>1, RowFacts
<1>3. /\ H.height \in Nat \ {0} /\ F \in Nat \ {0}
      /\ Decodable(H) /\ FrameOffset <= present
      /\ IsFile(file)
  BY <1>1, DecodeFacts DEF DecodeInv, HeaderChecked
<1>4. PICK o \in Outcomes(Room) :
        LET filled == have + (o.ds.out - ds.out)
            fails  == ~o.ok \/ GivesUp(filled, o.ds # ds) \/ BadType(filled)
        IN  \/ fails /\ RowsFail /\ UNCHANGED rowVars
            \/ /\ ~fails
               /\ ds' = o.ds
               /\ y' = IF filled = F THEN y + 1 ELSE y
               /\ have' = IF filled = F THEN 0 ELSE filled
               /\ UNCHANGED <<pc, heap, image>>
  BY DEF DecodeRow
<1> DEFINE filled == have + (o.ds.out - ds.out)
           fails  == ~o.ok \/ GivesUp(filled, o.ds # ds) \/ BadType(filled)
<1>5. CASE fails
  <2>1. RowsFail /\ UNCHANGED rowVars
    BY <1>4, <1>5
  <2>2. pc' = "done" /\ heap' = {} /\ UNCHANGED image
    BY <1>2, <2>1 DEF RowsFail, ReturnNone
  <2>3. present # FileLength \/ ~(ExactFile /\ file.trailing = 0)
    BY <1>1, <1>5, GoodRowsGoOn
  <2>4. starved' \in BOOLEAN /\ pc # "done"
    BY <1>1, <1>2
  <2>5. QED
    BY <1>1, <2>1, <2>2, <2>3, <2>4, NoneReturned
<1>6. CASE ~fails
  <2>1. /\ ds' = o.ds
        /\ y' = IF filled = F THEN y + 1 ELSE y
        /\ have' = IF filled = F THEN 0 ELSE filled
        /\ UNCHANGED <<pc, heap, image>>
    BY <1>4, <1>6
  <2>2. Room \in Nat \ {0}
    BY <1>2, <1>3 DEF Room
  <2>3. /\ o.ok /\ ContextOk(file.frame, o.ds)
        /\ ds.out <= o.ds.out /\ o.ds.out <= ds.out + Room
    BY <1>1, <1>6, <2>2, OutcomeFacts
  <2>4. o.ds \in Contexts /\ o.ds.out \in Nat
    BY <2>3 DEF ContextOk, Contexts
  <2>5. /\ filled \in 0..F
        /\ filled = F => o.ds.out = (y + 1) * F + 0
        /\ o.ds.out = y * F + filled
    <3>1. /\ y * F + have <= o.ds.out
          /\ o.ds.out <= (y * F + have) + (F - have)
      BY <1>2, <2>3 DEF Room
    <3>2. /\ have + (o.ds.out - (y * F + have)) \in 0..F
          /\ have + (o.ds.out - (y * F + have)) = F => o.ds.out = (y + 1) * F + 0
          /\ o.ds.out = y * F + (have + (o.ds.out - (y * F + have)))
      BY <1>1, <1>2, <1>3, <2>4, <3>1, RowArithmetic
    <3>3. QED
      BY <1>2, <3>2
  <2>6. filled = F => file.row[y] # "bad_type"
    BY <1>6 DEF BadType
  <2> HIDE DEF filled, fails
  <2>7. /\ y' \in 0..H.height /\ have' \in 0..F /\ have' < F
        /\ o.ds.out = y' * F + have'
        /\ y' = H.height => have' = 0
        /\ \A r \in 0..(y' - 1) : file.row[r] # "bad_type"
    <3>1. CASE filled = F
      <4>1. y' = y + 1 /\ have' = 0
        BY <2>1, <3>1
      <4>2. o.ds.out = y' * F + have'
        BY <2>5, <3>1, <4>1
      <4>3. \A r \in 0..(y' - 1) : file.row[r] # "bad_type"
        BY <1>2, <2>6, <3>1, <4>1
      <4>4. QED
        BY <1>1, <1>2, <1>3, <4>1, <4>2, <4>3
    <3>2. CASE filled # F
      BY <1>1, <1>2, <1>3, <2>1, <2>5, <3>2
    <3>3. QED
      BY <3>1, <3>2
  <2>8. TypeOK' /\ BlocksHeld' /\ HeaderChecked'
    BY <1>1, <1>2, <1>3, <2>1, <2>4, <2>7, FileStays
    DEF DecodeInv, TypeOK, BlocksHeld, BlocksAt, HeaderChecked
  <2>9. WindowInStep'
    BY <1>1, <2>1, <2>7, FileStays DEF WindowInStep
  <2>10. ReadsInStep'
    <3>1. /\ DecodedTo(file.frame, o.ds) <= FramePresent
          /\ file.frame.bad # 0 => DecodedTo(file.frame, o.ds) < file.frame.bad
          /\ o.ds.hostage => o.ds.out < RawSize
          /\ \/ o.ds.out = 0
             \/ DecodedTo(file.frame, o.ds) = FramePresent
             \/ file.frame.prod[DecodedTo(file.frame, o.ds)] > o.ds.out
      BY <1>1, <2>2, <2>3, OutcomeFacts
    <3>2. /\ file' = file /\ ds' = o.ds /\ FramePresent' = FramePresent
          /\ RawSize' = RawSize
      BY <1>1, <2>1, FileStays
    <3>3. QED
      BY <2>3, <3>1, <3>2 DEF ReadsInStep, ContextOk, DecodedTo
  <2>11. PictureDecoded' /\ ReturnIsSound' /\ WholeFileVerdict'
    BY <1>1, <2>1 DEF PictureDecoded, ReturnIsSound, NothingLeaks, ImageIsSound,
                      WholeFileVerdict
  <2>12. QED
    BY <2>8, <2>9, <2>10, <2>11 DEF DecodeInv
<1>7. QED
  BY <1>5, <1>6

\* What the buffer still holds once every row is out adds output, or an error.
LEMMA LeftoverIsOverLong ==
  ASSUME DecodeInv, pc = "rows", y = H.height, Unread > 0, NEW o \in Outcomes(1)
  PROVE  OverLong(o)
<1> DEFINE to == DecodedTo(file.frame, ds)
           prod == file.frame.prod
<1>1. /\ IsFrame(file.frame) /\ file.frame.n \in Nat \ {0}
      /\ FramePresent \in 0..file.frame.n /\ Beyond \in Nat
      /\ Beyond > 0 => FramePresent = file.frame.n
      /\ H.height \in Nat \ {0} /\ F \in Nat \ {0} /\ H.raw_byte_count = H.height * F
  BY DecodeFacts
<1>2. /\ ContextOk(file.frame, ds) /\ to <= FramePresent
      /\ ds.hostage => ds.out < RawSize
      /\ ds.out = 0 \/ to = FramePresent \/ prod[to] > ds.out
  BY DEF DecodeInv, ReadsInStep
<1>3. ds.out = H.raw_byte_count /\ ds.out \in Nat
  BY RowFacts
<1>4. ds.out > 0
  <2>1. H.height * F > 0
    BY <1>1
  <2>2. QED
    BY <1>1, <1>3, <2>1
<1>5. /\ ds.in \in Nat /\ ds.hostage \in BOOLEAN
      /\ to = IF ds.hostage THEN file.frame.n ELSE ds.in
      /\ ds.hostage => ds.in = file.frame.n - 1
      /\ ~ds.hostage /\ ds.in = file.frame.n => FrameComplete(file.frame, ds)
  BY <1>2 DEF ContextOk, Contexts, DecodedTo, FrameComplete
<1>6. FramePresent + Beyond - ds.in > 0
  BY DEF Unread
<1> HIDE DEF to, prod
<1>7. CASE FrameComplete(file.frame, ds)
  <2>1. ds.in = file.frame.n
    BY <1>7 DEF FrameComplete
  <2>2. Beyond # 0
    BY <1>1, <1>6, <2>1
  <2>3. QED
    BY <1>7, <2>2, OutcomeFacts DEF OverLong
<1>8. CASE ~FrameComplete(file.frame, ds) /\ o.ok
  <2>1. \/ o.ds.out = ds.out + 1
        \/ o.ds.out = prod[FramePresent]
    BY <1>8, OutcomeFacts DEF prod
  <2>2. prod[to] > ds.out => o.ds.out > ds.out
    BY <1>8, OutcomeFacts DEF prod, to
  <2>3. to = FramePresent => ds.hostage
    BY <1>1, <1>5, <1>6, <1>8
  <2>4. to = FramePresent => prod[FramePresent] > ds.out
    <3>1. SUFFICES ASSUME to = FramePresent PROVE prod[FramePresent] > ds.out
      OBVIOUS
    <3>2. FramePresent = file.frame.n /\ ds.out < RawSize
      BY <1>2, <1>5, <2>3, <3>1
    <3>3. RawSize \in Nat /\ RawSize = prod[file.frame.n]
      BY <1>1 DEF IsFrame, RawSize, prod
    <3>4. QED
      BY <1>3, <3>2, <3>3
  <2>5. o.ds.out # ds.out
    BY <1>2, <1>3, <1>4, <2>1, <2>2, <2>4
  <2>6. QED
    BY <2>5 DEF OverLong
<1>9. QED
  BY <1>7, <1>8 DEF OverLong

LEMMA CheckOverLongKeeps ==
  ASSUME DecodeInv, CheckOverLong
  PROVE  DecodeInv'
<1>1. /\ pc = "rows" /\ y = H.height /\ UNCHANGED <<file, present, rowVars, starved>>
  BY DEF CheckOverLong
<1>2. /\ IsFrame(file.frame) /\ file.frame.n \in Nat \ {0}
      /\ FramePresent \in 0..file.frame.n /\ Beyond \in Nat /\ RawSize \in Nat
      /\ H.height \in Nat \ {0} /\ F \in Nat \ {0} /\ H.raw_byte_count = H.height * F
      /\ present = FileLength => FramePresent = file.frame.n /\ Beyond = file.trailing
  BY <1>1, DecodeFacts
<1>3. /\ ds.out = H.raw_byte_count /\ ds.out \in Nat
      /\ heap = {"pixels", "frow", "ds"} /\ image = {} /\ starved = FALSE
      /\ \A r \in 0..(H.height - 1) : file.row[r] # "bad_type"
  BY <1>1, RowFacts
<1>4. /\ ContextOk(file.frame, ds) /\ DecodedTo(file.frame, ds) <= FramePresent
      /\ file.frame.bad # 0 => DecodedTo(file.frame, ds) < file.frame.bad
  BY <1>1 DEF DecodeInv, ReadsInStep
<1>5. /\ ds.in \in Nat /\ ds.hostage \in BOOLEAN /\ file.frame.bad \in 0..file.frame.n
      /\ DecodedTo(file.frame, ds) = IF ds.hostage THEN file.frame.n ELSE ds.in
      /\ ds.hostage => ds.in = file.frame.n - 1
      /\ ~ds.hostage /\ ds.in = file.frame.n => ds.out = file.frame.prod[file.frame.n]
      /\ ds.out <= file.frame.prod[DecodedTo(file.frame, ds)]
  BY <1>2, <1>4 DEF ContextOk, Contexts, DecodedTo, IsFrame
<1>6. CASE Unread = 0
  <2>1. FramePresent + Beyond - ds.in = 0
    BY <1>6 DEF Unread
  <2>2. /\ Beyond = 0 /\ ds.in = FramePresent /\ ~ds.hostage
        /\ DecodedTo(file.frame, ds) = FramePresent
    BY <1>2, <1>4, <1>5, <2>1
  <2>3. RowsPresent
    <3>1. ds.out <= file.frame.prod[FramePresent] /\ ds.out > 0
      <4>1. H.height * F > 0
        BY <1>2
      <4>2. QED
        BY <1>2, <1>3, <1>5, <2>2, <4>1
    <3>2. FramePresent > 0 /\ file.frame.prod[FramePresent] \in Nat
      BY <1>2, <1>3, <3>1 DEF IsFrame
    <3>3. QED
      BY <1>3, <3>1, <3>2 DEF RowsPresent
  <2>4. FramePresent = file.frame.n => RawSize = H.raw_byte_count /\ file.frame.bad = 0
    BY <1>2, <1>3, <1>4, <1>5, <2>2 DEF RawSize
  <2>5. RowsDone
    BY <1>6 DEF CheckOverLong
  <2>6. pc' = "palette" /\ heap' = {"pixels"} /\ UNCHANGED image
    BY <1>3, <2>5 DEF RowsDone
  <2>7. /\ ds' = ds /\ have' = have /\ y' = H.height
        /\ UNCHANGED <<file, present, image, starved>>
    BY <1>1, <2>6 DEF rowVars
  <2>8. QED
    BY <1>1, <1>3, <2>2, <2>3, <2>4, <2>6, <2>7, PictureOut
<1>7. CASE Unread > 0
  <2>1. PICK o \in Outcomes(1) : IF OverLong(o) THEN RowsFail ELSE RowsDone
    BY <1>7 DEF CheckOverLong
  <2>2. OverLong(o)
    BY <1>1, <1>7, LeftoverIsOverLong
  <2>3. pc' = "done" /\ heap' = {} /\ UNCHANGED image
    BY <1>3, <2>1, <2>2 DEF RowsFail, ReturnNone
  <2>4. present # FileLength \/ ~(ExactFile /\ file.trailing = 0)
    <3>1. SUFFICES ASSUME present = FileLength, ExactFile, file.trailing = 0
                   PROVE  ~OverLong(o)
      BY <2>2
    <3>2. /\ file.frame.bad = 0 /\ RawSize = ds.out
          /\ FramePresent = file.frame.n /\ Beyond = 0
      BY <1>2, <1>3, <3>1 DEF ExactFile
    <3>3. ~FrameComplete(file.frame, ds)
      BY <1>2, <1>5, <1>7, <3>2 DEF FrameComplete, Unread
    <3>4. /\ o.ok /\ ContextOk(file.frame, o.ds) /\ ds.out <= o.ds.out
          /\ DecodedTo(file.frame, o.ds) <= FramePresent
      BY <1>1, <3>2, <3>3, OutcomeFacts
    <3>5. /\ o.ds.out \in Nat /\ DecodedTo(file.frame, o.ds) \in 0..file.frame.n
          /\ o.ds.out <= file.frame.prod[DecodedTo(file.frame, o.ds)]
      BY <1>2, <3>4 DEF ContextOk, Contexts, DecodedTo
    <3>6. /\ file.frame.prod[DecodedTo(file.frame, o.ds)] <= RawSize
          /\ file.frame.prod[DecodedTo(file.frame, o.ds)] \in Nat
      <4> DEFINE to == DecodedTo(file.frame, o.ds)
      <4>1. to \in 0..file.frame.n /\ file.frame.n \in 0..file.frame.n /\ to <= file.frame.n
        BY <1>2, <3>5
      <4> HIDE DEF to
      <4>2. file.frame.prod[to] <= file.frame.prod[file.frame.n] /\ file.frame.prod[to] \in Nat
        BY <1>2, <4>1 DEF IsFrame
      <4>3. QED
        BY <4>2 DEF RawSize, to
    <3>7. o.ds.out = ds.out
      BY <1>3, <3>2, <3>4, <3>5, <3>6
    <3>8. QED
      BY <3>4, <3>7 DEF OverLong
  <2>5. starved' \in BOOLEAN /\ pc # "done"
    BY <1>1, <1>3
  <2>6. QED
    BY <1>1, <2>3, <2>4, <2>5, NoneReturned
<1>8. QED
  BY <1>6, <1>7 DEF CheckOverLong

------------------------------------------------------------------------------
(* The sections before the frame                                             *)

LEMMA CopyPaletteKeeps ==
  ASSUME DecodeInv, CopyPalette
  PROVE  DecodeInv'
<1>1. /\ pc = "palette" /\ UNCHANGED <<file, present, rowVars>>
      /\ heap = {"pixels"} /\ image = {} /\ starved = FALSE
  BY DEF CopyPalette, DecodeInv, TypeOK, BlocksHeld, BlocksAt
<1>2. CASE pc' = "done"
  <2>1. heap' = {} /\ image' = image /\ starved' = TRUE
    BY <1>1, <1>2 DEF CopyPalette, Allocate, ReturnNone
  <2>2. QED
    BY <1>1, <1>2, <2>1, NoneReturned
<1>3. CASE pc' # "done"
  <2>1. PaletteBytes(H) = 0 => PaletteParts = {}
    <3>1. H.palette_count \in Nat /\ H.palette_alpha_count \in Nat
      BY <1>1, DecodeFacts DEF Headers
    <3>2. PaletteBytes(H) = 0 => H.palette_count = 0 /\ H.palette_alpha_count = 0
      BY <3>1 DEF PaletteBytes
    <3>3. H.palette_count = 0 /\ H.palette_alpha_count = 0 => PaletteParts = {} \cup {}
      BY DEF PaletteParts
    <3>4. QED
      BY <3>2, <3>3
  <2>2. pc' = "indices" /\ heap' = {"pixels"} \cup PaletteParts /\ UNCHANGED <<image, starved>>
    BY <1>1, <1>3, <2>1 DEF CopyPalette, Allocate, ReturnNone
  <2>3. TypeOK'
    BY <1>1, <2>2, FileStays
    DEF DecodeInv, TypeOK, rowVars, Blocks, ImageParts, PaletteParts
  <2>4. BlocksHeld' /\ HeaderChecked' /\ PictureDecoded'
    BY <1>1, <2>2, FileStays
    DEF DecodeInv, BlocksHeld, BlocksAt, HeaderChecked, PictureDecoded
  <2>5. WindowInStep' /\ ReadsInStep' /\ ReturnIsSound' /\ WholeFileVerdict'
    BY <2>2 DEF WindowInStep, ReadsInStep, ReturnIsSound, NothingLeaks, ImageIsSound,
                WholeFileVerdict
  <2>6. QED
    BY <2>3, <2>4, <2>5 DEF DecodeInv
<1>4. QED
  BY <1>2, <1>3

LEMMA CheckIndicesKeeps ==
  ASSUME DecodeInv, CheckIndices
  PROVE  DecodeInv'
<1>1. /\ pc = "indices" /\ UNCHANGED <<file, present, rowVars, starved>>
      /\ heap = {"pixels"} \cup PaletteParts /\ image = {} /\ starved = FALSE
  BY DEF CheckIndices, DecodeInv, TypeOK, BlocksHeld, BlocksAt
<1>2. CASE H.palette_count > 0 /\ ~IndicesOk
  <2>1. pc' = "done" /\ heap' = {} /\ UNCHANGED image
    BY <1>1, <1>2 DEF CheckIndices, ReturnNone, Undecoded, PaletteParts
  <2>2. ~ExactFile
    BY <1>2 DEF ExactFile, IndicesOk
  <2>3. QED
    BY <1>1, <2>1, <2>2, NoneReturned
<1>3. CASE ~(H.palette_count > 0 /\ ~IndicesOk)
  <2>1. pc' = "metadata" /\ UNCHANGED <<heap, image>>
    BY <1>3 DEF CheckIndices
  <2>2. \A r \in 0..(H.height - 1) : file.row[r] = "ok"
    <3>1. SUFFICES ASSUME NEW r \in 0..(H.height - 1) PROVE file.row[r] = "ok"
      OBVIOUS
    <3>2. IsFile(file) /\ file.row[r] # "bad_type"
      BY <1>1 DEF DecodeInv, TypeOK, PictureDecoded
    <3>3. file.row[r] \in RowKinds /\ (file.row[r] = "bad_index" => H.palette_count > 0)
      BY <3>2 DEF IsFile, H
    <3>4. QED
      BY <1>3, <3>2, <3>3 DEF IndicesOk, RowKinds
  <2>3. TypeOK' /\ BlocksHeld' /\ HeaderChecked' /\ PictureDecoded'
    BY <1>1, <2>1, <2>2, FileStays
    DEF DecodeInv, TypeOK, BlocksHeld, BlocksAt, HeaderChecked, PictureDecoded, rowVars
  <2>4. WindowInStep' /\ ReadsInStep' /\ ReturnIsSound' /\ WholeFileVerdict'
    BY <2>1 DEF WindowInStep, ReadsInStep, ReturnIsSound, NothingLeaks, ImageIsSound,
                WholeFileVerdict
  <2>5. QED
    BY <2>3, <2>4 DEF DecodeInv
<1>4. QED
  BY <1>2, <1>3

LEMMA CopyMetadataKeeps ==
  ASSUME DecodeInv, CopyMetadata
  PROVE  DecodeInv'
<1>1. /\ pc = "metadata" /\ pc' = "done" /\ UNCHANGED <<file, present, rowVars>>
      /\ heap = {"pixels"} \cup PaletteParts /\ starved = FALSE
      /\ image' = heap' \cap ImageParts
  BY DEF CopyMetadata, DecodeInv, TypeOK, BlocksHeld, BlocksAt
<1>2. /\ heap' = heap \/ heap' = heap \cup {"metadata"}
      /\ starved' \in BOOLEAN
      /\ ~starved' => (heap' = IF H.meta_byte_count = 0 THEN heap
                                                        ELSE heap \cup {"metadata"})
  <2>1. PICK oom \in OutOfMemory :
          /\ heap' = IF H.meta_byte_count = 0 \/ oom THEN heap
                                                     ELSE heap \cup {"metadata"}
          /\ starved' = (starved \/ (H.meta_byte_count > 0 /\ oom))
    BY DEF CopyMetadata
  <2>2. H.meta_byte_count \in Nat
    BY <1>1, DecodeFacts DEF Headers
  <2>3. starved' \in BOOLEAN /\ (starved' <=> H.meta_byte_count > 0 /\ oom)
    BY <1>1, <2>1
  <2>4. QED
    BY <2>1, <2>2, <2>3
<1>3. /\ IsFile(file) /\ Decodable(H) /\ H.meta_byte_count \in Nat
      /\ RowsPresent /\ Beyond = 0
      /\ FramePresent = file.frame.n => RawSize = H.raw_byte_count /\ file.frame.bad = 0
      /\ \A r \in 0..(H.height - 1) : file.row[r] = "ok"
      /\ present = FileLength => FramePresent = file.frame.n /\ Beyond = file.trailing
  BY <1>1, DecodeFacts DEF DecodeInv, PictureDecoded, Headers
<1>4. /\ image' = heap' /\ image' # {} /\ image' \subseteq ImageParts
      /\ image' \ {"metadata"} = {"pixels"} \cup PaletteParts
      /\ ~starved' => ("metadata" \in image' <=> H.meta_byte_count > 0)
  BY <1>1, <1>2, <1>3 DEF ImageParts, PaletteParts
<1>5. TypeOK'
  BY <1>1, <1>2, <1>4, FileStays DEF DecodeInv, TypeOK, rowVars, Blocks
<1>6. ReturnIsSound'
  BY <1>1, <1>3, <1>4, FileStays DEF ReturnIsSound, NothingLeaks, ImageIsSound
<1>7. WholeFileVerdict'
  <2>1. present = FileLength => ExactFile /\ file.trailing = 0
    BY <1>3 DEF ExactFile
  <2>2. QED
    BY <1>1, <1>4, <2>1, FileStays DEF WholeFileVerdict
<1>8. BlocksHeld' /\ HeaderChecked' /\ WindowInStep' /\ ReadsInStep' /\ PictureDecoded'
  BY <1>1 DEF BlocksHeld, HeaderChecked, WindowInStep, ReadsInStep, PictureDecoded
<1>9. QED
  BY <1>5, <1>6, <1>7, <1>8 DEF DecodeInv

FileIsOk == IsFile(file)

\* A call that begins has promised nothing.
LEMMA CallBeginsInv == FileIsOk /\ CallBegins => DecodeInv
<1> SUFFICES ASSUME IsFile(file), CallBegins PROVE DecodeInv
  BY DEF FileIsOk
<1>1. TypeOK
  <2>1. H.height \in Nat
    BY FileSizes
  <2>2. F \in Nat
    BY FileSizes, SizesAreNat DEF F
  <2>3. FreshContext \in Contexts
    BY DEF FreshContext, Contexts
  <2>4. 0 \in 0..H.height /\ 0 \in 0..F
    BY <2>1, <2>2
  <2>5. QED
    BY <2>3, <2>4 DEF TypeOK, CallBegins
<1>2. BlocksHeld /\ HeaderChecked
  BY DEF CallBegins, BlocksHeld, BlocksAt, HeaderChecked
<1>3. /\ WindowInStep /\ ReadsInStep /\ PictureDecoded /\ ReturnIsSound
      /\ WholeFileVerdict
  BY DEF CallBegins, WindowInStep, ReadsInStep, PictureDecoded, ReturnIsSound,
         NothingLeaks, ImageIsSound, WholeFileVerdict
<1>4. QED
  BY <1>1, <1>2, <1>3 DEF DecodeInv

LEMMA CallBeginsInvNext == FileIsOk' /\ CallBegins' => DecodeInv'
BY CallBeginsInv, PTL

LEMMA DecodeStep ==
  ASSUME DecodeInv, [Next]_vars
  PROVE  DecodeInv'
<1>1. CASE Next
  BY <1>1, CheckHeaderKeeps, AllocateKeeps, DecompressPlanesKeeps, AllocateWindowKeeps,
     DecodeRowKeeps, CheckOverLongKeeps, CopyPaletteKeeps, CheckIndicesKeeps,
     CopyMetadataKeeps DEF Next
<1>2. CASE UNCHANGED vars
  <2>1. UNCHANGED <<file, present, pc, heap, ds, y, have, image, starved>>
    BY <1>2 DEF vars
  <2>2. TypeOK' /\ BlocksHeld' /\ HeaderChecked' /\ PictureDecoded'
    BY <2>1, FileStays
    DEF DecodeInv, TypeOK, BlocksHeld, BlocksAt, HeaderChecked, PictureDecoded
  <2>3. WindowInStep' /\ ReadsInStep'
    BY <2>1, FileStays DEF DecodeInv, WindowInStep, ReadsInStep
  <2>4. ReturnIsSound' /\ WholeFileVerdict'
    BY <2>1, FileStays
    DEF DecodeInv, ReturnIsSound, NothingLeaks, ImageIsSound, WholeFileVerdict
  <2>5. QED
    BY <2>2, <2>3, <2>4 DEF DecodeInv
<1>3. QED
  BY <1>1, <1>2

------------------------------------------------------------------------------
(* The encoder                                                               *)

\* A field of the header holds what is not above its largest value.
LEMMA CastIsNat ==
  ASSUME NEW n \in Nat
  PROVE  /\ Uint32(n) \in Nat /\ Uint32(n) <= n
         /\ Uint32(n) = n <=> n <= Uint32Max
BY EncodeAssumption, SMT DEF Uint32

\* The sizes the encoder computes from an image, and the headers it may write.
LEMMA SourceSizes ==
  ASSUME IsSource(input)
  PROVE  /\ Depth \in Nat /\ EntryCount \in Nat
         /\ \A f \in ColorFilters : \A s \in Nat : HeaderOf(f, s) \in Headers
         /\ \A f \in ColorFilters : FilteredBytes(f) \in Nat
<1>1. /\ input.width \in Nat /\ input.height \in Nat /\ input.channels \in Nat
      /\ input.bytes_per_channel \in Nat /\ input.bit_depth \in Nat
      /\ input.palette \in Nat /\ input.palette_alpha \in Nat /\ input.metadata \in Nat
  BY DEF IsSource
<1>2. Depth \in Nat /\ EntryCount \in Nat
  BY <1>1 DEF Depth, EntryCount
<1>3. ASSUME NEW f \in ColorFilters, NEW s \in Nat
      PROVE  HeaderOf(f, s) \in Headers
  BY <1>1, <1>2, CastIsNat DEF HeaderOf, Headers
<1>4. FilterWidth(G) \in Nat /\ PixelBytes(G) \in Nat
  <2>1. G \in Headers
    BY <1>3 DEF G, ColorFilters
  <2>2. QED
    BY <2>1, SizesAreNat
<1>5. ASSUME NEW f \in ColorFilters
      PROVE  FilteredBytes(f) \in Nat
  BY <1>1, <1>4, FilteredSizeIsNat DEF FilteredBytes
<1>6. QED
  BY <1>2, <1>3, <1>5

\* The filters the flags and the image allow.
Allowed ==
  { f \in ColorFilters :
      /\ f # "UNKNOWN"
      /\ "FAST_DECODE" \in flags => f \in {"NONE", "DELTA"}
      /\ "PROGRESSIVE" \in flags => f # "BCIF"
      /\ f = "BCIF" => EntryCount = 0 /\ Depth = 8 /\ input.channels \in {3, 4} }

\* Two filters at least are tried, all of them allowed.
LEMMA CandidatesAllowed ==
  Candidates \in Seq(Allowed) /\ Len(Candidates) \in Nat /\ Len(Candidates) >= 2
<1> DEFINE one   == <<"NONE", "DELTA">>
           two   == IF "FAST_DECODE" \notin flags THEN <<"ADAPTIVE">> ELSE <<>>
           three == IF /\ flags \cap {"PROGRESSIVE", "FAST_DECODE"} = {} /\ EntryCount = 0
                       /\ Depth = 8 /\ input.channels \in {3, 4}
                      THEN <<"BCIF">> ELSE <<>>
<1>1. one \in Seq(Allowed) /\ Len(one) = 2
  <2>1. "NONE" \in Allowed /\ "DELTA" \in Allowed
    BY DEF Allowed, ColorFilters
  <2>2. QED
    BY <2>1
<1>2. two \in Seq(Allowed) /\ Len(two) \in Nat
  <2>1. "FAST_DECODE" \notin flags => "ADAPTIVE" \in Allowed
    BY DEF Allowed, ColorFilters
  <2>2. QED
    BY <2>1
<1>3. three \in Seq(Allowed) /\ Len(three) \in Nat
  <2> DEFINE bcif == /\ flags \cap {"PROGRESSIVE", "FAST_DECODE"} = {} /\ EntryCount = 0
                     /\ Depth = 8 /\ input.channels \in {3, 4}
  <2>1. bcif => "BCIF" \in Allowed
    BY DEF Allowed, ColorFilters
  <2>2. three = IF bcif THEN <<"BCIF">> ELSE <<>>
    OBVIOUS
  <2> HIDE DEF bcif, three
  <2>3. QED
    BY <2>1, <2>2
<1> HIDE DEF one, two, three
<1>4. one \o two \in Seq(Allowed) /\ Len(one \o two) = Len(one) + Len(two)
  BY <1>1, <1>2, ConcatProperties
<1>5. /\ (one \o two) \o three \in Seq(Allowed)
      /\ Len((one \o two) \o three) = Len(one \o two) + Len(three)
  BY <1>3, <1>4, ConcatProperties
<1>6. Candidates = (one \o two) \o three
  BY DEF Candidates, one, two, three
<1>7. QED
  BY <1>1, <1>2, <1>3, <1>4, <1>5, <1>6

\* What depends on the arguments stands while they do.
LEMMA SourceStays ==
  ASSUME UNCHANGED <<input, flags>>
  PROVE  /\ Depth' = Depth /\ EntryCount' = EntryCount /\ G' = G
         /\ Candidates' = Candidates
         /\ (Encodable' <=> Encodable) /\ (IsSource(input)' <=> IsSource(input))
         /\ \A f : FilteredBytes(f)' = FilteredBytes(f)
         /\ \A f, s : HeaderOf(f, s)' = HeaderOf(f, s)
<1>1. Depth' = Depth /\ EntryCount' = EntryCount
  BY DEF Depth, EntryCount
<1>2. \A f, s : HeaderOf(f, s)' = HeaderOf(f, s)
  BY <1>1 DEF HeaderOf
<1>3. G' = G
  BY <1>2 DEF G
<1>4. Candidates' = Candidates
  BY <1>1 DEF Candidates
<1>5. Encodable' <=> Encodable
  BY <1>1, <1>3 DEF Encodable, PaletteOk
<1>6. \A f : FilteredBytes(f)' = FilteredBytes(f)
  BY <1>3 DEF FilteredBytes
<1>7. QED
  BY <1>1, <1>2, <1>3, <1>4, <1>5, <1>6

\* Steps that try no candidate and return no file.
LEMMA EncodeQuiet ==
  ASSUME EncodeInv, UNCHANGED <<input, flags, loopVars>>,
         short' \in BOOLEAN, short => short',
         at' \in {"begin", "buffers", "try", "assemble", "returned"},
         CallInStep', FileIsChosen'
  PROVE  EncodeInv'
<1>1. /\ slot' = slot /\ best_block' = best_block /\ work' = work /\ found' = found
      /\ csize' = csize /\ chosen' = chosen /\ filtered_bytes' = filtered_bytes
      /\ tried' = tried /\ ci' = ci /\ input' = input /\ flags' = flags
  BY DEF loopVars
<1>2. EncodeTypeOK'
  BY <1>1, SourceStays DEF EncodeInv, EncodeTypeOK
<1>3. BestKept'
  BY <1>1, SourceStays DEF EncodeInv, BestKept, SmallestIs
<1>4. QED
  BY <1>2, <1>3 DEF EncodeInv

LEMMA CheckImageKeeps ==
  ASSUME EncodeInv, CheckImage
  PROVE  EncodeInv'
<1>1. /\ at = "begin" /\ UNCHANGED <<input, flags, loopVars, short>>
      /\ blocks = {} /\ ci = 0 /\ encoded = NoFile /\ short \in BOOLEAN
  BY DEF CheckImage, EncodeInv, CallInStep, EncodeTypeOK
<1>2. \/ Encodable /\ at' = "buffers"
      \/ ~Encodable /\ at' = "returned"
  BY DEF CheckImage, ReturnNothing
<1>3. blocks' = {} /\ encoded' = NoFile /\ ci' = 0
  BY <1>1 DEF CheckImage, ReturnNothing, loopVars
<1>4. CallInStep' /\ FileIsChosen'
  BY <1>1, <1>2, <1>3, SourceStays DEF CallInStep, FileIsChosen, NoFile
<1>5. QED
  BY <1>1, <1>2, <1>4, EncodeQuiet

LEMMA AllocateBuffersKeeps ==
  ASSUME EncodeInv, AllocateBuffers
  PROVE  EncodeInv'
<1>1. /\ at = "buffers" /\ UNCHANGED <<input, flags, loopVars>>
      /\ blocks = {} /\ ci = 0 /\ encoded = NoFile /\ short \in BOOLEAN /\ Encodable
  BY DEF AllocateBuffers, EncodeInv, CallInStep, EncodeTypeOK
<1>2. /\ encoded' = NoFile
      /\ \/ at' = "returned" /\ blocks' = {} /\ short' = TRUE
         \/ at' = "try" /\ blocks' = {"filtered", "A", "B"} /\ short' = short
  BY <1>1 DEF AllocateBuffers, ReturnNothing
<1>3. CallInStep' /\ FileIsChosen'
  BY <1>1, <1>2, SourceStays DEF CallInStep, FileIsChosen, NoFile
<1>4. QED
  BY <1>1, <1>2, <1>3, EncodeQuiet

\* The loop variables, typed.
LEMMA TryFacts ==
  ASSUME EncodeInv
  PROVE  /\ ci \in Nat /\ ci = Len(tried) /\ tried \in Seq([of : ColorFilters, n : Nat])
         /\ \A k \in 1..ci : tried[k] \in [of : ColorFilters, n : Nat]
         /\ best_block # work /\ best_block \in {"A", "B"} /\ work \in {"A", "B"}
         /\ slot \in [{"A", "B"} -> Frames] /\ csize \in Nat
         /\ \A f \in Allowed : FilteredBytes(f) \in Nat
         /\ \A k \in 1..Len(Candidates) : Candidates[k] \in Allowed
<1>1. /\ ci = Len(tried) /\ tried \in Seq([of : ColorFilters, n : Nat])
      /\ best_block \in {"A", "B"} /\ work \in {"A", "B"} \ {best_block}
      /\ slot \in [{"A", "B"} -> Frames] /\ csize \in Nat /\ IsSource(input)
  BY DEF EncodeInv, EncodeTypeOK
<1>2. \A f \in Allowed : FilteredBytes(f) \in Nat
  BY <1>1, SourceSizes DEF Allowed
<1>3. \A k \in 1..Len(Candidates) : Candidates[k] \in Allowed
  BY CandidatesAllowed
<1>4. \A k \in 1..ci : tried[k] \in [of : ColorFilters, n : Nat]
  <2> DEFINE S == [of : ColorFilters, n : Nat]
  <2>1. tried \in Seq(S) /\ ci = Len(tried)
    BY <1>1
  <2> HIDE DEF S
  <2>2. \A k \in 1..Len(tried) : tried[k] \in S
    BY <2>1, ElementOfSeq
  <2>3. QED
    BY <2>1, <2>2 DEF S
<1>5. ci \in Nat /\ best_block # work
  BY <1>1
<1>6. QED
  BY <1>1, <1>2, <1>3, <1>4, <1>5

\* A candidate that was passed over leaves the best one where it is.
LEMMA SkipKeeps ==
  ASSUME EncodeInv, TryCandidate, SkipCandidate(Candidates[ci + 1])
  PROVE  EncodeInv'
<1> DEFINE f == Candidates[ci + 1]
           r == [of |-> f, n |-> 0]
<1>1. /\ at = "try" /\ ci < Len(Candidates) /\ ci' = ci + 1
      /\ UNCHANGED <<input, flags, at, blocks, encoded>>
      /\ short' = TRUE /\ tried' = Append(tried, r)
      /\ slot' \in {slot, [slot EXCEPT ![work] = Garbage]}
      /\ UNCHANGED <<best_block, work, found, csize, chosen, filtered_bytes>>
  BY DEF TryCandidate, SkipCandidate
<1>2. /\ ci \in Nat /\ ci = Len(tried) /\ tried \in Seq([of : ColorFilters, n : Nat])
      /\ best_block # work /\ best_block \in {"A", "B"} /\ work \in {"A", "B"}
      /\ slot \in [{"A", "B"} -> Frames]
      /\ Len(Candidates) \in Nat /\ f \in ColorFilters
  <2>1. ci \in Nat /\ Len(Candidates) \in Nat
    BY TryFacts, CandidatesAllowed
  <2>2. ci + 1 \in 1..Len(Candidates)
    BY <1>1, <2>1
  <2>3. QED
    BY <2>1, <2>2, TryFacts DEF Allowed
<1> HIDE DEF f
<1>3. /\ tried' \in Seq([of : ColorFilters, n : Nat]) /\ Len(tried') = ci'
      /\ ci' \in Nat /\ ci' <= Len(Candidates)
      /\ \A k \in 1..ci : tried'[k] = tried[k]
      /\ tried'[ci'] = r
  BY <1>1, <1>2
<1>4. slot' \in [{"A", "B"} -> Frames] /\ slot'[best_block] = slot[best_block]
  <2>1. Garbage \in Frames
    BY DEF Garbage, Frames
  <2>2. QED
    BY <1>1, <1>2, <2>1
<1>5. Candidates' = Candidates /\ (Encodable' <=> Encodable)
      /\ (IsSource(input)' <=> IsSource(input))
      /\ \A g : FilteredBytes(g)' = FilteredBytes(g)
  BY <1>1, SourceStays
<1>6. EncodeTypeOK'
  BY <1>1, <1>3, <1>4, <1>5 DEF EncodeInv, EncodeTypeOK
<1>7. \A k \in 1..ci' : k \in 1..ci \/ k = ci'
  BY <1>1, <1>2
<1>8. BestKept'
  <2>1. \A k \in 1..ci' : tried'[k].of = Candidates'[k] /\ (tried'[k].n = 0 => short')
    BY <1>1, <1>3, <1>5, <1>7 DEF EncodeInv, BestKept, f
  <2>2. found' <=> \E k \in 1..ci' : tried'[k].n > 0
    <3>1. found' <=> \E k \in 1..ci : tried[k].n > 0
      BY <1>1 DEF EncodeInv, BestKept
    <3>2. tried'[ci'].n = 0
      BY <1>3
    <3>3. 1..ci \subseteq 1..ci'
      BY <1>1, <1>2
    <3>4. ASSUME NEW k \in 1..ci, tried[k].n > 0
          PROVE  \E j \in 1..ci' : tried'[j].n > 0
      <4>1. k \in 1..ci' /\ tried'[k] = tried[k]
        BY <1>3, <3>3
      <4>2. QED
        BY <3>4, <4>1
    <3>5. ASSUME NEW k \in 1..ci', tried'[k].n > 0
          PROVE  \E j \in 1..ci : tried[j].n > 0
      <4>1. k # ci'
        BY <3>2, <3>5
      <4>2. k \in 1..ci
        BY <1>7, <4>1
      <4>3. tried'[k] = tried[k]
        BY <1>3, <4>2
      <4>4. QED
        BY <3>5, <4>2, <4>3
    <3>6. QED
      BY <3>1, <3>4, <3>5
  <2>3. ASSUME found'
        PROVE  /\ slot'[best_block'] = [of |-> chosen', bytes |-> filtered_bytes', n |-> csize']
               /\ filtered_bytes' = FilteredBytes(chosen') /\ csize' > 0
    BY <1>1, <1>4, <2>3 DEF EncodeInv, BestKept
  <2>4. ASSUME found'
        PROVE  \E k \in 1..ci' : tried'[k].of = chosen' /\ tried'[k].n = csize' /\ SmallestIs(k)'
    <3>1. PICK k \in 1..ci : tried[k].of = chosen /\ tried[k].n = csize /\ SmallestIs(k)
      BY <1>1, <2>4 DEF EncodeInv, BestKept
    <3>2. k \in 1..ci' /\ tried'[k] = tried[k]
      BY <1>1, <1>2, <1>3, <3>1
    <3>3. ASSUME NEW j \in 1..Len(tried'), tried'[j].n > 0
          PROVE  tried'[k].n < tried'[j].n \/ (tried'[k].n = tried'[j].n /\ k <= j)
      <4>1. j \in 1..ci /\ tried'[j] = tried[j]
        BY <1>3, <1>7, <3>3
      <4>2. QED
        BY <1>2, <3>1, <3>2, <3>3, <4>1 DEF SmallestIs
    <3>4. QED
      BY <1>1, <3>1, <3>2, <3>3 DEF SmallestIs
  <2>5. (FilteredBytes(chosen))' = FilteredBytes(chosen')
    BY <1>1, <1>5
  <2>6. QED
    BY <2>1, <2>2, <2>3, <2>4, <2>5 DEF BestKept
<1>9. CallInStep' /\ FileIsChosen'
  BY <1>1, <1>5 DEF EncodeInv, CallInStep, FileIsChosen
<1>10. QED
  BY <1>6, <1>8, <1>9 DEF EncodeInv

\* A frame is kept when it is smaller than the smallest so far; one of the same
\* size that came earlier stays.
LEMMA CompressKeeps ==
  ASSUME EncodeInv, TryCandidate, Compress(Candidates[ci + 1])
  PROVE  EncodeInv'
<1> DEFINE f == Candidates[ci + 1]
<1>1. PICK n \in FrameSizes :
        /\ slot' = [slot EXCEPT ![work] = [of |-> f, bytes |-> FilteredBytes(f), n |-> n]]
        /\ tried' = Append(tried, [of |-> f, n |-> n])
        /\ IF Smallest(n)
             THEN /\ PromoteWork
                  /\ found' = TRUE /\ csize' = n /\ chosen' = f
                  /\ filtered_bytes' = FilteredBytes(f)
             ELSE UNCHANGED <<best_block, work, found, csize, chosen, filtered_bytes>>
        /\ UNCHANGED short
  BY DEF Compress
<1> DEFINE r == [of |-> f, n |-> n]
           w == [of |-> f, bytes |-> FilteredBytes(f), n |-> n]
<1>2. /\ at = "try" /\ ci < Len(Candidates) /\ ci' = ci + 1
      /\ UNCHANGED <<input, flags, at, blocks, encoded>>
  BY DEF TryCandidate
<1>3. /\ ci \in Nat /\ ci = Len(tried) /\ tried \in Seq([of : ColorFilters, n : Nat])
      /\ \A k \in 1..ci : tried[k] \in [of : ColorFilters, n : Nat]
      /\ best_block # work /\ best_block \in {"A", "B"} /\ work \in {"A", "B"}
      /\ slot \in [{"A", "B"} -> Frames] /\ csize \in Nat
      /\ Len(Candidates) \in Nat /\ f \in ColorFilters /\ FilteredBytes(f) \in Nat
      /\ n \in Nat /\ n > 0
  <2>1. ci \in Nat /\ Len(Candidates) \in Nat
    BY TryFacts, CandidatesAllowed
  <2>2. ci + 1 \in 1..Len(Candidates)
    BY <1>2, <2>1
  <2>3. f \in Allowed
    BY <2>2, TryFacts
  <2>4. n \in Nat /\ n > 0
    BY EncodeAssumption
  <2>5. QED
    BY <2>1, <2>3, <2>4, TryFacts DEF Allowed
<1> HIDE DEF f
<1>4. /\ tried' \in Seq([of : ColorFilters, n : Nat]) /\ Len(tried') = ci'
      /\ ci' \in Nat /\ ci' <= Len(Candidates)
      /\ \A k \in 1..ci : tried'[k] = tried[k]
      /\ tried'[ci'] = r
  BY <1>1, <1>2, <1>3
<1>5. /\ slot' \in [{"A", "B"} -> Frames] /\ slot'[work] = w
      /\ slot'[best_block] = slot[best_block]
  <2>1. w \in Frames
    BY <1>3 DEF Frames
  <2> HIDE DEF w
  <2>2. QED
    BY <1>1, <1>3, <2>1 DEF w
<1>6. /\ Candidates' = Candidates /\ (Encodable' <=> Encodable)
      /\ (IsSource(input)' <=> IsSource(input))
      /\ \A g : FilteredBytes(g)' = FilteredBytes(g)
  BY <1>2, SourceStays
<1>7. \A k \in 1..ci' : k \in 1..ci \/ k = ci'
  BY <1>2, <1>3
<1>8. EncodeTypeOK'
  <2>1. /\ best_block' \in {"A", "B"} /\ work' \in {"A", "B"} \ {best_block'}
        /\ found' \in BOOLEAN /\ csize' \in Nat /\ filtered_bytes' \in Nat
        /\ short' \in BOOLEAN
    BY <1>1, <1>3 DEF PromoteWork, EncodeInv, EncodeTypeOK
  <2>2. QED
    BY <1>2, <1>4, <1>5, <1>6, <2>1 DEF EncodeInv, EncodeTypeOK
<1>9. /\ \A k \in 1..ci' : tried'[k].of = Candidates'[k] /\ (tried'[k].n = 0 => short')
      /\ \E k \in 1..ci' : tried'[k].n > 0
  <2>1. ASSUME NEW k \in 1..ci'
        PROVE  tried'[k].of = Candidates'[k] /\ (tried'[k].n = 0 => short')
    <3>1. CASE k \in 1..ci
      BY <1>1, <1>4, <1>6, <3>1 DEF EncodeInv, BestKept
    <3>2. CASE k = ci'
      BY <1>2, <1>3, <1>4, <1>6, <3>2 DEF f
    <3>3. QED
      BY <1>7, <3>1, <3>2
  <2>2. ci' \in 1..ci' /\ tried'[ci'].n > 0
    BY <1>2, <1>3, <1>4
  <2>3. QED
    BY <2>1, <2>2
<1>10. CASE Smallest(n)
  <2>1. /\ best_block' = work /\ found' = TRUE /\ csize' = n /\ chosen' = f
        /\ filtered_bytes' = FilteredBytes(f)
    BY <1>1, <1>10 DEF PromoteWork
  <2>2. ASSUME NEW j \in 1..Len(tried'), tried'[j].n > 0
        PROVE  tried'[ci'].n < tried'[j].n \/ (tried'[ci'].n = tried'[j].n /\ ci' <= j)
    <3>1. CASE j \in 1..ci
      <4>1. tried'[j] = tried[j]
        BY <1>4, <3>1
      <4>2. found
        BY <2>2, <3>1, <4>1 DEF EncodeInv, BestKept
      <4>3. PICK k \in 1..ci : tried[k].n = csize /\ SmallestIs(k)
        BY <4>2 DEF EncodeInv, BestKept
      <4>4. csize <= tried[j].n
        BY <1>3, <2>2, <3>1, <4>1, <4>3 DEF SmallestIs
      <4>5. n < csize
        BY <1>10, <4>2 DEF Smallest
      <4>6. QED
        BY <1>3, <1>4, <3>1, <4>1, <4>4, <4>5
    <3>2. CASE j = ci'
      BY <1>4, <3>2
    <3>3. QED
      BY <1>4, <1>7, <3>1, <3>2
  <2>3. \E k \in 1..ci' : tried'[k].of = chosen' /\ tried'[k].n = csize' /\ SmallestIs(k)'
    <3>1. ci' \in 1..ci' /\ tried'[ci'].of = chosen' /\ tried'[ci'].n = csize'
      BY <1>2, <1>3, <1>4, <2>1
    <3>2. QED
      BY <2>2, <3>1 DEF SmallestIs
  <2>4. slot'[best_block'] = [of |-> chosen', bytes |-> filtered_bytes', n |-> csize']
    BY <1>5, <2>1
  <2>5. FilteredBytes(chosen)' = filtered_bytes'
    BY <1>6, <2>1
  <2>6. BestKept'
    BY <1>3, <1>9, <2>1, <2>3, <2>4, <2>5 DEF BestKept
  <2>7. CallInStep' /\ FileIsChosen'
    BY <1>2, <1>6 DEF EncodeInv, CallInStep, FileIsChosen
  <2>8. QED
    BY <1>8, <2>6, <2>7 DEF EncodeInv
<1>11. CASE ~Smallest(n)
  <2>1. /\ UNCHANGED <<best_block, work, found, csize, chosen, filtered_bytes>>
        /\ found /\ csize <= n
    BY <1>1, <1>3, <1>11 DEF Smallest
  <2>2. PICK k \in 1..ci : tried[k].of = chosen /\ tried[k].n = csize /\ SmallestIs(k)
    BY <2>1 DEF EncodeInv, BestKept
  <2>3. k \in 1..ci' /\ tried'[k] = tried[k]
    BY <1>2, <1>3, <1>4
  <2>4. ASSUME NEW j \in 1..Len(tried'), tried'[j].n > 0
        PROVE  tried'[k].n < tried'[j].n \/ (tried'[k].n = tried'[j].n /\ k <= j)
    <3>1. CASE j \in 1..ci
      BY <1>3, <1>4, <2>2, <2>3, <2>4, <3>1 DEF SmallestIs
    <3>2. CASE j = ci'
      <4>1. tried'[j].n = n /\ k <= j
        <5>1. tried'[j] = r
          BY <1>4, <3>2
        <5>2. k <= ci'
          BY <2>3
        <5>3. QED
          BY <3>2, <5>1, <5>2
      <4>2. csize < n \/ csize = n
        BY <1>3, <2>1
      <4>3. tried'[k].n = csize
        BY <2>2, <2>3
      <4>4. QED
        BY <4>1, <4>2, <4>3
    <3>3. QED
      BY <1>4, <1>7, <3>1, <3>2
  <2>5. \E m \in 1..ci' : tried'[m].of = chosen' /\ tried'[m].n = csize' /\ SmallestIs(m)'
    BY <2>1, <2>2, <2>3, <2>4 DEF SmallestIs
  <2>6. /\ slot'[best_block'] = [of |-> chosen', bytes |-> filtered_bytes', n |-> csize']
        /\ filtered_bytes' = FilteredBytes(chosen)' /\ csize' > 0 /\ found'
    BY <1>5, <1>6, <2>1 DEF EncodeInv, BestKept
  <2>7. BestKept'
    BY <1>9, <2>5, <2>6 DEF BestKept
  <2>8. CallInStep' /\ FileIsChosen'
    BY <1>2, <1>6, <2>1 DEF EncodeInv, CallInStep, FileIsChosen
  <2>9. QED
    BY <1>8, <2>7, <2>8 DEF EncodeInv
<1>12. QED
  BY <1>10, <1>11

LEMMA EndTriesKeeps ==
  ASSUME EncodeInv, EndTries
  PROVE  EncodeInv'
<1>1. /\ at = "try" /\ ci = Len(Candidates) /\ UNCHANGED <<input, flags, loopVars, short>>
      /\ blocks = {"filtered", "A", "B"} /\ encoded = NoFile /\ Encodable
      /\ short \in BOOLEAN /\ encoded' = NoFile
  BY DEF EndTries, ReturnNothing, EncodeInv, CallInStep, EncodeTypeOK
<1>2. best_block \in {"A", "B"} /\ work \in {"A", "B"} \ {best_block}
  BY DEF EncodeInv, EncodeTypeOK
<1>3. CASE found
  <2>1. at' = "assemble" /\ blocks' = {best_block'} /\ found'
    BY <1>1, <1>2, <1>3 DEF EndTries, loopVars
  <2>2. CallInStep' /\ FileIsChosen'
    BY <1>1, <2>1, SourceStays DEF CallInStep, FileIsChosen, NoFile
  <2>3. QED
    BY <1>1, <2>1, <2>2, EncodeQuiet
<1>4. CASE ~found
  <2>1. at' = "returned" /\ blocks' = {}
    BY <1>1, <1>2, <1>4 DEF EndTries, ReturnNothing
  <2>2. short
    <3>1. 1 \in 1..ci
      BY <1>1, CandidatesAllowed
    <3>2. tried[1].n \in Nat /\ ~(tried[1].n > 0)
      BY <1>4, <3>1, TryFacts DEF EncodeInv, BestKept
    <3>3. tried[1].n = 0
      BY <3>2
    <3>4. QED
      BY <3>1, <3>3 DEF EncodeInv, BestKept
  <2>3. CallInStep' /\ FileIsChosen'
    BY <1>1, <2>1, <2>2, SourceStays DEF CallInStep, FileIsChosen, NoFile
  <2>4. QED
    BY <1>1, <2>1, <2>3, EncodeQuiet
<1>5. QED
  BY <1>3, <1>4

LEMMA AssembleKeeps ==
  ASSUME EncodeInv, Assemble
  PROVE  EncodeInv'
<1>1. /\ at = "assemble" /\ UNCHANGED <<input, flags, loopVars>>
      /\ blocks = {best_block} /\ encoded = NoFile /\ Encodable /\ found
      /\ short \in BOOLEAN /\ best_block \in {"A", "B"} /\ at' = "returned"
  BY DEF Assemble, ReturnNothing, EncodeInv, CallInStep, EncodeTypeOK
<1>2. \/ blocks' = {} /\ encoded' = NoFile /\ short' = TRUE
      \/ blocks' = {"file"} /\ encoded' = ChosenFile /\ short' = short
  BY <1>1 DEF Assemble, ReturnNothing
<1>3. ChosenFile # NoFile
  <2>1. "hdr" \in DOMAIN ChosenFile /\ "hdr" \notin DOMAIN NoFile
    BY DEF ChosenFile, NoFile
  <2>2. QED
    BY <2>1
<1>4. ChosenFile' = ChosenFile
  <2>1. /\ slot' = slot /\ best_block' = best_block /\ csize' = csize
        /\ chosen' = chosen /\ filtered_bytes' = filtered_bytes /\ input' = input
    BY <1>1 DEF loopVars
  <2>2. EntryCount' = EntryCount /\ \A f, s : HeaderOf(f, s)' = HeaderOf(f, s)
    BY <1>1, SourceStays
  <2>3. (HeaderOf(chosen, filtered_bytes))' = HeaderOf(chosen, filtered_bytes)
    BY <2>1, <2>2
  <2>4. QED
    BY <2>1, <2>2, <2>3 DEF ChosenFile, FrameOf, Surplus, Uint32
<1>5. CallInStep'
  BY <1>1, <1>2, <1>3, SourceStays DEF CallInStep
<1>6. FileIsChosen'
  BY <1>1, <1>2, <1>4, SourceStays DEF FileIsChosen, loopVars
<1>7. QED
  BY <1>1, <1>2, <1>5, <1>6, EncodeQuiet

LEMMA EncodeStart ==
  ASSUME EncodeInit
  PROVE  EncodeInv
<1>1. IsSource(input)
  BY EncodeAssumption DEF EncodeInit
<1>2. EncodeTypeOK
  <2>1. Garbage \in Frames
    BY DEF Garbage, Frames
  <2>2. /\ tried = <<>> /\ Len(tried) = 0 /\ ci = 0 /\ 0 <= Len(Candidates)
        /\ tried \in Seq([of : ColorFilters, n : Nat])
    BY CandidatesAllowed DEF EncodeInit
  <2>3. QED
    BY <1>1, <2>1, <2>2 DEF EncodeInit, EncodeTypeOK
<1>3. BestKept /\ CallInStep /\ FileIsChosen
  BY DEF EncodeInit, BestKept, CallInStep, FileIsChosen
<1>4. QED
  BY <1>2, <1>3 DEF EncodeInv

LEMMA EncodeStep ==
  ASSUME EncodeInv, [EncodeNext]_encodeVars
  PROVE  EncodeInv'
<1>1. CASE EncodeNext
  <2>1. CASE TryCandidate
    BY <2>1, SkipKeeps, CompressKeeps DEF TryCandidate
  <2>2. QED
    BY <1>1, <2>1, CheckImageKeeps, AllocateBuffersKeeps, EndTriesKeeps, AssembleKeeps
    DEF EncodeNext
<1>2. CASE UNCHANGED encodeVars
  <2>1. /\ UNCHANGED <<input, flags, loopVars, short, at, blocks, encoded, found>>
        /\ best_block' = best_block /\ ci' = ci
    BY <1>2 DEF encodeVars, loopVars
  <2>2. ChosenFile' = ChosenFile
    BY <1>2 DEF encodeVars, ChosenFile, HeaderOf, EntryCount, Depth, FrameOf, Surplus, Uint32
  <2>3. CallInStep' /\ FileIsChosen'
    BY <2>1, <2>2, SourceStays DEF EncodeInv, CallInStep, FileIsChosen
  <2>4. QED
    BY <2>1, <2>3, EncodeQuiet DEF EncodeInv, EncodeTypeOK
<1>3. QED
  BY <1>1, <1>2

------------------------------------------------------------------------------
(* Together                                                                  *)

\* What a filter writes of an accepted image fits its field in the header.
LEMMA SizesFit ==
  ASSUME IsSource(input), GeometryOk(G), NEW f \in ColorFilters
  PROVE  FilteredBytes(f) <= Uint32Max
<1> DEFINE w == FilterWidth(G)
           p == PixelBytes(G)
<1>1. /\ G.height = input.height /\ input.height \in Nat /\ G \in Headers
      /\ w \in Nat /\ p \in Nat
  BY SourceSizes, SizesAreNat DEF G, HeaderOf, IsSource, ColorFilters
<1>2. p \in 1..8
  <2>1. DepthOk(G.channels, G.bit_depth)
    BY DEF GeometryOk, RowBytesOf
  <2>2. QED
    BY <2>1 DEF DepthOk, PixelBytes
<1>3. w * input.height \in Nat /\ w * input.height <= PXL_MAX_PIXELS /\ input.height <= PXL_MAX_DIM
  BY <1>1 DEF GeometryOk, WithinLimits
<1> DEFINE a == w * input.height
<1> HIDE DEF w, p
<1>4. /\ w * input.height * p = a * p
      /\ input.height * (1 + w * p) = input.height + a * p
  <2> DEFINE rows == input.height
  <2>1. rows \in Int /\ w \in Int /\ p \in Int
    BY <1>1
  <2> HIDE DEF rows
  <2>2. rows * (1 + w * p) = rows + w * rows * p
    BY <2>1
  <2>3. QED
    BY <2>2 DEF rows
<1> HIDE DEF a
<1>5. a \in Nat /\ a <= PXL_MAX_PIXELS
  BY <1>3 DEF a
<1>6. a * p <= 8 * a
  <2>1. p = 1 \/ p = 2 \/ p = 3 \/ p = 4 \/ p = 5 \/ p = 6 \/ p = 7 \/ p = 8
    BY <1>2
  <2>2. QED
    BY <1>5, <2>1
<1>7. a * p \in Nat
  BY <1>1, <1>5
<1>8. a * p <= 8 * PXL_MAX_PIXELS
  BY <1>5, <1>6, <1>7, FormatAssumption
<1>9. FilteredBytes(f) = IF f = "ADAPTIVE" THEN input.height + a * p ELSE a * p
  BY <1>4 DEF FilteredBytes, FilteredSize, w, p
<1> DEFINE q == a * p
<1> HIDE DEF q
<1>10. q \in Nat /\ q <= 8 * PXL_MAX_PIXELS /\ FilteredBytes(f) <= input.height + q
  BY <1>1, <1>7, <1>8, <1>9 DEF q
<1>11. FilteredBytes(f) \in Nat
  BY SourceSizes
<1>12. QED
  BY <1>1, <1>3, <1>10, <1>11, FormatAssumption, EncodeAssumption

\* The header of an accepted image is one the decoders accept, whatever filter
\* was chosen of those that were tried: the limits and the sizes agree.
LEMMA ChosenIsDecodable ==
  ASSUME EncodeInv, encoded # NoFile
  PROVE  /\ chosen \in Allowed /\ filtered_bytes \in Nat
         /\ Uint32(filtered_bytes) = filtered_bytes
         /\ HeaderOf(chosen, filtered_bytes) \in Headers
         /\ Decodable(HeaderOf(chosen, filtered_bytes))
<1> DEFINE h == HeaderOf(chosen, filtered_bytes)
<1>1. /\ Encodable /\ found /\ IsSource(input)
      /\ filtered_bytes = FilteredBytes(chosen)
  BY DEF EncodeInv, EncodeTypeOK, FileIsChosen, BestKept
<1>2. chosen \in Allowed
  <2>1. PICK k \in 1..ci : tried[k].of = chosen /\ tried[k].n = csize
    BY <1>1 DEF EncodeInv, BestKept
  <2>2. tried[k].of = Candidates[k] /\ ci <= Len(Candidates) /\ ci \in Nat
    BY <2>1, TryFacts DEF EncodeInv, EncodeTypeOK, BestKept
  <2>3. k \in 1..Len(Candidates)
    BY <2>2, CandidatesAllowed
  <2>4. QED
    BY <2>1, <2>2, <2>3, TryFacts
<1>3. /\ filtered_bytes \in Nat /\ h \in Headers /\ EntryCount \in Nat /\ Depth \in Nat
  BY <1>1, <1>2, SourceSizes DEF Allowed
<1>14. Uint32(filtered_bytes) = filtered_bytes
  BY <1>1, <1>2, <1>3, SizesFit, CastIsNat DEF Encodable, Allowed
<1>4. /\ h.good_magic = TRUE /\ h.version = 1 /\ h.channels = input.channels
      /\ h.bit_depth = Depth /\ h.color_filter = chosen
      /\ h.width = input.width /\ h.height = input.height
      /\ h.raw_byte_count = filtered_bytes /\ h.palette_count = EntryCount
      /\ h.palette_alpha_count = IF EntryCount = 0 THEN 0 ELSE input.palette_alpha
  BY <1>14 DEF HeaderOf
<1>5. /\ G.channels = input.channels /\ G.bit_depth = Depth
      /\ G.width = input.width /\ G.height = input.height
  BY DEF G, HeaderOf
<1> HIDE DEF h
<1>6. FilterWidth(h) = FilterWidth(G) /\ PixelBytes(h) = PixelBytes(G)
  BY <1>4, <1>5 DEF FilterWidth, PixelBytes
<1>7. GeometryOk(h)
  BY <1>1, <1>4, <1>5, <1>6 DEF Encodable, GeometryOk
<1>8. h.raw_byte_count =
        FilteredSize(h.color_filter, FilterWidth(h), h.height, PixelBytes(h))
  BY <1>1, <1>4, <1>6 DEF FilteredBytes
<1>9. DepthOk(h.channels, h.bit_depth)
  BY <1>7 DEF GeometryOk, RowBytesOf
<1>10. HeaderReadOk(h)
  <2>1. CASE EntryCount = 0
    BY <1>4, <1>9, <2>1, FormatAssumption DEF HeaderReadOk
  <2>2. CASE EntryCount # 0
    <3>1. /\ EntryCount <= PXL_MAX_PALETTE /\ input.channels = 1 /\ Depth <= 8
          /\ input.palette_alpha <= EntryCount
      BY <1>1, <2>2 DEF Encodable, PaletteOk
    <3>2. QED
      BY <1>4, <1>9, <2>2, <3>1 DEF HeaderReadOk
  <2>3. QED
    BY <2>1, <2>2
<1>11. h.color_filter # "UNKNOWN"
       /\ (h.color_filter = "BCIF" =>
             h.bit_depth = 8 /\ h.palette_count = 0 /\ h.channels \in {3, 4})
  BY <1>2, <1>4 DEF Allowed
<1>12. Decodable(h)
  BY <1>7, <1>8, <1>10, <1>11 DEF Decodable
<1>13. QED
  BY <1>2, <1>3, <1>12, <1>14 DEF h

\* What the encoder returns is a file that is exactly its picture, but for
\* indices beyond the palette and metadata too long for their field.
LEMMA EncodedIsFile ==
  ASSUME EncodeInv, encoded # NoFile
  PROVE  /\ IsFile(encoded)
         /\ encoded.hdr = HeaderOf(chosen, filtered_bytes)
         /\ encoded.trailing = 0 /\ encoded.frame.n = Surplus + csize
         /\ MetadataFit => encoded.frame.bad = 0 /\ encoded.hdr.meta_byte_count = input.metadata
         /\ encoded.frame.prod[encoded.frame.n] = encoded.hdr.raw_byte_count
         /\ (\A r \in 0..(input.height - 1) : encoded.row[r] = "ok")
              <=> ~(EntryCount > 0 /\ input.foreign # {})
<1> DEFINE h == HeaderOf(chosen, filtered_bytes)
           fr == FrameOf(slot[best_block], csize)
<1>1. /\ IsSource(input) /\ found /\ encoded = ChosenFile
      /\ slot[best_block] = [of |-> chosen, bytes |-> filtered_bytes, n |-> csize]
      /\ csize \in Nat /\ csize > 0
  BY DEF EncodeInv, EncodeTypeOK, FileIsChosen, BestKept
<1>2. /\ filtered_bytes \in Nat /\ h \in Headers /\ Decodable(h)
      /\ h.height = input.height /\ h.raw_byte_count = filtered_bytes
      /\ h.palette_count = EntryCount /\ input.height \in Nat /\ EntryCount \in Nat
  BY <1>1, ChosenIsDecodable, SourceSizes DEF HeaderOf, IsSource
<1>10. /\ Surplus \in Nat
       /\ MetadataFit => Surplus = 0 /\ h.meta_byte_count = input.metadata
  BY <1>1, CastIsNat DEF Surplus, MetadataFit, IsSource, HeaderOf
<1>3. /\ encoded.hdr = h /\ encoded.frame = fr /\ encoded.trailing = 0
      /\ encoded.row = [r \in 0..(input.height - 1) |->
                          IF EntryCount > 0 /\ r \in input.foreign THEN "bad_index" ELSE "ok"]
  BY <1>1 DEF ChosenFile
<1>4. /\ fr.n = Surplus + csize /\ fr.bad = (IF Surplus = 0 THEN 0 ELSE 1)
      /\ fr.n \in Nat /\ fr.n > 0
      /\ fr.prod = [k \in 0..fr.n |-> IF k = fr.n THEN filtered_bytes ELSE 0]
  BY <1>1, <1>10 DEF FrameOf
<1> HIDE DEF h, fr
<1>5. /\ fr.prod[fr.n] = filtered_bytes
      /\ \A k \in 0..fr.n : fr.prod[k] = IF k = fr.n THEN filtered_bytes ELSE 0
  BY <1>1, <1>4
<1>6. IsFrame(fr)
  <2>1. fr.prod \in [0..fr.n -> Nat] /\ fr.prod[0] = 0
    BY <1>1, <1>2, <1>4
  <2>2. ASSUME NEW m \in 0..fr.n, NEW j \in 0..fr.n, m <= j
        PROVE  fr.prod[m] <= fr.prod[j]
    BY <1>1, <1>2, <1>4, <1>5, <2>2
  <2>3. QED
    BY <1>1, <1>4, <2>1, <2>2 DEF IsFrame
<1>7. IsFile(encoded)
  <2>1. encoded.row \in [0..(h.height - 1) -> RowKinds]
    BY <1>2, <1>3 DEF RowKinds
  <2>2. ASSUME NEW r \in 0..(h.height - 1)
        PROVE  /\ encoded.row[r] # "bad_type"
               /\ encoded.row[r] = "bad_index" => h.palette_count > 0
    BY <1>2, <1>3
  <2>3. QED
    BY <1>2, <1>3, <1>6, <2>1, <2>2 DEF IsFile
<1>8. (\A r \in 0..(input.height - 1) : encoded.row[r] = "ok")
        <=> ~(EntryCount > 0 /\ input.foreign # {})
  <2>1. input.foreign \subseteq 0..(input.height - 1)
    BY <1>1 DEF IsSource
  <2>2. \A r \in 0..(input.height - 1) :
          encoded.row[r] = IF EntryCount > 0 /\ r \in input.foreign THEN "bad_index" ELSE "ok"
    BY <1>3
  <2>3. QED
    BY <2>1, <2>2
<1>9. QED
  BY <1>2, <1>3, <1>4, <1>5, <1>7, <1>8, <1>10 DEF h

LEMMA LengthIsNat == FileIsOk => FileLength \in Nat
BY FileSizes DEF FileIsOk

LEMMA LengthIsNatNext == FileIsOk' => (FileLength \in Nat)'
BY LengthIsNat, PTL

LEMMA HandOverKeeps ==
  ASSUME CodecInv, HandOver
  PROVE  CodecInv'
<1>1. /\ origin = "encoding" /\ encoded # NoFile /\ origin' = "own"
      /\ file' = encoded /\ present' = FileLength'
      /\ UNCHANGED <<pc, heap, rowVars, image, starved>> /\ UNCHANGED encodeVars
  BY DEF HandOver
<1>2. EncodeInv /\ DecodeInv /\ CallBegins
  BY <1>1 DEF CodecInv, HandedOver
<1>3. EncodeInv'
  BY <1>1, <1>2, EncodeStep
<1>4. FileIsOk'
  BY <1>1, <1>2, EncodedIsFile DEF FileIsOk
<1>5. FileLength' \in Nat
  BY <1>4, LengthIsNatNext
<1>6. CallBegins'
  BY <1>1, <1>2, <1>5 DEF CallBegins, rowVars
<1>7. DecodeInv'
  BY <1>4, <1>6, CallBeginsInvNext
<1>8. HandedOver'
  BY <1>1 DEF HandedOver, encodeVars
<1>9. QED
  BY <1>3, <1>7, <1>8 DEF CodecInv

LEMMA CodecStart ==
  ASSUME CodecInit
  PROVE  CodecInv
<1>1. EncodeInv
  BY EncodeStart DEF CodecInit
<1>2. FileIsOk /\ CallBegins
  BY FilesAssumption DEF CodecInit, Init, FileIsOk
<1>3. DecodeInv
  BY <1>2, CallBeginsInv
<1>4. HandedOver
  BY <1>2 DEF CodecInit, HandedOver
<1>5. QED
  BY <1>1, <1>3, <1>4 DEF CodecInv

LEMMA CodecStep ==
  ASSUME CodecInv, [CodecNext]_codecVars
  PROVE  CodecInv'
<1>1. EncodeInv /\ DecodeInv /\ HandedOver
  BY DEF CodecInv
<1>2. CASE Encode \/ UNCHANGED codecVars
  <2>1. /\ UNCHANGED vars /\ [EncodeNext]_encodeVars /\ UNCHANGED origin
        /\ \/ origin = "encoding" /\ EncodeNext
           \/ UNCHANGED encodeVars
    BY <1>2 DEF Encode, codecVars
  <2>2. EncodeInv' /\ DecodeInv'
    BY <1>1, <2>1, EncodeStep, DecodeStep
  <2>3. /\ UNCHANGED <<file, present, pc, heap, ds, y, have, image, starved>>
    BY <2>1 DEF vars
  <2>4. CallBegins' <=> CallBegins
    BY <2>3, FileStays DEF CallBegins
  <2>5. HandedOver'
    BY <1>1, <2>1, <2>3, <2>4, FileStays DEF HandedOver, encodeVars
  <2>6. QED
    BY <2>2, <2>5 DEF CodecInv
<1>3. CASE Decode
  <2>1. /\ origin \in {"foreign", "own"} /\ Next /\ UNCHANGED encodeVars
        /\ UNCHANGED origin
    BY <1>3 DEF Decode
  <2>2. EncodeInv' /\ DecodeInv'
    BY <1>1, <2>1, EncodeStep, DecodeStep
  <2>3. UNCHANGED <<file, present>>
    BY <2>1 DEF Next, CheckHeader, AllocatePixels, AllocateFiltered, DecompressPlanes,
                AllocateWindow, DecodeRow, CheckOverLong, CopyPalette, CheckIndices,
                CopyMetadata
  <2>4. HandedOver'
    BY <1>1, <2>1, <2>3, FileStays DEF HandedOver, encodeVars
  <2>5. QED
    BY <2>2, <2>4 DEF CodecInv
<1>4. QED
  BY <1>2, <1>3, HandOverKeeps DEF CodecNext

\* What the loops of both keep, and what both agree on.
THEOREM CodecSafe == CodecSpec => []CodecInv
<1>1. CodecInit => CodecInv
  BY CodecStart
<1>2. CodecInv /\ [CodecNext]_codecVars => CodecInv'
  BY CodecStep
<1>3. QED
  BY <1>1, <1>2, PTL DEF CodecSpec

\* An image is returned only for good rows out of the bytes at hand, with its
\* parts and nothing else left allocated, whatever allocation fails.
THEOREM DecoderReturnsSoundly == CodecSpec => []ReturnIsSound
<1>1. CodecInv => ReturnIsSound
  BY DEF CodecInv, DecodeInv
<1>2. QED
  BY <1>1, CodecSafe, PTL

\* Of a whole file the verdict is exact: an image if and only if the file holds
\* exactly its picture, or memory ran out.
THEOREM VerdictOfWholeFiles == CodecSpec => []WholeFileVerdict
<1>1. CodecInv => WholeFileVerdict
  BY DEF CodecInv, DecodeInv
<1>2. QED
  BY <1>1, CodecSafe, PTL

\* The file holds the first of the smallest frames of the filters allowed.
THEOREM SmallestIsKept == CodecSpec => []SmallestFrameKept
<1>1. CodecInv => SmallestFrameKept
  <2> SUFFICES ASSUME EncodeInv, encoded # NoFile
               PROVE  \E k \in 1..Len(tried) :
                        /\ tried[k].of = encoded.hdr.color_filter
                        /\ Surplus + tried[k].n = encoded.frame.n
                        /\ slot[best_block].of = encoded.hdr.color_filter
                        /\ "FAST_DECODE" \in flags => tried[k].of \in {"NONE", "DELTA"}
                        /\ "PROGRESSIVE" \in flags => tried[k].of # "BCIF"
                        /\ SmallestIs(k)
    BY DEF CodecInv, SmallestFrameKept
  <2>1. /\ encoded.hdr = HeaderOf(chosen, filtered_bytes) /\ encoded.frame.n = Surplus + csize
        /\ chosen \in Allowed
    BY EncodedIsFile, ChosenIsDecodable
  <2>2. encoded.hdr.color_filter = chosen
    BY <2>1 DEF HeaderOf
  <2>3. found /\ slot[best_block].of = chosen /\ ci = Len(tried)
    BY DEF EncodeInv, EncodeTypeOK, FileIsChosen, BestKept
  <2>4. PICK k \in 1..ci : tried[k].of = chosen /\ tried[k].n = csize /\ SmallestIs(k)
    BY <2>3 DEF EncodeInv, BestKept
  <2>5. QED
    BY <2>1, <2>2, <2>3, <2>4 DEF Allowed
<1>2. QED
  BY <1>1, CodecSafe, PTL

\* What the encoder accepted, the decoder gives back with its size and its
\* parts, unless an index lies beyond the palette, memory ran out, or the metadata
\* are longer than their field in the header can say.
THEOREM OwnFilesAreDecoded == CodecSpec => []OwnFilesDecode
<1>1. CodecInv => OwnFilesDecode
  <2> SUFFICES ASSUME CodecInv, origin = "own", pc = "done", ~starved, MetadataFit
               PROVE  /\ image = {} <=> (EntryCount > 0 /\ input.foreign # {})
                      /\ image # {} =>
                           /\ <<H.width, H.height, H.channels, H.bit_depth>>
                                = <<input.width, input.height, input.channels, Depth>>
                           /\ "palette" \in image <=> EntryCount > 0
                           /\ "palette_alpha" \in image <=> input.palette_alpha > 0
                           /\ "metadata" \in image <=> input.metadata > 0
    BY DEF OwnFilesDecode
  <2>1. /\ EncodeInv /\ DecodeInv /\ encoded # NoFile /\ file = encoded
        /\ present = FileLength
    BY DEF CodecInv, HandedOver
  <2>2. H = HeaderOf(chosen, filtered_bytes) /\ Decodable(H)
    BY <2>1, EncodedIsFile, ChosenIsDecodable DEF H
  <2>3. /\ H.width = input.width /\ H.height = input.height
        /\ H.channels = input.channels /\ H.bit_depth = Depth
        /\ H.meta_byte_count = input.metadata /\ H.palette_count = EntryCount
        /\ H.palette_alpha_count = IF EntryCount = 0 THEN 0 ELSE input.palette_alpha
    BY <2>1, <2>2, EncodedIsFile DEF HeaderOf, H
  <2>4. /\ file.trailing = 0 /\ file.frame.bad = 0 /\ RawSize = H.raw_byte_count
        /\ (\A r \in 0..(H.height - 1) : file.row[r] = "ok")
             <=> ~(EntryCount > 0 /\ input.foreign # {})
    BY <2>1, <2>3, EncodedIsFile DEF RawSize, H
  <2>5. ExactFile <=> ~(EntryCount > 0 /\ input.foreign # {})
    BY <2>2, <2>4 DEF ExactFile
  <2>6. image # {} <=> ExactFile
    BY <2>1, <2>4 DEF DecodeInv, WholeFileVerdict
  <2>7. /\ EntryCount \in Nat /\ input.palette_alpha \in Nat
        /\ EntryCount = 0 => input.palette_alpha = 0
    BY <2>1, SourceSizes
    DEF EncodeInv, EncodeTypeOK, IsSource, FileIsChosen, Encodable, PaletteOk
  <2>8. ASSUME image # {}
        PROVE  /\ "palette" \in image <=> EntryCount > 0
               /\ "palette_alpha" \in image <=> input.palette_alpha > 0
               /\ "metadata" \in image <=> input.metadata > 0
    <3>1. /\ image \ {"metadata"} = {"pixels"} \cup PaletteParts
          /\ "metadata" \in image <=> H.meta_byte_count > 0
      BY <2>1, <2>8 DEF DecodeInv, ReturnIsSound, ImageIsSound
    <3>2. /\ "palette" \in PaletteParts <=> H.palette_count > 0
          /\ "palette_alpha" \in PaletteParts <=> H.palette_alpha_count > 0
      BY DEF PaletteParts
    <3>3. QED
      BY <2>3, <2>7, <3>1, <3>2
  <2>9. QED
    BY <2>3, <2>5, <2>6, <2>8
<1>2. QED
  BY <1>1, CodecSafe, PTL

------------------------------------------------------------------------------
(* The row filters                                                           *)

USE BaseAssumption, PicturesAssumption

\* A residual and its prediction give the byte, and are bytes.
LEMMA ByteAgain ==
  ASSUME NEW x \in Byte, NEW p \in Byte
  PROVE  minus(x, p) \in Byte /\ plus(minus(x, p), p) = x
BY SMT DEF Byte, minus, plus

LEMMA ColourAgain ==
  ASSUME NEW r \in Byte, NEW g \in Byte, NEW b \in Byte
  PROVE  /\ plus(minus(g, b), b) = g
         /\ minus(g, minus(g, r)) = r
BY SMT DEF Byte, minus, plus

\* Whatever is predicted is a byte.
LEMMA PaethIsByte ==
  ASSUME NEW a \in Byte, NEW b \in Byte, NEW c \in Byte
  PROVE  Paeth(a, b, c) \in {a, b, c}
BY Zenon DEF Paeth

LEMMA PredIsByte ==
  ASSUME NEW t \in RowFilters, NEW a \in Byte, NEW b \in Byte, NEW c \in Byte
  PROVE  Pred(t, a, b, c) \in Byte
<1>1. a \in 0..(Base - 1) /\ b \in 0..(Base - 1) /\ (a + b) \div 2 \in Byte /\ 0 \in Byte
  BY SMT DEF Byte
<1>2. Paeth(a, b, c) \in Byte
  BY PaethIsByte, Zenon
<1> QED
  BY <1>1, <1>2 DEF Pred

\* Where neighbours are missing the decoder's loops predict what the encoder did
\* from zeros.
LEMMA PaethLeftOnly ==
  ASSUME NEW a \in Byte
  PROVE  Paeth(a, 0, 0) = a
BY SMT DEF Byte, Paeth, AbsOf

LEMMA PaethAboveOnly ==
  ASSUME NEW b \in Byte
  PROVE  Paeth(0, b, 0) = b
BY SMT DEF Byte, Paeth, AbsOf

LEMMA HeadAgrees ==
  ASSUME NEW t \in RowFilters, NEW b \in Byte, NEW first \in BOOLEAN, first => b = 0
  PROVE  HeadPred(t, first, b) = Pred(t, 0, b, 0)
<1>1. (0 + b) \div 2 = b \div 2 /\ (0 + 0) \div 2 = 0
  BY SMT DEF Byte
<1>2. Paeth(0, b, 0) = b
  BY PaethAboveOnly
<1> QED
  BY <1>1, <1>2, SMT DEF HeadPred, Pred, RowFilters, SUB, UP, AVG, PAETH

LEMMA BulkAgrees ==
  ASSUME NEW t \in RowFilters, NEW a \in Byte, NEW b \in Byte, NEW c \in Byte,
         NEW first \in BOOLEAN, first => b = 0 /\ c = 0
  PROVE  BulkPred(t, first, a, b, c) = Pred(t, a, b, c)
<1>1. (a + 0) \div 2 = a \div 2
  BY SMT DEF Byte
<1>2. Paeth(a, 0, 0) = a
  BY PaethLeftOnly
<1> QED
  BY <1>1, <1>2, SMT DEF BulkPred, Pred, RowFilters, SUB, UP, AVG, PAETH

------------------------------------------------------------------------------
LEMMA PictureFacts ==
  ASSUME FilterInv
  PROVE  /\ pic.width \in Nat \ {0} /\ pic.height \in Nat \ {0} /\ pic.bpp \in 1..8
         /\ Stride \in Nat \ {0}
         /\ \A v \in RowsOf : \A k \in Bytes : pic.pix[v][k] \in Byte
<1>1. IsPicture(pic)
  BY DEF FilterInv
<1>2. pic.width \in Nat \ {0} /\ pic.height \in Nat \ {0} /\ pic.bpp \in 1..8
  BY <1>1 DEF IsPicture
<1>3. \A w \in Nat \ {0}, n \in 1..8 : w * n \in Nat \ {0}
  BY SMT
<1>4. Stride \in Nat \ {0}
  BY <1>2, <1>3 DEF Stride
<1>5. \A v \in RowsOf : \A k \in Bytes : pic.pix[v][k] \in Byte
  BY <1>1, Zenon DEF IsPicture, RowsOf, Bytes, Stride
<1> QED
  BY <1>2, <1>4, <1>5

\* The neighbours of a byte of the picture are bytes.
LEMMA NeighbourIsByte ==
  ASSUME FilterInv, NEW v \in RowsOf \cup {-1}, NEW k \in Int, k < Stride
  PROVE  At(pic.pix, v, k) \in Byte
<1>1. 0 \in Byte
  BY SMT DEF Byte
<1>2. CASE v < 0 \/ k < 0
  BY <1>1, <1>2 DEF At
<1>3. CASE ~(v < 0 \/ k < 0)
  <2>1. v \in RowsOf /\ k \in Bytes
    BY <1>3, PictureFacts, SMT DEF RowsOf, Bytes
  <2> QED
    BY <2>1, <1>3, PictureFacts, Zenon DEF At
<1> QED
  BY <1>2, <1>3

LEMMA InitInv == FilterInit => FilterInv
<1> SUFFICES ASSUME FilterInit PROVE FilterInv
  OBVIOUS
<1>1. pic \in Pictures /\ IsPicture(pic)
  BY DEF FilterInit
<1>2. pic.width \in Nat \ {0} /\ pic.height \in Nat \ {0} /\ pic.bpp \in 1..8
  BY <1>1 DEF IsPicture
<1>3. \A w \in Nat \ {0}, n \in 1..8 : w * n \in Nat \ {0}
  BY SMT
<1>4. Stride \in Nat \ {0} /\ 0 \in RowsOf
  BY <1>2, <1>3 DEF Stride, RowsOf
<1>5. 0 % pic.bpp = 0
  BY <1>2, SMT
<1>6. filter \in {"NONE", "DELTA", "BCIF", "ADAPTIVE"} /\ (filter = "BCIF" => pic.bpp \in {3, 4})
  BY DEF FilterInit
<1>7. step = "pack" /\ row = 0 /\ i = 0
  BY DEF FilterInit
<1>8. DOMAIN stream = {} /\ stream = [v \in DOMAIN stream |-> stream[v]] /\ {} = 0..(row - 1)
  BY <1>7 DEF FilterInit
<1>9. out = [v \in RowsOf |-> out[v]]
  BY DEF FilterInit
<1> QED
  BY <1>1, <1>4, <1>5, <1>6, <1>7, <1>8, <1>9, SMT DEF FilterInv

\* A row is added to the stream.
LEMMA PutRowInv ==
  ASSUME FilterInv, step \in {"pack", "try"}, NEW t, NEW bytes,
         PutRow(t, bytes), PackedAs(t, bytes, row)
  PROVE  FilterInv'
<1>1. UNCHANGED <<filter, pic, i, out>>
  BY DEF PutRow
<1>2. i = 0 /\ row \in RowsOf /\ DOMAIN stream = 0..(row - 1) /\ row \in Nat
  BY DEF FilterInv, RowsOf
<1>3. /\ stream' = [v \in DOMAIN stream' |-> stream'[v]]
      /\ DOMAIN stream' = 0..row
  BY DEF PutRow
<1>4. \A v \in DOMAIN stream' : stream'[v] = IF v = row THEN [type |-> t, bytes |-> bytes]
                                                         ELSE stream[v]
  BY <1>3 DEF PutRow
<1>5. ASSUME NEW v \in DOMAIN stream' PROVE PackedAs(stream[v].type, stream[v].bytes, v)'
  <2>1. CASE v = row
    <3>1. stream'[v].type = t /\ stream'[v].bytes = bytes
      BY <2>1, <1>4
    <3> QED
      BY <2>1, <3>1, <1>1 DEF PackedAs, PackDelta, PackBcif, RowFilterEncode, Bytes, Stride
  <2>2. CASE v # row
    <3>1. v \in DOMAIN stream /\ stream'[v] = stream[v]
      BY <2>2, <1>2, <1>3, <1>4
    <3>2. PICK u, b : u = stream[v].type /\ b = stream[v].bytes
      OBVIOUS
    <3>3. PackedAs(u, b, v)
      BY <3>1, <3>2 DEF FilterInv
    <3>4. stream'[v].type = u /\ stream'[v].bytes = b
      BY <3>1, <3>2
    <3> QED
      BY <3>3, <3>4, <1>1 DEF PackedAs, PackDelta, PackBcif, RowFilterEncode, Bytes, Stride
  <2> QED
    BY <2>1, <2>2
<1>6. pic.height \in Nat
  BY PictureFacts
<1>7. CASE row + 1 < pic.height
  <2>1. step' = "pack" /\ row' = row + 1
    BY <1>7 DEF PutRow
  <2>2. row' \in RowsOf' /\ 0..row = 0..(row' - 1)
    BY <2>1, <1>1, <1>2, <1>6, <1>7 DEF RowsOf
  <2> QED
    BY <1>1, <1>2, <1>3, <1>5, <2>1, <2>2 DEF FilterInv, RowsOf, Stride
<1>8. CASE ~(row + 1 < pic.height)
  <2>1. step' = "unpack" /\ row' = 0
    BY <1>8 DEF PutRow
  <2>2. row' \in RowsOf' /\ 0..row = RowsOf'
    BY <2>1, <1>1, <1>2, <1>6, <1>8 DEF RowsOf
  <2>3. 0..(row' - 1) = {} /\ 0..(i' - 1) = {}
    BY <2>1, <1>1, <1>2
  <2> QED
    BY <1>1, <1>2, <1>3, <1>5, <2>1, <2>2, <2>3 DEF FilterInv, RowsOf, Stride
<1> QED
  BY <1>7, <1>8

\* What a row is packed as depends on the picture and the filter alone.
LEMMA PackedKept ==
  ASSUME UNCHANGED <<filter, pic>>, NEW t, NEW bytes, NEW v, PackedAs(t, bytes, v)
  PROVE  PackedAs(t, bytes, v)'
<1>1. PackDelta(v)' = PackDelta(v)
  BY DEF PackDelta, Bytes, Stride
<1>2. PackBcif(v)' = PackBcif(v)
  BY <1>1 DEF PackBcif, Bytes, Stride
<1>3. RowFilterEncode(t, v)' = RowFilterEncode(t, v)
  BY DEF RowFilterEncode, Bytes, Stride
<1>4. filter' = filter /\ pic' = pic
  OBVIOUS
<1> QED
  BY <1>1, <1>2, <1>3, <1>4, Zenon DEF PackedAs

\* Bytes of a row are written, and are those of the picture.
LEMMA WriteInv ==
  ASSUME FilterInv, step = "unpack", NEW next \in Nat, NEW bytes, i < next,
         \A k \in i..(next - 1) : k < Stride => bytes[k] = pic.pix[row][k],
         WriteBytes(next, bytes),
         filter = "BCIF" => next % pic.bpp = 0
  PROVE  FilterInv'
<1> DEFINE f == [k \in 0..(next - 1) |-> IF k < i THEN out[row][k] ELSE bytes[k]]
<1>0. filter' = filter /\ pic' = pic /\ stream' = stream
  BY DEF WriteBytes
<1>c. out' = [out EXCEPT ![row] = f]
  BY DEF WriteBytes
<1>d. \A k \in 0..(i - 1) : out[row][k] = pic.pix[row][k]
  BY DEF FilterInv
<1>a. row \in RowsOf /\ i \in Nat
  BY DEF FilterInv
<1>1. row \in RowsOf /\ row \in Nat /\ pic.height \in Nat /\ Stride \in Nat \ {0}
  BY <1>a, PictureFacts DEF RowsOf
<1>e. \A k \in 0..(next - 1) : k < Stride => f[k] = pic.pix[row][k]
  BY <1>a, <1>1, <1>d
<1> HIDE DEF f
<1>f. out = [v \in RowsOf |-> out[v]]
  BY DEF FilterInv
<1>2. out' = [v \in RowsOf |-> IF v = row THEN f ELSE out[v]]
  BY <1>1, <1>c, <1>f
<1>3. /\ out' = [v \in RowsOf |-> out'[v]]
      /\ out'[row] = f
      /\ \A v \in RowsOf : v # row => out'[v] = out[v]
  BY <1>1, <1>2
<1>4. \A v \in 0..(row - 1) : v \in RowsOf /\ v # row
  BY <1>1 DEF RowsOf
<1>b. \A v \in 0..(row - 1) : \A k \in Bytes : out[v][k] = pic.pix[v][k]
  BY DEF FilterInv
<1>5. \A v \in 0..(row - 1) : \A k \in Bytes : out'[v][k] = pic.pix[v][k]
  BY <1>3, <1>4, <1>b
<1>6. DOMAIN stream = RowsOf /\ RowsOf' = RowsOf /\ Stride' = Stride /\ Bytes' = Bytes
  BY <1>0 DEF FilterInv, RowsOf, Stride, Bytes
<1>7. \A v \in DOMAIN stream' : PackedAs(stream[v].type, stream[v].bytes, v)'
  <2>1. \A v \in DOMAIN stream : PackedAs(stream[v].type, stream[v].bytes, v)
    BY DEF FilterInv
  <2>2. ASSUME NEW v, NEW t, NEW b, PackedAs(t, b, v)
        PROVE  PackedAs(t, b, v)'
    BY <2>2, <1>0, PackedKept
  <2> QED
    BY <2>1, <2>2, <1>0
<1>8. /\ pic' \in Pictures
      /\ filter' \in {"NONE", "DELTA", "BCIF", "ADAPTIVE"}
      /\ filter' = "BCIF" => pic'.bpp \in {3, 4}
      /\ stream' = [v \in DOMAIN stream' |-> stream'[v]]
      /\ DOMAIN stream' = RowsOf'
      /\ out' = [v \in RowsOf' |-> out'[v]]
  BY <1>0, <1>3, <1>6 DEF FilterInv
<1>9. 0 % pic.bpp = 0
  BY PictureFacts, SMT
<1>g. /\ next < Stride => i' = next /\ row' = row /\ step' = "unpack"
      /\ ~(next < Stride) =>
           /\ i' = 0
           /\ row + 1 < pic.height => row' = row + 1 /\ step' = "unpack"
           /\ ~(row + 1 < pic.height) => row' = row /\ step' = "done"
  BY Zenon DEF WriteBytes
<1>10. CASE next < Stride
  <2>1. i' = next /\ row' = row /\ step' = "unpack"
    BY <1>10, <1>g
  <2>2. \A k \in 0..(i' - 1) : out'[row'][k] = pic'.pix[row'][k]
    BY <2>1, <1>0, <1>1, <1>3, <1>10, <1>e
  <2>3. i' \in Nat /\ i' < Stride' /\ (filter' = "BCIF" => i' % pic'.bpp = 0)
    BY <2>1, <1>0, <1>6, <1>10
  <2>4. \A v \in 0..(row' - 1) : \A k \in Bytes' : out'[v][k] = pic'.pix[v][k]
    BY <2>1, <1>0, <1>5, <1>6
  <2> QED
    BY <1>1, <1>6, <1>7, <1>8, <2>1, <2>2, <2>3, <2>4 DEF FilterInv
<1>11. CASE ~(next < Stride)
  <2>1. \A k \in Bytes : out'[row][k] = pic.pix[row][k]
    BY <1>1, <1>3, <1>11, <1>e DEF Bytes
  <2>2. i' = 0
    BY <1>11, <1>g
  <2>3. CASE row + 1 < pic.height
    <3>1. row' = row + 1 /\ step' = "unpack"
      BY <1>11, <1>g, <2>3
    <3>0. row + 1 \in RowsOf
      BY <2>3, <1>1 DEF RowsOf
    <3>2. row' \in RowsOf'
      BY <3>0, <3>1, <1>6
    <3>3. \A v \in 0..(row' - 1) : v = row \/ v \in 0..(row - 1)
      BY <3>1, <1>1
    <3>4. \A v \in 0..(row' - 1) : \A k \in Bytes' : out'[v][k] = pic'.pix[v][k]
      BY <3>3, <2>1, <1>0, <1>5, <1>6
    <3>5. \A k \in 0..(i' - 1) : out'[row'][k] = pic'.pix[row'][k]
      BY <2>2
    <3>6. i' \in Nat /\ i' < Stride' /\ i' % pic'.bpp = 0
      BY <1>0, <1>1, <1>6, <1>9, <2>2
    <3> QED
      BY <1>7, <1>8, <3>1, <3>2, <3>4, <3>5, <3>6 DEF FilterInv
  <2>4. CASE ~(row + 1 < pic.height)
    <3>1. row' = row /\ step' = "done"
      BY <1>11, <1>g, <2>4
    <3>0. \A v \in RowsOf : v = row \/ v \in 0..(row - 1)
      BY <2>4, <1>1 DEF RowsOf
    <3>2. \A v \in RowsOf' : v = row \/ v \in 0..(row - 1)
      BY <3>0, <1>6
    <3>3. \A v \in RowsOf' : \A k \in Bytes' : out'[v][k] = pic'.pix[v][k]
      BY <3>2, <2>1, <1>0, <1>5, <1>6
    <3>4. i' \in Nat /\ i' < Stride' /\ i' % pic'.bpp = 0
      BY <1>0, <1>1, <1>6, <1>9, <2>2
    <3>5. row' \in RowsOf'
      BY <3>1, <1>1, <1>6
    <3> QED
      BY <1>7, <1>8, <2>2, <3>1, <3>3, <3>4, <3>5 DEF FilterInv
  <2> QED
    BY <2>3, <2>4
<1> QED
  BY <1>10, <1>11

\* PackedAs for a row filter that was tried.
LEMMA TryInv ==
  ASSUME FilterInv, TryType
  PROVE  FilterInv'
<1>0. UNCHANGED <<filter, pic, step, row, stream, i, out>> /\ step = "try"
  BY DEF TryType
<1>1. type \in RowFilters /\ type' = type + 1 /\ type' \in 0..5
  BY DEF TryType, RowFilters
<1>2. best_type' \in RowFilters /\ best' = RowFilterEncode(best_type', row)
  <2>1. CASE Better(Score(RowFilterEncode(type, row)))
    BY <2>1, <1>1 DEF TryType, Promote
  <2>2. CASE ~Better(Score(RowFilterEncode(type, row)))
    <3>1. best_type' = best_type /\ best' = best
      BY <2>2 DEF TryType
    <3>2. type > 0
      BY <2>2, <1>1 DEF Better, RowFilters
    <3>3. best_type \in RowFilters /\ best = RowFilterEncode(best_type, row)
      BY <1>0, <3>2 DEF FilterInv
    <3> QED
      BY <3>1, <3>3
  <2> QED
    BY <2>1, <2>2
<1>3. RowFilterEncode(best_type', row) = RowFilterEncode(best_type, row)'
  BY <1>0 DEF RowFilterEncode, Bytes, Stride
<1>4. ASSUME NEW v, NEW t, NEW bytes, PackedAs(t, bytes, v)
      PROVE  PackedAs(t, bytes, v)'
  BY <1>4, <1>0, PackedKept
<1>5. \A v \in DOMAIN stream' : PackedAs(stream[v].type, stream[v].bytes, v)'
  <2>1. \A v \in DOMAIN stream : PackedAs(stream[v].type, stream[v].bytes, v)
    BY DEF FilterInv
  <2> QED
    BY <2>1, <1>4, <1>0
<1>6. RowsOf' = RowsOf /\ Stride' = Stride
  BY <1>0 DEF RowsOf, Stride
<1> QED
  BY <1>0, <1>1, <1>2, <1>3, <1>5, <1>6 DEF FilterInv

LEMMA PackInv ==
  ASSUME FilterInv, PackRow \/ StartRow \/ EndRow
  PROVE  FilterInv'
<1>1. CASE PackRow
  <2>1. step = "pack" /\ filter # "ADAPTIVE" /\ NONE \in RowFilters
    BY <1>1, SMT DEF PackRow, NONE, RowFilters
  <2>2. PICK bytes : PutRow(NONE, bytes) /\ PackedAs(NONE, bytes, row)
    BY <1>1, <2>1 DEF PackRow, PackedAs
  <2> QED
    BY <2>1, <2>2, PutRowInv
<1>2. CASE StartRow
  <2>1. UNCHANGED <<filter, pic, row, stream, i, out>> /\ step = "pack" /\ step' = "try"
        /\ filter = "ADAPTIVE" /\ type' = 0
    BY <1>2 DEF StartRow
  <2>2. ASSUME NEW v, NEW t, NEW bytes, PackedAs(t, bytes, v)
        PROVE  PackedAs(t, bytes, v)'
    BY <2>2, <2>1, PackedKept
  <2>3. \A v \in DOMAIN stream' : PackedAs(stream[v].type, stream[v].bytes, v)'
    <3>1. \A v \in DOMAIN stream : PackedAs(stream[v].type, stream[v].bytes, v)
      BY DEF FilterInv
    <3> QED
      BY <3>1, <2>2, <2>1
  <2>4. RowsOf' = RowsOf /\ Stride' = Stride
    BY <2>1 DEF RowsOf, Stride
  <2> QED
    BY <2>1, <2>3, <2>4 DEF FilterInv
<1>3. CASE EndRow
  <2>1. step = "try" /\ PutRow(best_type, best) /\ type \notin RowFilters
    BY <1>3 DEF EndRow
  <2>2. filter = "ADAPTIVE" /\ type \in 0..5
    BY <2>1 DEF FilterInv
  <2>3. type > 0
    BY <2>1, <2>2 DEF RowFilters
  <2>4. best_type \in RowFilters /\ best = RowFilterEncode(best_type, row)
    BY <2>1, <2>3 DEF FilterInv
  <2>5. PackedAs(best_type, best, row)
    BY <2>2, <2>4 DEF PackedAs
  <2> QED
    BY <2>1, <2>5, PutRowInv
<1> QED
  BY <1>1, <1>2, <1>3

------------------------------------------------------------------------------
\* Where the decoder is in a row, and what it has of it.
LEMMA UnpackFacts ==
  ASSUME FilterInv, step = "unpack"
  PROVE  /\ row \in RowsOf /\ row \in Nat /\ i \in Bytes /\ i \in Nat
         /\ out = [v \in RowsOf |-> out[v]]
         /\ PackedAs(stream[row].type, stream[row].bytes, row)
         /\ \A k \in 0..(i - 1) : out[row][k] = pic.pix[row][k]
         /\ row - 1 \in RowsOf \cup {-1}
         /\ \A k \in Int : k < i => At(out, row, k) = At(pic.pix, row, k)
         /\ \A k \in Int : k < Stride => At(out, row - 1, k) = At(pic.pix, row - 1, k)
<1>0. row \in RowsOf
  BY DEF FilterInv
<1>1. row \in RowsOf /\ row \in Nat /\ row - 1 \in RowsOf \cup {-1}
  BY <1>0, PictureFacts DEF RowsOf
<1>2. i \in Bytes /\ i \in Nat
  BY PictureFacts DEF FilterInv, Bytes
<1>3. /\ out = [v \in RowsOf |-> out[v]]
      /\ PackedAs(stream[row].type, stream[row].bytes, row)
      /\ \A k \in 0..(i - 1) : out[row][k] = pic.pix[row][k]
      /\ \A v \in 0..(row - 1) : \A k \in Bytes : out[v][k] = pic.pix[v][k]
  BY DEF FilterInv
<1>4. ASSUME NEW k \in Int, k < i PROVE At(out, row, k) = At(pic.pix, row, k)
  BY <1>1, <1>2, <1>3, <1>4 DEF At
<1>5. ASSUME NEW k \in Int, k < Stride PROVE At(out, row - 1, k) = At(pic.pix, row - 1, k)
  BY <1>1, <1>2, <1>3, <1>5, PictureFacts DEF At, Bytes
<1> QED
  BY <1>1, <1>2, <1>3, <1>4, <1>5

LEMMA NoneInv ==
  ASSUME FilterInv, UnpackNone
  PROVE  FilterInv'
<1> DEFINE bytes == [k \in {i} |-> stream[row].bytes[k]]
<1>1. step = "unpack" /\ filter = "NONE" /\ WriteBytes(i + 1, bytes)
  BY DEF UnpackNone
<1>2. i \in Nat /\ i + 1 \in Nat /\ i < i + 1 /\ (\A k \in i..(i + 1 - 1) : k = i)
  BY <1>1, UnpackFacts
<1>3. bytes[i] = pic.pix[row][i]
  BY <1>1, UnpackFacts DEF PackedAs
<1> HIDE DEF bytes
<1> QED
  BY <1>1, <1>2, <1>3, WriteInv

LEMMA DeltaInv ==
  ASSUME FilterInv, UnpackDelta
  PROVE  FilterInv'
<1> DEFINE bytes == [k \in {i} |-> plus(stream[row].bytes[k], At(out, row, k - pic.bpp))]
           a == At(pic.pix, row, i - pic.bpp)
<1>1. step = "unpack" /\ filter = "DELTA" /\ WriteBytes(i + 1, bytes)
  BY DEF UnpackDelta
<1>2. /\ i \in Nat /\ i + 1 \in Nat /\ i < i + 1 /\ (\A k \in i..(i + 1 - 1) : k = i)
      /\ pic.bpp \in 1..8 /\ i - pic.bpp \in Int /\ i - pic.bpp < i /\ i - pic.bpp < Stride
  BY <1>1, UnpackFacts, PictureFacts DEF Bytes
<1>3. bytes[i] = pic.pix[row][i]
  <2>1. stream[row].bytes[i] = minus(pic.pix[row][i], a)
    BY <1>1, UnpackFacts DEF PackedAs, PackDelta
  <2>2. At(out, row, i - pic.bpp) = a
    BY <1>1, <1>2, UnpackFacts
  <2>3. pic.pix[row][i] \in Byte /\ a \in Byte
    BY <1>1, <1>2, UnpackFacts, PictureFacts, NeighbourIsByte
  <2> QED
    BY <2>1, <2>2, <2>3, ByteAgain
<1> HIDE DEF bytes, a
<1>4. \A k \in i..(i + 1 - 1) : bytes[k] = pic.pix[row][k]
  BY <1>2, <1>3
<1> QED
  BY <1>1, <1>2, <1>4, WriteInv

LEMMA AdaptiveInv ==
  ASSUME FilterInv, UnpackAdaptive
  PROVE  FilterInv'
<1> DEFINE bytes == [k \in {i} |-> plus(stream[row].bytes[k], DecodedPred(k))]
           t == stream[row].type
           a == At(pic.pix, row, i - pic.bpp)
           b == At(pic.pix, row - 1, i)
           c == At(pic.pix, row - 1, i - pic.bpp)
<1>1. step = "unpack" /\ filter = "ADAPTIVE" /\ WriteBytes(i + 1, bytes)
  BY DEF UnpackAdaptive
<1>2. /\ i \in Nat /\ i + 1 \in Nat /\ i < i + 1 /\ (\A k \in i..(i + 1 - 1) : k = i)
      /\ pic.bpp \in 1..8 /\ i - pic.bpp \in Int /\ i - pic.bpp < i /\ i - pic.bpp < Stride
      /\ i < Stride /\ i \in Int
  BY <1>1, UnpackFacts, PictureFacts DEF Bytes
<1>3. bytes[i] = pic.pix[row][i]
  <2>1. stream[row].bytes[i] = minus(pic.pix[row][i], Pred(t, a, b, c)) /\ t \in RowFilters
    BY <1>1, UnpackFacts DEF PackedAs, RowFilterEncode
  <2>2. /\ At(out, row, i - pic.bpp) = a
        /\ At(out, row - 1, i) = b
        /\ At(out, row - 1, i - pic.bpp) = c
    BY <1>1, <1>2, UnpackFacts
  <2>3. pic.pix[row][i] \in Byte /\ a \in Byte
    BY <1>1, <1>2, UnpackFacts, PictureFacts, NeighbourIsByte
  <2>4. b \in Byte /\ c \in Byte
    BY <1>1, <1>2, UnpackFacts, NeighbourIsByte
  <2>5. row = 0 => b = 0 /\ c = 0
    BY <1>2 DEF At
  <2>6. i < pic.bpp => a = 0 /\ c = 0
    BY <1>2 DEF At
  <2> HIDE DEF a, b, c, t
  <2>7. DecodedPred(i) = Pred(t, a, b, c)
    <3>1. CASE i < pic.bpp
      <4>1. DecodedPred(i) = HeadPred(t, row = 0, b)
        BY <2>2, <3>1 DEF DecodedPred, t
      <4>2. HeadPred(t, row = 0, b) = Pred(t, 0, b, 0)
        BY <2>1, <2>4, <2>5, HeadAgrees, ZenonT(40)
      <4>3. a = 0 /\ c = 0
        BY <2>6, <3>1
      <4>4. Pred(t, a, b, c) = Pred(t, 0, b, 0)
        BY <4>3
      <4> QED
        BY <4>1, <4>2, <4>4
    <3>2. CASE ~(i < pic.bpp)
      <4>1. DecodedPred(i) = BulkPred(t, row = 0, a, b, c)
        BY <2>2, <3>2 DEF DecodedPred, t
      <4>2. BulkPred(t, row = 0, a, b, c) = Pred(t, a, b, c)
        BY <2>1, <2>3, <2>4, <2>5, BulkAgrees, ZenonT(40)
      <4> QED
        BY <4>1, <4>2
    <3> QED
      BY <3>1, <3>2
  <2>8. Pred(t, a, b, c) \in Byte
    BY <2>1, <2>3, <2>4, PredIsByte
  <2>9. plus(minus(pic.pix[row][i], Pred(t, a, b, c)), Pred(t, a, b, c)) = pic.pix[row][i]
    BY <2>3, <2>8, ByteAgain
  <2>10. bytes[i] = plus(stream[row].bytes[i], DecodedPred(i))
    OBVIOUS
  <2> QED
    BY <2>1, <2>7, <2>9, <2>10, Zenon
<1> HIDE DEF bytes
<1> QED
  BY <1>1, <1>2, <1>3, WriteInv

\* A pixel lies within its row, and its planes are those of its bytes.
LEMMA PixelFits ==
  ASSUME FilterInv, step = "unpack", filter = "BCIF"
  PROVE  /\ pic.bpp \in {3, 4} /\ i + pic.bpp <= Stride
         /\ i % pic.bpp = 0 /\ (i + pic.bpp) % pic.bpp = 0
         /\ (i + 1) % pic.bpp = 1 /\ (i + 2) % pic.bpp = 2
         /\ pic.bpp = 4 => (i + 3) % pic.bpp = 3
<1>1. pic.bpp \in {3, 4} /\ i % pic.bpp = 0 /\ i < Stride /\ i \in Nat /\ pic.width \in Nat
  BY PictureFacts DEF FilterInv
<1>2. CASE pic.bpp = 3
  BY <1>1, <1>2, SMT DEF Stride
<1>3. CASE pic.bpp = 4
  BY <1>1, <1>3, SMT DEF Stride
<1> QED
  BY <1>1, <1>2, <1>3

LEMMA BcifInv ==
  ASSUME FilterInv, UnpackBcif
  PROVE  FilterInv'
<1> DEFINE bytes == [k \in i..(i + pic.bpp - 1) |->
                       plus(Untransform(stream[row].bytes, k), At(out, row, k - pic.bpp))]
           delta == PackDelta(row)
           sent == stream[row].bytes
<1>1. step = "unpack" /\ filter = "BCIF" /\ WriteBytes(i + pic.bpp, bytes)
  BY DEF UnpackBcif
<1>2. /\ i \in Nat /\ pic.bpp \in {3, 4} /\ i + pic.bpp <= Stride /\ Stride \in Nat
      /\ i % pic.bpp = 0 /\ (i + pic.bpp) % pic.bpp = 0
      /\ (i + 1) % pic.bpp = 1 /\ (i + 2) % pic.bpp = 2
      /\ pic.bpp = 4 => (i + 3) % pic.bpp = 3
  BY <1>1, UnpackFacts, PictureFacts, PixelFits
<1>3. i \in Bytes /\ i + 1 \in Bytes /\ i + 2 \in Bytes /\ (pic.bpp = 4 => i + 3 \in Bytes)
  BY <1>2 DEF Bytes
<1>4. \A k \in Bytes : delta[k] = minus(pic.pix[row][k], At(pic.pix, row, k - pic.bpp))
  BY DEF PackDelta
<1>5. \A k \in Bytes : pic.pix[row][k] \in Byte /\ At(pic.pix, row, k - pic.bpp) \in Byte
  <2>1. \A k \in Bytes : k - pic.bpp \in Int /\ k - pic.bpp < Stride
    BY <1>2 DEF Bytes
  <2> QED
    BY <2>1, <1>1, UnpackFacts, PictureFacts, NeighbourIsByte
<1>6. \A k \in Bytes : delta[k] \in Byte /\ plus(delta[k], At(pic.pix, row, k - pic.bpp)) = pic.pix[row][k]
  BY <1>4, <1>5, ByteAgain
<1> HIDE DEF delta
<1>7. /\ sent[i] = delta[i + 2]
      /\ sent[i + 1] = minus(delta[i + 1], delta[i + 2])
      /\ sent[i + 2] = minus(delta[i + 1], delta[i])
      /\ pic.bpp = 4 => sent[i + 3] = delta[i + 3]
  <2>1. sent = PackBcif(row)
    BY <1>1, UnpackFacts DEF PackedAs
  <2>2. \A k \in Bytes : sent[k] = IF k % pic.bpp > 2 THEN delta[k]
                                    ELSE Transform(delta, k - (k % pic.bpp))[(k % pic.bpp) + 1]
    BY <2>1, Zenon DEF PackBcif, delta
  <2> HIDE DEF sent
  <2>3. \A k \in Bytes, n \in 0..2 :
          k % pic.bpp = n => sent[k] = Transform(delta, k - n)[n + 1]
    <3> SUFFICES ASSUME NEW k \in Bytes, NEW n \in 0..2, k % pic.bpp = n
                 PROVE  sent[k] = Transform(delta, k - n)[n + 1]
      OBVIOUS
    <3>1. ~(n > 2)
      OBVIOUS
    <3> QED
      BY <2>2, <3>1
  <2>4. sent[i] = Transform(delta, i)[1]
    <3>1. \A n \in 0..2 : i % pic.bpp = n => sent[i] = Transform(delta, i - n)[n + 1]
      BY <2>3, <1>3
    <3>2. i % pic.bpp = 0 /\ 0 \in 0..2
      BY <1>2
    <3>3. sent[i] = Transform(delta, i - 0)[0 + 1]
      BY <3>1, <3>2, Zenon
    <3>4. i - 0 = i /\ 0 + 1 = 1
      BY <1>2
    <3> QED
      BY <3>3, <3>4
  <2>5. sent[i + 1] = Transform(delta, i)[2]
    <3>1. \A n \in 0..2 : (i + 1) % pic.bpp = n => sent[i + 1] = Transform(delta, (i + 1) - n)[n + 1]
      BY <2>3, <1>3
    <3>2. (i + 1) % pic.bpp = 1 /\ 1 \in 0..2
      BY <1>2
    <3>3. sent[i + 1] = Transform(delta, (i + 1) - 1)[1 + 1]
      BY <3>1, <3>2, Zenon
    <3>4. (i + 1) - 1 = i /\ 1 + 1 = 2
      BY <1>2
    <3> QED
      BY <3>3, <3>4
  <2>6. sent[i + 2] = Transform(delta, i)[3]
    <3>1. \A n \in 0..2 : (i + 2) % pic.bpp = n => sent[i + 2] = Transform(delta, (i + 2) - n)[n + 1]
      BY <2>3, <1>3
    <3>2. (i + 2) % pic.bpp = 2 /\ 2 \in 0..2
      BY <1>2
    <3>3. sent[i + 2] = Transform(delta, (i + 2) - 2)[2 + 1]
      BY <3>1, <3>2, Zenon
    <3>4. (i + 2) - 2 = i /\ 2 + 1 = 3
      BY <1>2
    <3> QED
      BY <3>3, <3>4
  <2>7. ASSUME pic.bpp = 4 PROVE sent[i + 3] = delta[i + 3]
    <3>1. (i + 3) % pic.bpp = 3 /\ i + 3 \in Bytes
      BY <2>7, <1>2, <1>3
    <3>2. 3 > 2
      OBVIOUS
    <3>3. (i + 3) % pic.bpp > 2
      BY <3>1, <3>2
    <3> QED
      BY <2>2, <3>1, <3>3
  <2> QED
    BY <2>4, <2>5, <2>6, <2>7, SMT DEF Transform
<1>8. \A k \in i..(i + pic.bpp - 1) : k \in Bytes /\ Untransform(sent, k) = delta[k]
  <2>1. \A k \in i..(i + pic.bpp - 1) :
          k \in Bytes /\ (k = i \/ k = i + 1 \/ k = i + 2 \/ (pic.bpp = 4 /\ k = i + 3))
    BY <1>2 DEF Bytes
  <2>2. delta[i] \in Byte /\ delta[i + 1] \in Byte /\ delta[i + 2] \in Byte
    BY <1>3, <1>6
  <2>3. /\ plus(sent[i + 1], sent[i]) = delta[i + 1]
        /\ minus(delta[i + 1], sent[i + 2]) = delta[i]
    BY <1>7, <2>2, ColourAgain
  <2>4. Untransform(sent, i) = delta[i]
    BY <2>3 DEF Untransform
  <2>5. Untransform(sent, i + 1) = delta[i + 1]
    BY <2>3, <1>2 DEF Untransform
  <2>6. Untransform(sent, i + 2) = delta[i + 2]
    BY <1>7, <1>2 DEF Untransform
  <2>7. pic.bpp = 4 => Untransform(sent, i + 3) = delta[i + 3]
    BY <1>7, <1>2 DEF Untransform
  <2> QED
    BY <2>1, <2>4, <2>5, <2>6, <2>7
<1>9. \A k \in i..(i + pic.bpp - 1) : At(out, row, k - pic.bpp) = At(pic.pix, row, k - pic.bpp)
  <2>1. \A k \in i..(i + pic.bpp - 1) : k - pic.bpp \in Int /\ k - pic.bpp < i
    BY <1>2
  <2> QED
    BY <2>1, <1>1, UnpackFacts
<1>10. \A k \in i..(i + pic.bpp - 1) : bytes[k] = pic.pix[row][k]
  BY <1>6, <1>8, <1>9
<1>11. i + pic.bpp \in Nat /\ i < i + pic.bpp
  BY <1>2
<1> HIDE DEF bytes
<1> QED
  BY <1>1, <1>2, <1>10, <1>11, WriteInv

LEMMA StutterInv ==
  ASSUME FilterInv,
         UNCHANGED <<filter, pic, step, row, type, best_type, best, stream, i, out>>
  PROVE  FilterInv'
<1>1. ASSUME NEW v, NEW t, NEW bytes, PackedAs(t, bytes, v)
      PROVE  PackedAs(t, bytes, v)'
  BY <1>1 DEF PackedAs, PackDelta, PackBcif, RowFilterEncode, Bytes, Stride
<1>2. \A v \in DOMAIN stream' : PackedAs(stream[v].type, stream[v].bytes, v)'
  <2>1. \A v \in DOMAIN stream : PackedAs(stream[v].type, stream[v].bytes, v)
    BY DEF FilterInv
  <2> QED
    BY <2>1, <1>1
<1>3. RowFilterEncode(best_type, row)' = RowFilterEncode(best_type, row)
  BY DEF RowFilterEncode, Bytes, Stride
<1>4. RowsOf' = RowsOf /\ Stride' = Stride /\ Bytes' = Bytes
  BY DEF RowsOf, Stride, Bytes
<1> QED
  BY <1>2, <1>3, <1>4 DEF FilterInv

------------------------------------------------------------------------------
(* Packing and unpacking keep FilterInv, for any picture and width of bytes. *)
THEOREM FiltersInvariant == FilterSpec => []FilterInv
<1>1. FilterInv /\ [FilterNext]_filterVars => FilterInv'
  <2> SUFFICES ASSUME FilterInv, [FilterNext]_filterVars PROVE FilterInv'
    OBVIOUS
  <2>1. CASE PackRow \/ StartRow \/ EndRow
    BY <2>1, PackInv
  <2>2. CASE TryType
    BY <2>2, TryInv
  <2>3. CASE UnpackAdaptive
    BY <2>3, AdaptiveInv
  <2>4. CASE UnpackNone
    BY <2>4, NoneInv
  <2>5. CASE UnpackDelta
    BY <2>5, DeltaInv
  <2>6. CASE UnpackBcif
    BY <2>6, BcifInv
  <2>7. CASE UNCHANGED filterVars
    <3>1. UNCHANGED <<filter, pic, step, row, type, best_type, best, stream, i, out>>
      BY <2>7 DEF filterVars
    <3> QED
      BY <3>1, StutterInv
  <2> QED
    BY <2>1, <2>2, <2>3, <2>4, <2>5, <2>6, <2>7 DEF FilterNext
<1> QED
  BY <1>1, InitInv, PTL DEF FilterSpec

(* Unfiltering gives back every picture that was filtered, with every filter  *)
(* and every choice of row filters: decoding is lossless.                     *)
THEOREM FiltersInvert == FilterSpec => []UnfilteredIsOriginal
<1>1. FilterInv => UnfilteredIsOriginal
  <2> SUFFICES ASSUME FilterInv, step \in {"unpack", "done"}, NEW v \in RowsOf
               PROVE  LET known == IF step = "done" \/ v < row THEN Stride
                                   ELSE IF v = row THEN i ELSE 0
                      IN  \A k \in 0..(known - 1) : out[v][k] = pic.pix[v][k]
    BY DEF UnfilteredIsOriginal
  <2>1. row \in RowsOf /\ v \in Nat /\ row \in Nat
    BY PictureFacts DEF FilterInv, RowsOf
  <2>2. CASE step = "done"
    BY <2>2 DEF FilterInv, Bytes
  <2>3. CASE step = "unpack" /\ v < row
    <3>1. v \in 0..(row - 1)
      BY <2>1, <2>3
    <3> QED
      BY <2>3, <3>1 DEF FilterInv, Bytes
  <2>4. CASE step = "unpack" /\ ~(v < row)
    BY <2>4 DEF FilterInv
  <2> QED
    BY <2>2, <2>3, <2>4
<1> QED
  BY <1>1, FiltersInvariant, PTL

------------------------------------------------------------------------------
(* The choice of a row filter.                                               *)

\* The score of a row that some row filter leaves is a number.
LEMMA ScoreIsNat ==
  ASSUME FilterInv, NEW t \in RowFilters, NEW v \in RowsOf
  PROVE  ScoreOf(t, v) \in Nat
<1> DEFINE bytes == RowFilterEncode(t, v)
           size(x) == AbsOf(IF 2 * x >= Base THEN x - Base ELSE x)
           w == [k \in 1..Stride |-> size(bytes[k - 1])]
<1>1. \A k \in Bytes : bytes[k] \in Byte
  <2> SUFFICES ASSUME NEW k \in Bytes PROVE bytes[k] \in Byte
    OBVIOUS
  <2>1. Stride \in Nat /\ pic.bpp \in 1..8 /\ v \in Nat /\ k \in Nat /\ k < Stride
    BY PictureFacts DEF Bytes, RowsOf
  <2>2. k - pic.bpp \in Int /\ k - pic.bpp < Stride /\ k \in Int
    BY <2>1
  <2>3. v - 1 \in RowsOf \cup {-1} /\ v \in RowsOf \cup {-1}
    BY <2>1, PictureFacts DEF RowsOf
  <2>4. /\ At(pic.pix, v, k - pic.bpp) \in Byte /\ At(pic.pix, v - 1, k) \in Byte
        /\ At(pic.pix, v - 1, k - pic.bpp) \in Byte
    BY <2>1, <2>2, <2>3, NeighbourIsByte
  <2>5. pic.pix[v][k] \in Byte
    BY PictureFacts
  <2>6. Pred(t, At(pic.pix, v, k - pic.bpp), At(pic.pix, v - 1, k),
             At(pic.pix, v - 1, k - pic.bpp)) \in Byte
    BY <2>4, PredIsByte
  <2> QED
    BY <2>5, <2>6, ByteAgain DEF RowFilterEncode
<1>2. \A x \in Byte : size(x) \in Nat
  BY SMT DEF Byte, AbsOf
<1>3. Stride \in Nat
  BY PictureFacts
<1>4. \A k \in 1..Stride : w[k] \in Nat
  <2>1. \A k \in 1..Stride : k - 1 \in Bytes
    BY <1>3 DEF Bytes
  <2> HIDE DEF size, bytes
  <2> QED
    BY <1>1, <1>2, <2>1
<1>5. ScoreOf(t, v) = SumTo(w, Stride)
  BY DEF ScoreOf, Score
<1> HIDE DEF w
<1>6. SumTo(w, Stride) \in Nat
  BY <1>3, <1>4, SumIsNat
<1> QED
  BY <1>5, <1>6

\* Scores, and which of them are best, depend on the picture alone.
LEMMA ScoreKept ==
  ASSUME UNCHANGED pic, NEW t, NEW v
  PROVE  ScoreOf(t, v)' = ScoreOf(t, v)
<1>1. Stride' = Stride /\ Bytes' = Bytes
  BY DEF Stride, Bytes
<1>2. RowFilterEncode(t, v)' = RowFilterEncode(t, v)
  BY <1>1 DEF RowFilterEncode
<1> QED
  BY <1>1, <1>2, Zenon DEF ScoreOf, Score

LEMMA ChoiceKept ==
  ASSUME UNCHANGED pic, NEW t, NEW v, NEW n, IsFirstBest(t, v, n)
  PROVE  IsFirstBest(t, v, n)'
<1>1. \A u \in 0..(n - 1) : ScoreOf(u, v)' = ScoreOf(u, v)
  BY ScoreKept
<1>2. ScoreOf(t, v)' = ScoreOf(t, v)
  BY ScoreKept
<1> QED
  BY <1>1, <1>2, Zenon DEF IsFirstBest

\* One more row filter is compared with the best of those before.
LEMMA BestOfOneMore ==
  ASSUME FilterInv, NEW v \in RowsOf, NEW n \in RowFilters, NEW t \in 0..(n - 1),
         IsFirstBest(t, v, n)
  PROVE  IF ScoreOf(n, v) < ScoreOf(t, v)
           THEN IsFirstBest(n, v, n + 1) ELSE IsFirstBest(t, v, n + 1)
<1>1. \A u \in 0..n : u \in RowFilters
  BY DEF RowFilters
<1>2. \A u \in 0..n : ScoreOf(u, v) \in Nat
  BY <1>1, ScoreIsNat
<1>3. n \in Nat /\ 0..((n + 1) - 1) = 0..n /\ 0..n = (0..(n - 1)) \cup {n} /\ n \in 0..n
  BY DEF RowFilters
<1>4. \A u \in 0..(n - 1) : ScoreOf(t, v) <= ScoreOf(u, v) /\ (u < t => ScoreOf(t, v) < ScoreOf(u, v))
  BY DEF IsFirstBest
<1>5. /\ IsFirstBest(n, v, n + 1)
           <=> \A u \in 0..n : ScoreOf(n, v) <= ScoreOf(u, v) /\ (u < n => ScoreOf(n, v) < ScoreOf(u, v))
      /\ IsFirstBest(t, v, n + 1)
           <=> \A u \in 0..n : ScoreOf(t, v) <= ScoreOf(u, v) /\ (u < t => ScoreOf(t, v) < ScoreOf(u, v))
  BY <1>3, Zenon DEF IsFirstBest
<1>6. CASE ScoreOf(n, v) < ScoreOf(t, v)
  <2>1. \A u \in 0..n : ScoreOf(n, v) <= ScoreOf(u, v) /\ (u < n => ScoreOf(n, v) < ScoreOf(u, v))
    BY <1>2, <1>3, <1>4, <1>6, SMT
  <2> QED
    BY <2>1, <1>5, <1>6
<1>7. CASE ~(ScoreOf(n, v) < ScoreOf(t, v))
  <2>1. \A u \in 0..n : ScoreOf(t, v) <= ScoreOf(u, v) /\ (u < t => ScoreOf(t, v) < ScoreOf(u, v))
    BY <1>2, <1>3, <1>4, <1>7, SMT
  <2> QED
    BY <2>1, <1>5, <1>7
<1> QED
  BY <1>6, <1>7

\* The rows of the stream stay the best they can be when no row is added.
LEMMA StreamKeepsBest ==
  ASSUME BestInv, UNCHANGED <<filter, pic, stream>>, NEW v \in DOMAIN stream',
         filter = "ADAPTIVE"
  PROVE  IsFirstBest(stream[v].type, v, 5)'
<1>1. IsFirstBest(stream[v].type, v, 5)
  BY DEF BestInv
<1> QED
  BY <1>1, ChoiceKept

\* A turn of the loop over the row filters.
LEMMA TryBest ==
  ASSUME FilterInv, BestInv, TryType
  PROVE  BestInv'
<1>1. UNCHANGED <<filter, pic, step, row, stream>> /\ step = "try" /\ type \in RowFilters
      /\ type' = type + 1 /\ type \in Nat /\ filter = "ADAPTIVE" /\ row \in RowsOf
  BY DEF TryType, RowFilters, FilterInv
<1> DEFINE bytes == RowFilterEncode(type, row)
<1>2. Score(bytes) \in Nat /\ Score(bytes) = ScoreOf(type, row)
  BY <1>1, ScoreIsNat DEF ScoreOf
<1>3. bytes = RowFilterEncode(type, row) /\ \A b : Score(b)' = Score(b)
  BY <1>1 DEF Score, Stride
<1>4. /\ Better(Score(bytes)) =>
           best_s' = Score(bytes) /\ best_type' = type /\ best' = bytes
      /\ ~Better(Score(bytes)) => UNCHANGED <<best_s, best_type, best>>
  BY DEF TryType, Promote
<1>5. best_s' = Score(best') /\ best_type' < type' /\ IsFirstBest(best_type', row, type + 1)
  <2>1. CASE type = 0
    <3>1. Better(Score(bytes))
      BY <2>1 DEF Better
    <3>2. IsFirstBest(0, row, 1)
      <4>1. \A u \in 0..(1 - 1) : u = 0
        OBVIOUS
      <4>2. ScoreOf(0, row) \in Nat
        BY <1>2, <2>1
      <4>3. ScoreOf(0, row) <= ScoreOf(0, row)
        BY <4>2
      <4>4. ~(0 < 0)
        OBVIOUS
      <4> QED
        BY <4>1, <4>3, <4>4, Zenon DEF IsFirstBest
    <3>3. best_s' = Score(best') /\ best_type' = 0
      BY <3>1, <1>4, <2>1
    <3>4. type + 1 = 1 /\ 0 < type'
      BY <2>1, <1>1
    <3> QED
      BY <3>2, <3>3, <3>4
  <2>2. CASE type # 0
    <3>1. type > 0
      BY <2>2, <1>1
    <3>2. best_s = Score(best) /\ best_type < type /\ IsFirstBest(best_type, row, type)
      BY <3>1, <1>1 DEF BestInv
    <3>3. best_type \in RowFilters /\ best = RowFilterEncode(best_type, row)
      BY <3>1, <1>1 DEF FilterInv
    <3>4. best_type \in 0..(type - 1)
      BY <3>2, <3>3, <1>1 DEF RowFilters
    <3>5. IF Score(bytes) < ScoreOf(best_type, row)
            THEN IsFirstBest(type, row, type + 1) ELSE IsFirstBest(best_type, row, type + 1)
      BY <3>2, <3>4, <1>1, <1>2, BestOfOneMore
    <3>6. Better(Score(bytes)) <=> Score(bytes) < ScoreOf(best_type, row)
      BY <2>2, <3>2, <3>3 DEF Better, ScoreOf
    <3>7. CASE Better(Score(bytes))
      <4>1. best_s' = Score(best') /\ best_type' = type
        BY <3>7, <1>4
      <4>2. type < type'
        BY <1>1
      <4> QED
        BY <4>1, <4>2, <3>5, <3>6, <3>7
    <3>8. CASE ~Better(Score(bytes))
      <4>1. best_s' = best_s /\ best' = best /\ best_type' = best_type
        BY <3>8, <1>4
      <4>2. best_type < type'
        BY <1>1, <3>4
      <4> QED
        BY <4>1, <4>2, <3>2, <3>5, <3>6, <3>8
    <3> QED
      BY <3>7, <3>8
  <2> QED
    BY <2>1, <2>2
<1>6. IsFirstBest(best_type', row, type + 1) => IsFirstBest(best_type, row, type)'
  <2> SUFFICES ASSUME NEW t, NEW v, NEW n, t = best_type', v = row', n = type',
                      IsFirstBest(t, v, n)
               PROVE  IsFirstBest(best_type, row, type)'
    BY <1>1
  <2>1. IsFirstBest(t, v, n)'
    BY <1>1, ChoiceKept
  <2> QED
    BY <2>1 DEF IsFirstBest
<1>7. \A v \in DOMAIN stream' : IsFirstBest(stream[v].type, v, 5)'
  BY <1>1, StreamKeepsBest
<1>8. Score(best)' = Score(best')
  BY <1>1 DEF Score, Stride
<1> QED
  BY <1>5, <1>6, <1>7, <1>8 DEF BestInv

\* The row that ends is filtered with the best of all row filters.
LEMMA EndBest ==
  ASSUME FilterInv, BestInv, EndRow
  PROVE  BestInv'
<1>1. step = "try" /\ type \notin RowFilters /\ PutRow(best_type, best)
  BY DEF EndRow
<1>2. filter = "ADAPTIVE" /\ type \in 0..5 /\ UNCHANGED <<filter, pic>> /\ row \in RowsOf
  BY <1>1 DEF FilterInv, PutRow
<1>3. type = 5
  BY <1>1, <1>2 DEF RowFilters
<1>4. IsFirstBest(best_type, row, 5)
  BY <1>1, <1>2, <1>3 DEF BestInv
<1>5. step' # "try"
  BY <1>1 DEF PutRow
<1>6. /\ DOMAIN stream' = 0..row
      /\ \A v \in 0..row : stream'[v] = IF v = row THEN [type |-> best_type, bytes |-> best]
                                                   ELSE stream[v]
  BY <1>1 DEF PutRow
<1>7. ASSUME NEW v \in DOMAIN stream'
      PROVE  IsFirstBest(stream[v].type, v, 5)'
  <2>1. IsFirstBest(stream'[v].type, v, 5)
    <3>1. CASE v = row
      BY <3>1, <1>4, <1>6
    <3>2. CASE v # row
      <4>1. v \in DOMAIN stream
        BY <3>2, <1>1, <1>2, <1>6 DEF FilterInv, RowsOf
      <4>2. IsFirstBest(stream[v].type, v, 5)
        BY <4>1, <1>2 DEF BestInv
      <4> QED
        BY <3>2, <4>2, <1>6
    <3> QED
      BY <3>1, <3>2
  <2> SUFFICES ASSUME NEW t, t = stream'[v].type, IsFirstBest(t, v, 5)
               PROVE  IsFirstBest(stream[v].type, v, 5)'
    BY <2>1
  <2>2. IsFirstBest(t, v, 5)'
    BY <1>2, ChoiceKept
  <2> QED
    BY <2>2 DEF IsFirstBest
<1> QED
  BY <1>5, <1>7 DEF BestInv

\* No other step has to do with the choice.
LEMMA OthersKeepBest ==
  ASSUME FilterInv, BestInv, UNCHANGED <<filter, pic, stream>>,
         \/ step' # "try" \/ type' = 0
         \/ UNCHANGED <<step, row, type, best_s, best_type, best>>
  PROVE  BestInv'
<1>1. filter = "ADAPTIVE" => \A v \in DOMAIN stream' : IsFirstBest(stream[v].type, v, 5)'
  BY StreamKeepsBest
<1>2. CASE step' # "try" \/ type' = 0
  BY <1>1, <1>2 DEF BestInv
<1>3. CASE UNCHANGED <<step, row, type, best_s, best_type, best>>
  <2>1. ASSUME filter = "ADAPTIVE", step = "try", type > 0
        PROVE  best_s' = Score(best)' /\ best_type' < type' /\ IsFirstBest(best_type, row, type)'
    <3>1. best_s = Score(best) /\ best_type < type /\ IsFirstBest(best_type, row, type)
      BY <2>1 DEF BestInv
    <3>2. Score(best)' = Score(best)
      BY <1>3 DEF Score, Stride
    <3> SUFFICES ASSUME NEW t, NEW v, NEW n, t = best_type, v = row, n = type,
                        IsFirstBest(t, v, n)
                 PROVE  IsFirstBest(best_type, row, type)'
      BY <3>1, <3>2, <1>3
    <3>3. IsFirstBest(t, v, n)'
      BY ChoiceKept
    <3> QED
      BY <3>3, <1>3 DEF IsFirstBest
  <2> QED
    BY <1>1, <1>3, <2>1 DEF BestInv
<1> QED
  BY <1>2, <1>3

LEMMA BestStep ==
  ASSUME FilterInv, BestInv, [FilterNext]_filterVars
  PROVE  BestInv'
<1>1. CASE PackRow
  <2>1. filter # "ADAPTIVE" /\ filter' = filter
    BY <1>1 DEF PackRow, PutRow
  <2> QED
    BY <2>1 DEF BestInv
<1>2. CASE StartRow
  <2>1. UNCHANGED <<filter, pic, stream>> /\ type' = 0
    BY <1>2 DEF StartRow
  <2> QED
    BY <2>1, OthersKeepBest
<1>3. CASE UnpackAdaptive \/ UnpackNone \/ UnpackDelta \/ UnpackBcif
  <2>1. PICK next, bytes : WriteBytes(next, bytes)
    BY <1>3 DEF UnpackAdaptive, UnpackNone, UnpackDelta, UnpackBcif
  <2>2. UNCHANGED <<filter, pic, stream>> /\ (step' = "done" \/ step' = step) /\ step = "unpack"
    BY <1>3, <2>1 DEF WriteBytes, UnpackAdaptive, UnpackNone, UnpackDelta, UnpackBcif
  <2>3. step' # "try"
    BY <2>2
  <2> QED
    BY <2>2, <2>3, OthersKeepBest
<1>4. CASE UNCHANGED filterVars
  <2>1. UNCHANGED <<filter, pic, stream, step, row, type, best_s, best_type, best>>
    BY <1>4 DEF filterVars
  <2> QED
    BY <2>1, OthersKeepBest
<1> QED
  BY <1>1, <1>2, <1>3, <1>4, TryBest, EndBest DEF FilterNext

(* Every row of an adaptively filtered picture has the first of the row       *)
(* filters with the least score, for any picture: whatever the two buffers    *)
(* that change places held, the bytes that go out are those of the type byte. *)
THEOREM RowsAreFilteredBest == FilterSpec => []RowsFilteredBest
<1>1. FilterInit => BestInv
  BY DEF FilterInit, BestInv
<1>2. FilterInv /\ BestInv => RowsFilteredBest
  <2> SUFFICES ASSUME FilterInv, BestInv, filter = "ADAPTIVE", NEW v \in DOMAIN stream
               PROVE  /\ stream[v].bytes = RowFilterEncode(stream[v].type, v)
                      /\ \A t \in RowFilters :
                           /\ Score(stream[v].bytes) <= ScoreOf(t, v)
                           /\ t < stream[v].type => Score(stream[v].bytes) < ScoreOf(t, v)
    BY DEF RowsFilteredBest
  <2>1. PackedAs(stream[v].type, stream[v].bytes, v)
    BY DEF FilterInv
  <2>2. stream[v].bytes = RowFilterEncode(stream[v].type, v)
    BY <2>1 DEF PackedAs
  <2>3. IsFirstBest(stream[v].type, v, 5) /\ 0..(5 - 1) = RowFilters
    BY DEF BestInv, RowFilters
  <2> QED
    BY <2>2, <2>3, Zenon DEF IsFirstBest, ScoreOf
<1> QED
  BY <1>1, <1>2, BestStep, FiltersInvariant, PTL DEF FilterSpec
------------------------------------------------------------------------------
(* Samples                                                                   *)

\* Division of what is and is not below a multiple.
LEMMA PixelPlace ==
  ASSUME NEW w \in Nat \ {0}, NEW h \in Nat \ {0}, NEW n \in 0..(w * h - 1)
  PROVE  n % w \in 0..(w - 1) /\ n \div w \in 0..(h - 1)
<1> DEFINE q == n \div w
           r == n % w
<1>1. n \in Nat /\ w * h \in Nat /\ n < w * h
  OBVIOUS
<1>2. q \in Int /\ r \in 0..(w - 1) /\ n = w * q + r
  BY <1>1
<1> HIDE DEF q, r
<1>3. q >= 0
  <2>1. q <= -1 => w * q <= -w
    BY <1>2
  <2> QED
    BY <1>1, <1>2, <2>1
<1>4. q < h
  <2>1. q >= h => w * q >= w * h
    BY <1>2
  <2> QED
    BY <1>1, <1>2, <2>1
<1> QED
  BY <1>2, <1>3, <1>4 DEF q, r

LEMMA PowersAre ==
  /\ 2^0 = 1 /\ 2^1 = 2 /\ 2^2 = 4 /\ 2^3 = 8 /\ 2^4 = 16 /\ 2^5 = 32 /\ 2^6 = 64
  /\ 2^7 = 128 /\ 2^8 = 256 /\ 2^9 = 512 /\ 2^10 = 1024 /\ 2^11 = 2048 /\ 2^12 = 4096
<1> DEFINE p(n) == 2^n
<1>1. p(0) = 1 /\ \A n \in 0..15 : p(n + 1) = 2 * p(n)
  BY PowersOfTwo
<1> HIDE DEF p
<1>2. /\ p(1) = 2 /\ p(2) = 4 /\ p(3) = 8 /\ p(4) = 16 /\ p(5) = 32 /\ p(6) = 64
  BY <1>1
<1>3. /\ p(7) = 128 /\ p(8) = 256 /\ p(9) = 512 /\ p(10) = 1024 /\ p(11) = 2048
      /\ p(12) = 4096
  BY <1>1, <1>2
<1> QED
  BY <1>1, <1>2, <1>3 DEF p

\* A sum of few terms.
LEMMA FewTerms ==
  ASSUME NEW w
  PROVE  /\ w[1] \in Int => SumTo(w, 1) = w[1]
         /\ w[1] \in Int /\ w[2] \in Int => SumTo(w, 2) = w[1] + w[2]
         /\ w[1] \in Int /\ w[2] \in Int /\ w[3] \in Int /\ w[4] \in Int
              => SumTo(w, 4) = w[1] + w[2] + w[3] + w[4]
         /\ (\A k \in 1..8 : w[k] \in Int)
              => SumTo(w, 8) = w[1] + w[2] + w[3] + w[4] + w[5] + w[6] + w[7] + w[8]
<1> DEFINE s(n) == SumTo(w, n)
<1>1. s(0) = 0 /\ \A n \in 1..8 : s(n) = s(n - 1) + w[n]
  <2>1. ASSUME NEW n \in 0..8 PROVE SumTo(w, n) = IF n = 0 THEN 0 ELSE SumTo(w, n - 1) + w[n]
    <3>1. n \in Nat
      OBVIOUS
    <3> QED
      BY <3>1, SumIs, Zenon
  <2> QED
    BY <2>1
<1> HIDE DEF s
<1>2. /\ s(1) = 0 + w[1] /\ s(2) = s(1) + w[2] /\ s(3) = s(2) + w[3] /\ s(4) = s(3) + w[4]
      /\ s(5) = s(4) + w[5] /\ s(6) = s(5) + w[6] /\ s(7) = s(6) + w[7] /\ s(8) = s(7) + w[8]
  BY <1>1
<1>3. /\ w[1] \in Int => s(1) = w[1]
      /\ w[1] \in Int /\ w[2] \in Int => s(2) = w[1] + w[2]
      /\ w[1] \in Int /\ w[2] \in Int /\ w[3] \in Int /\ w[4] \in Int
           => s(4) = w[1] + w[2] + w[3] + w[4]
  BY <1>2
<1>4. ASSUME \A k \in 1..8 : w[k] \in Int
      PROVE  s(8) = w[1] + w[2] + w[3] + w[4] + w[5] + w[6] + w[7] + w[8]
  <2>1. /\ w[1] \in Int /\ w[2] \in Int /\ w[3] \in Int /\ w[4] \in Int
        /\ w[5] \in Int /\ w[6] \in Int /\ w[7] \in Int /\ w[8] \in Int
    BY <1>4
  <2> QED
    BY <1>2, <2>1
<1> QED
  BY <1>3, <1>4 DEF s

\* The bits of sample x of a row, which starts j samples into a byte.
LEMMA RowBits ==
  ASSUME NEW d \in {1, 2, 4, 8}, NEW x \in Nat, NEW k \in 1..d
  PROVE  /\ (x * d + k - 1) \div 8 = x \div (8 \div d)
         /\ (x * d + k - 1) % 8 = d * (x % (8 \div d)) + k - 1
         /\ x \div (8 \div d) \in Nat /\ x % (8 \div d) \in 0..((8 \div d) - 1)
<1>1. CASE d = 1
  BY <1>1
<1>2. CASE d = 2
  BY <1>2
<1>3. CASE d = 4
  BY <1>3
<1>4. CASE d = 8
  BY <1>4
<1> QED
  BY <1>1, <1>2, <1>3, <1>4

\* Shifts of a byte add up.
LEMMA ShiftsAdd ==
  ASSUME NEW v \in Octet, NEW s \in 0..7
  PROVE  /\ shr(v, s) \in Nat
         /\ \A t \in 0..3 : s + t <= 7 => shr(v, s + t) = shr(v, s) \div 2^t
<1>0. v \in 0..255
  BY DEF Octet
<1> DEFINE u(m) == v \div 2^m
<1>1. /\ u(0) = v /\ u(1) = v \div 2 /\ u(2) = v \div 4 /\ u(3) = v \div 8
      /\ u(4) = v \div 16 /\ u(5) = v \div 32 /\ u(6) = v \div 64 /\ u(7) = v \div 128
  BY <1>0, PowersAre
<1> HIDE DEF u
<1>2. /\ u(0) \in Nat /\ u(1) \in Nat /\ u(2) \in Nat /\ u(3) \in Nat
      /\ u(4) \in Nat /\ u(5) \in Nat /\ u(6) \in Nat /\ u(7) \in Nat
  BY <1>0, <1>1
<1>3. /\ u(1) = u(0) \div 2 /\ u(2) = u(1) \div 2 /\ u(3) = u(2) \div 2
      /\ u(4) = u(3) \div 2 /\ u(5) = u(4) \div 2 /\ u(6) = u(5) \div 2
      /\ u(7) = u(6) \div 2
  BY <1>0, <1>1
<1>4. \A m \in 0..7 : u(m) \in Nat
  BY <1>2
<1>5. \A m \in 0..6 : u(m + 1) = u(m) \div 2
  BY <1>3
<1>6. ASSUME NEW t \in 0..3, s + t <= 7 PROVE u(s + t) = u(s) \div 2^t
  <2>1. CASE t = 0
    BY <1>4, <2>1, PowersAre
  <2>2. CASE t = 1
    BY <1>5, <1>6, <2>2, PowersAre
  <2>3. CASE t = 2
    <3>1. u(s + 1) = u(s) \div 2 /\ u(s + 1 + 1) = u(s + 1) \div 2 /\ s + 1 + 1 = s + 2
      BY <1>5, <1>6, <2>3
    <3> QED
      BY <1>4, <2>3, <3>1, PowersAre
  <2>4. CASE t = 3
    <3>1. /\ u(s + 1) = u(s) \div 2 /\ u(s + 1 + 1) = u(s + 1) \div 2
          /\ u(s + 2 + 1) = u(s + 2) \div 2
          /\ s + 1 + 1 = s + 2 /\ s + 2 + 1 = s + 3
      BY <1>5, <1>6, <2>4
    <3> QED
      BY <1>4, <2>4, <3>1, PowersAre
  <2> QED
    BY <2>1, <2>2, <2>3, <2>4
<1> QED
  BY <1>4, <1>6 DEF u, shr

\* A number of d bits is the sum of its bits.
LEMMA BitsOfNumber ==
  ASSUME NEW u \in Nat, NEW d \in {1, 2, 4}, NEW w,
         \A k \in 1..d : w[k] = ((u \div 2^(d - k)) % 2) * 2^(d - k)
  PROVE  SumTo(w, d) = u % 2^d
<1>1. CASE d = 1
  <2>1. w[1] = u % 2
    BY <1>1, PowersAre
  <2>2. w[1] \in Int
    BY <2>1
  <2>3. SumTo(w, 1) = w[1]
    BY <2>2, FewTerms
  <2> QED
    BY <1>1, <2>1, <2>3, PowersAre
<1>2. CASE d = 2
  <2>1. w[1] = ((u \div 2) % 2) * 2 /\ w[2] = u % 2
    BY <1>2, PowersAre
  <2>2. w[1] \in Int /\ w[2] \in Int
    BY <2>1
  <2>3. SumTo(w, 2) = w[1] + w[2]
    BY <2>2, FewTerms
  <2> QED
    BY <1>2, <2>1, <2>3, PowersAre
<1>3. CASE d = 4
  <2>1. /\ w[1] = ((u \div 8) % 2) * 8 /\ w[2] = ((u \div 4) % 2) * 4
        /\ w[3] = ((u \div 2) % 2) * 2 /\ w[4] = u % 2
    BY <1>3, PowersAre
  <2>2. w[1] \in Int /\ w[2] \in Int /\ w[3] \in Int /\ w[4] \in Int
    BY <2>1
  <2>3. SumTo(w, 4) = w[1] + w[2] + w[3] + w[4]
    BY <2>2, FewTerms
  <2> QED
    BY <1>3, <2>1, <2>3, PowersAre
<1> QED
  BY <1>1, <1>2, <1>3

LEMMA BitsOfByte ==
  ASSUME NEW v \in Octet, NEW w, \A k \in 1..8 : w[k] = (shr(v, 8 - k) % 2) * 2^(8 - k)
  PROVE  SumTo(w, 8) = v
<1>0. v \in 0..255 /\ v \div 1 = v
  BY DEF Octet
<1>1. /\ w[1] = ((v \div 128) % 2) * 128 /\ w[2] = ((v \div 64) % 2) * 64
      /\ w[3] = ((v \div 32) % 2) * 32 /\ w[4] = ((v \div 16) % 2) * 16
      /\ w[5] = ((v \div 8) % 2) * 8 /\ w[6] = ((v \div 4) % 2) * 4
      /\ w[7] = ((v \div 2) % 2) * 2 /\ w[8] = v % 2
  BY <1>0, PowersAre DEF shr
<1>2. /\ w[1] \in Int /\ w[2] \in Int /\ w[3] \in Int /\ w[4] \in Int
      /\ w[5] \in Int /\ w[6] \in Int /\ w[7] \in Int /\ w[8] \in Int
  BY <1>0, <1>1
<1>3. SumTo(w, 8) = w[1] + w[2] + w[3] + w[4] + w[5] + w[6] + w[7] + w[8]
  <2>1. \A k \in 1..8 : w[k] \in Int
    BY <1>2
  <2> QED
    BY <2>1, FewTerms, Zenon
<1> QED
  BY <1>0, <1>1, <1>3

\* The byte a sample is in is one of its row.
LEMMA SampleByte ==
  ASSUME NEW p, IsImage(p), p.depth <= 8, p.channels = 1, NEW x \in 0..(p.width - 1)
  PROVE  x \div (8 \div p.depth) \in 0..(RowBytes(p) - 1)
<1>0. p.depth \in {1, 2, 4, 8} /\ p.width \in Nat \ {0} /\ x \in Nat /\ x < p.width
  BY DEF IsImage
<1>1. RowBytes(p) = (p.width * p.depth + 7) \div 8
  BY <1>0 DEF RowBytes
<1> DEFINE w == p.width
           d == p.depth
<1> HIDE DEF w, d
<1>2. d \in {1, 2, 4, 8} /\ w \in Nat \ {0} /\ x < w
  BY <1>0 DEF w, d
<1>3. x \div (8 \div d) \in 0..(((w * d + 7) \div 8) - 1)
  <2>1. CASE d = 1
    BY <1>2, <2>1
  <2>2. CASE d = 2
    BY <1>2, <2>2
  <2>3. CASE d = 4
    BY <1>2, <2>3
  <2>4. CASE d = 8
    BY <1>2, <2>4
  <2> QED
    BY <1>2, <2>1, <2>2, <2>3, <2>4
<1> QED
  BY <1>1, <1>3 DEF w, d

\* A sample as sample_at cuts it out, or as the byte it is.
CutOut(line, x, d) == IF d = 8 THEN line[x] ELSE sample_at(line, x, d)

\* What row_indices_ok and pxl_image_expand read is the sample of the picture.
LEMMA SampleIs ==
  ASSUME NEW p, IsImage(p), p.depth <= 8, p.channels = 1,
         NEW n \in 0..(p.width * p.height - 1)
  PROVE  /\ CutOut(p.rows[n \div p.width], n % p.width, p.depth) = SampleOf(p, n)
         /\ SampleOf(p, n) \in 0..(2^p.depth - 1)
<1> DEFINE d == p.depth
           x == n % p.width
           r == n \div p.width
           line == p.rows[r]
           b == x \div (8 \div d)
           j == x % (8 \div d)
           v == line[b]
           w == [k \in 1..d |-> BitOf(line, x * d + k - 1) * 2^(d - k)]
<1>0. d \in {1, 2, 4, 8}
  BY DEF IsImage
<1>1. x \in 0..(p.width - 1) /\ r \in 0..(p.height - 1)
  BY PixelPlace DEF IsImage
<1>2. b \in 0..(RowBytes(p) - 1)
  BY <1>1, SampleByte
<1>3. v \in Octet /\ v \in Nat
  <2>1. \A m \in 0..(p.height - 1), k \in 0..(RowBytes(p) - 1) : p.rows[m][k] \in Octet
    BY DEF IsImage
  <2> HIDE DEF b, r
  <2>2. v \in Octet
    BY <1>1, <1>2, <2>1, Zenon
  <2> QED
    BY <2>2 DEF Octet
<1>4. SampleOf(p, n) = SumTo(w, d)
  BY DEF SampleOf
<1>5. x \in Nat
  BY <1>1 DEF IsImage
<1> HIDE DEF d, x, r, line
<1>6. ASSUME NEW k \in 1..d PROVE w[k] = (shr(v, 7 - (d * j + k - 1)) % 2) * 2^(d - k)
  BY <1>0, <1>5, RowBits DEF BitOf
<1>7. j \in 0..((8 \div d) - 1)
  BY <1>0, <1>5, RowBits
<1>8. CASE d = 8
  <2>1. j = 0 /\ x \div 1 = x /\ v = line[x]
    BY <1>5, <1>7, <1>8
  <2>2. \A k \in 1..8 : w[k] = (shr(v, 8 - k) % 2) * 2^(8 - k)
    <3> HIDE DEF w, v, j
    <3>1. \A k \in 1..8 : 7 - (8 * 0 + k - 1) = 8 - k
      OBVIOUS
    <3> QED
      BY <1>6, <1>8, <2>1, <3>1
  <2>3. SumTo(w, 8) = v
    <3> HIDE DEF w, v
    <3> QED
      BY <1>3, <2>2, BitsOfByte
  <2> HIDE DEF w, v
  <2>4. SampleOf(p, n) = v /\ CutOut(line, x, d) = v
    BY <1>4, <1>8, <2>1, <2>3 DEF CutOut
  <2>5. v \in 0..(2^d - 1)
    BY <1>3, <1>8, PowersAre DEF Octet
  <2> QED
    BY <2>4, <2>5 DEF d, x, r, line
<1>9. CASE d # 8
  <2> DEFINE s == 8 - d * j - d
             u == shr(v, s)
  <2>0. d \in {1, 2, 4}
    BY <1>0, <1>9
  <2>1. s \in 0..7 /\ \A k \in 1..d : d - k \in 0..3 /\ s + (d - k) = 7 - (d * j + k - 1)
    <3> HIDE DEF j
    <3>1. CASE d = 1
      BY <1>7, <3>1
    <3>2. CASE d = 2
      BY <1>7, <3>2
    <3>3. CASE d = 4
      BY <1>7, <3>3
    <3> QED
      BY <2>0, <3>1, <3>2, <3>3
  <2>2. \A k \in 1..d : s + (d - k) <= 7
    <3> HIDE DEF j
    <3>1. CASE d = 1
      BY <1>7, <3>1
    <3>2. CASE d = 2
      BY <1>7, <3>2
    <3>3. CASE d = 4
      BY <1>7, <3>3
    <3> QED
      BY <2>0, <3>1, <3>2, <3>3
  <2>3. u \in Nat /\ \A t \in 0..3 : s + t <= 7 => shr(v, s + t) = u \div 2^t
    <3> HIDE DEF s, v
    <3> QED
      BY <1>3, <2>1, ShiftsAdd
  <2>4. \A k \in 1..d : w[k] = ((u \div 2^(d - k)) % 2) * 2^(d - k)
    <3> HIDE DEF w, u, v, s, j
    <3> TAKE k \in 1..d
    <3>1. d - k \in 0..3 /\ s + (d - k) = 7 - (d * j + k - 1) /\ s + (d - k) <= 7
      BY <2>1, <2>2
    <3>2. shr(v, s + (d - k)) = u \div 2^(d - k)
      BY <2>3, <3>1
    <3> QED
      BY <1>6, <3>1, <3>2
  <2>5. SumTo(w, d) = u % 2^d
    <3> HIDE DEF w, u
    <3> QED
      BY <2>0, <2>3, <2>4, BitsOfNumber
  <2>6. CutOut(line, x, d) = u % 2^d
    BY <1>9 DEF CutOut, sample_at
  <2>7. u % 2^d \in 0..(2^d - 1)
    <3> HIDE DEF u
    <3>1. CASE d = 1
      BY <2>3, <3>1, PowersAre
    <3>2. CASE d = 2
      BY <2>3, <3>2, PowersAre
    <3>3. CASE d = 4
      BY <2>3, <3>3, PowersAre
    <3> QED
      BY <2>0, <3>1, <3>2, <3>3
  <2> HIDE DEF w, u
  <2> QED
    BY <1>4, <2>5, <2>6, <2>7 DEF d, x, r, line
<1> QED
  BY <1>8, <1>9

\* Two bytes hold a number of 16 bits.
IsWord(v) == v \in Nat /\ v < 65536

BitsAt(v, m, n) == (v \div 2^m) % 2^n

LEMMA TwoBytes ==
  ASSUME NEW v, IsWord(v), NEW m, NEW n
  PROVE  Field(LittleEndian(v), m, n) = BitsAt(v, m, n)
<1> DEFINE q == LittleEndian(v)
<1>0. v \in Nat /\ v \div 256 \in 0..255
  BY DEF IsWord
<1>1. q = << v % 256, (v \div 256) % 256 >>
  BY <1>0, PowersAre DEF LittleEndian, shr
<1>2. q[1] = v % 256 /\ q[2] = (v \div 256) % 256
  BY <1>1
<1> HIDE DEF q
<1>3. q[1] + 256 * q[2] = v
  <2>1. (v % 256) + 256 * ((v \div 256) % 256) = v
    BY <1>0
  <2> QED
    BY <1>2, <2>1
<1>4. Field(q, m, n) = ((q[1] + 256 * q[2]) \div 2^m) % 2^n
  BY DEF Field, shr
<1> QED
  BY <1>3, <1>4 DEF BitsAt, q

\* A packed pixel stands for its colour.
LEMMA PackedStands ==
  ASSUME NEW f \in Formats, NEW r \in Octet, NEW g \in Octet, NEW b \in Octet, NEW a \in Octet
  PROVE  Stands(f, Packed(f, r, g, b, a), r, g, b, a)
<1>0. r \in 0..255 /\ g \in 0..255 /\ b \in 0..255 /\ a \in 0..255
  BY DEF Octet
<1>1. CASE f = "RGBA8888"
  BY <1>1 DEF Stands, Packed
<1>2. CASE f = "RGB565"
  <2> DEFINE red == r \div 8
             green == g \div 4
             blue == b \div 8
             v == red * 2048 + green * 32 + blue
  <2>1. Packed(f, r, g, b, a) = LittleEndian(v)
    BY <1>0, <1>2, PowersAre DEF Packed, shl, shr
  <2>2. red \in 0..31 /\ green \in 0..63 /\ blue \in 0..31
    BY <1>0
  <2>3. shr(r, 3) = red /\ shr(g, 2) = green /\ shr(b, 3) = blue
    BY PowersAre DEF shr
  <2> HIDE DEF red, green, blue
  <2>4. IsWord(v)
    BY <2>2 DEF IsWord
  <2>5. BitsAt(v, 11, 5) = red
    <3>1. v \div 2048 = red
      BY <2>2
    <3>2. red % 32 = red
      BY <2>2
    <3> HIDE DEF v
    <3> QED
      BY <3>1, <3>2, PowersAre DEF BitsAt
  <2>6. BitsAt(v, 5, 6) = green
    <3>1. v \div 32 = red * 64 + green
      BY <2>2
    <3>2. (red * 64 + green) % 64 = green
      BY <2>2
    <3> HIDE DEF v
    <3> QED
      BY <3>1, <3>2, PowersAre DEF BitsAt
  <2>7. BitsAt(v, 0, 5) = blue
    <3>1. v % 32 = blue /\ v \div 1 = v
      BY <2>2
    <3> HIDE DEF v
    <3> QED
      BY <3>1, PowersAre DEF BitsAt
  <2> HIDE DEF v
  <2>8. /\ Field(LittleEndian(v), 11, 5) = red
         /\ Field(LittleEndian(v), 5, 6) = green
         /\ Field(LittleEndian(v), 0, 5) = blue
    BY <2>4, <2>5, <2>6, <2>7, TwoBytes, Zenon
  <2> QED
    BY <1>2, <2>1, <2>3, <2>8 DEF Stands
<1>3. CASE f = "RGBA5551"
  <2> DEFINE red == r \div 8
             green == g \div 8
             blue == b \div 8
             opacity == a \div 128
             v == red * 2048 + green * 64 + blue * 2 + opacity
  <2>1. Packed(f, r, g, b, a) = LittleEndian(v)
    BY <1>0, <1>3, PowersAre DEF Packed, Pack5551, shl, shr
  <2>2. red \in 0..31 /\ green \in 0..31 /\ blue \in 0..31 /\ opacity \in 0..1
    BY <1>0
  <2>3. shr(r, 3) = red /\ shr(g, 3) = green /\ shr(b, 3) = blue /\ shr(a, 7) = opacity
    BY PowersAre DEF shr
  <2> HIDE DEF red, green, blue, opacity
  <2>4. IsWord(v)
    BY <2>2 DEF IsWord
  <2>5. BitsAt(v, 11, 5) = red
    <3>1. v \div 2048 = red
      BY <2>2
    <3>2. red % 32 = red
      BY <2>2
    <3> HIDE DEF v
    <3> QED
      BY <3>1, <3>2, PowersAre DEF BitsAt
  <2>6. BitsAt(v, 6, 5) = green
    <3>1. v \div 64 = red * 32 + green
      BY <2>2
    <3>2. (red * 32 + green) % 32 = green
      BY <2>2
    <3> HIDE DEF v
    <3> QED
      BY <3>1, <3>2, PowersAre DEF BitsAt
  <2>7. BitsAt(v, 1, 5) = blue
    <3>1. v \div 2 = red * 1024 + green * 32 + blue
      BY <2>2
    <3>2. (red * 1024 + green * 32 + blue) % 32 = blue
      BY <2>2
    <3> HIDE DEF v
    <3> QED
      BY <3>1, <3>2, PowersAre DEF BitsAt
  <2>8. BitsAt(v, 0, 1) = opacity
    <3>1. v % 2 = opacity /\ v \div 1 = v
      BY <2>2
    <3> HIDE DEF v
    <3> QED
      BY <3>1, PowersAre DEF BitsAt
  <2> HIDE DEF v
  <2>9. /\ Field(LittleEndian(v), 11, 5) = red
         /\ Field(LittleEndian(v), 6, 5) = green
         /\ Field(LittleEndian(v), 1, 5) = blue
         /\ Field(LittleEndian(v), 0, 1) = opacity
    BY <2>4, <2>5, <2>6, <2>7, <2>8, TwoBytes, Zenon
  <2> QED
    BY <1>3, <2>1, <2>3, <2>9 DEF Stands
<1>4. CASE f = "RGBA4444"
  <2> DEFINE red == r \div 16
             green == g \div 16
             blue == b \div 16
             opacity == a \div 16
             v == red * 4096 + green * 256 + blue * 16 + opacity
  <2>1. Packed(f, r, g, b, a) = LittleEndian(v)
    BY <1>0, <1>4, PowersAre DEF Packed, shl, shr
  <2>2. red \in 0..15 /\ green \in 0..15 /\ blue \in 0..15 /\ opacity \in 0..15
    BY <1>0
  <2>3. shr(r, 4) = red /\ shr(g, 4) = green /\ shr(b, 4) = blue /\ shr(a, 4) = opacity
    BY PowersAre DEF shr
  <2> HIDE DEF red, green, blue, opacity
  <2>4. IsWord(v)
    BY <2>2 DEF IsWord
  <2>5. BitsAt(v, 12, 4) = red
    <3>1. v \div 4096 = red
      BY <2>2
    <3>2. red % 16 = red
      BY <2>2
    <3> HIDE DEF v
    <3> QED
      BY <3>1, <3>2, PowersAre DEF BitsAt
  <2>6. BitsAt(v, 8, 4) = green
    <3>1. v \div 256 = red * 16 + green
      BY <2>2
    <3>2. (red * 16 + green) % 16 = green
      BY <2>2
    <3> HIDE DEF v
    <3> QED
      BY <3>1, <3>2, PowersAre DEF BitsAt
  <2>7. BitsAt(v, 4, 4) = blue
    <3>1. v \div 16 = red * 256 + green * 16 + blue
      BY <2>2
    <3>2. (red * 256 + green * 16 + blue) % 16 = blue
      BY <2>2
    <3> HIDE DEF v
    <3> QED
      BY <3>1, <3>2, PowersAre DEF BitsAt
  <2>8. BitsAt(v, 0, 4) = opacity
    <3>1. v % 16 = opacity /\ v \div 1 = v
      BY <2>2
    <3> HIDE DEF v
    <3> QED
      BY <3>1, PowersAre DEF BitsAt
  <2> HIDE DEF v
  <2>9. /\ Field(LittleEndian(v), 12, 4) = red
         /\ Field(LittleEndian(v), 8, 4) = green
         /\ Field(LittleEndian(v), 4, 4) = blue
         /\ Field(LittleEndian(v), 0, 4) = opacity
    BY <2>4, <2>5, <2>6, <2>7, <2>8, TwoBytes, Zenon
  <2> QED
    BY <1>4, <2>1, <2>3, <2>9 DEF Stands
<1> QED
  BY <1>1, <1>2, <1>3, <1>4 DEF Formats

\* The bytes of a pixel of eight bits a channel.
LEMMA EightBitBytes ==
  ASSUME NEW p, IsImage(p), p.depth = 8, NEW x \in 0..(p.width - 1), NEW k \in 1..p.channels
  PROVE  x * p.channels + k - 1 \in 0..(RowBytes(p) - 1)
<1> DEFINE w == p.width
           c == p.channels
<1>1. w \in Nat \ {0} /\ c \in 1..4 /\ x \in 0..(w - 1) /\ k \in 1..c
      /\ RowBytes(p) = (w * c * 8 + 7) \div 8
  BY DEF IsImage, RowBytes
<1> HIDE DEF w, c
<1>2. x * c + k - 1 \in 0..(w * c - 1) /\ (w * c * 8 + 7) \div 8 = w * c
  <2>1. CASE c = 1
    BY <1>1, <2>1
  <2>2. CASE c = 2
    BY <1>1, <2>2
  <2>3. CASE c = 3
    BY <1>1, <2>3
  <2>4. CASE c = 4
    BY <1>1, <2>4
  <2> QED
    BY <1>1, <2>1, <2>2, <2>3, <2>4
<1> QED
  BY <1>1, <1>2 DEF w, c

\* What convert_row makes of a pixel: gray is red, green and blue, and a pixel
\* without alpha is opaque.
LEMMA ConvertStands ==
  ASSUME NEW f \in Formats, NEW c \in 1..4, NEW e, e = [k \in 1..c |-> e[k]],
         \A k \in 1..c : e[k] \in Octet
  PROVE  Stands(f, Convert(f, e), e[1], IF c <= 2 THEN e[1] ELSE e[2],
                IF c <= 2 THEN e[1] ELSE e[3], IF c \in {2, 4} THEN e[c] ELSE 255)
<1>1. Len(e) = c
  BY SeqIs
<1>2. 255 \in Octet
  BY DEF Octet
<1>3. CASE c = 1
  <2>1. e[1] \in Octet
    BY <1>3
  <2>2. Convert(f, e) = Packed(f, e[1], e[1], e[1], 255)
    BY <1>1, <1>3 DEF Convert
  <2> QED
    BY <1>2, <1>3, <2>1, <2>2, PackedStands
<1>4. CASE c = 2
  <2>1. e[1] \in Octet /\ e[2] \in Octet
    BY <1>4
  <2>2. Convert(f, e) = Packed(f, e[1], e[1], e[1], e[2])
    BY <1>1, <1>4 DEF Convert
  <2> QED
    BY <1>4, <2>1, <2>2, PackedStands
<1>5. CASE c = 3
  <2>1. e[1] \in Octet /\ e[2] \in Octet /\ e[3] \in Octet
    BY <1>5
  <2>2. Convert(f, e) = Packed(f, e[1], e[2], e[3], 255)
    BY <1>1, <1>5 DEF Convert
  <2> QED
    BY <1>2, <1>5, <2>1, <2>2, PackedStands
<1>6. CASE c = 4
  <2>1. e[1] \in Octet /\ e[2] \in Octet /\ e[3] \in Octet /\ e[4] \in Octet
    BY <1>6
  <2>2. Convert(f, e) = Packed(f, e[1], e[2], e[3], e[4])
    BY <1>1, <1>6 DEF Convert
  <2> QED
    BY <1>6, <2>1, <2>2, PackedStands
<1> QED
  BY <1>3, <1>4, <1>5, <1>6

------------------------------------------------------------------------------
(* The calls, pixel by pixel                                                 *)

LEMMA ImageFacts ==
  ASSUME CallOk
  PROVE  /\ IsImage(img) /\ Pixels \in Nat \ {0} /\ Total \in Nat /\ PaletteCount(img) \in Nat
         /\ img.palette # <<>> <=> PaletteCount(img) # 0
<1>1. IsImage(img)
  BY ImagesAssumption DEF CallOk
<1>2. Pixels \in Nat \ {0}
  <2>1. img.width \in Nat \ {0} /\ img.height \in Nat \ {0}
    BY <1>1 DEF IsImage
  <2> DEFINE w == img.width
             h == img.height
  <2> HIDE DEF w, h
  <2>2. w * h \in Nat /\ w * h >= w
    BY <2>1 DEF w, h
  <2> QED
    BY <2>1, <2>2 DEF Pixels, w, h
<1>3. PaletteCount(img) \in Nat /\ (img.palette # <<>> <=> PaletteCount(img) # 0)
  <2>1. img.palette \in Seq([1..3 -> Octet])
    BY <1>1 DEF IsImage
  <2> QED
    BY <2>1, EmptySeq DEF PaletteCount
<1> QED
  BY <1>1, <1>2, <1>3 DEF Total

\* A step of a call leaves what it was called with.
LEMMA SameCall ==
  ASSUME UNCHANGED <<img, call, fmt>>
  PROVE  /\ Pixels' = Pixels /\ Total' = Total /\ ToExpand' = ToExpand
         /\ InPalette(img)' = InPalette(img)
         /\ \A n, e : PixelDone(n, e)' = PixelDone(n, e)
<1>1. Pixels' = Pixels /\ ToExpand' = ToExpand /\ InPalette(img)' = InPalette(img)
  BY DEF Pixels, ToExpand
<1>2. Total' = Total
  BY <1>1 DEF Total
<1>3. \A v : Expanded(v)' = Expanded(v)
  BY DEF Expanded
<1>4. \A n : PlainPixel(n)' = PlainPixel(n)
  BY DEF PlainPixel
<1>5. \A n : ClutEntry(n)' = ClutEntry(n)
  BY DEF ClutEntry, ClutAlpha
<1>6. ASSUME NEW n, NEW e PROVE PixelDone(n, e)' = PixelDone(n, e)
  BY <1>1, <1>3, <1>4, <1>5 DEF PixelDone
<1> QED
  BY <1>1, <1>2, <1>6

LEMMA PutKeeps ==
  ASSUME PixelInv, NEW e, Put(e, Total), status \in {"called", "running"}, pos < Total,
         PixelDone(pos, e)
  PROVE  PixelInv'
<1>1. /\ result' = Append(result, e) /\ pos' = pos + 1
      /\ status' = (IF pos + 1 = Total THEN "returned" ELSE "running")
      /\ UNCHANGED <<img, call, fmt>>
  BY DEF Put
<1>2. /\ Total' = Total /\ Total \in Nat /\ pos \in Nat /\ Pixels' = Pixels
      /\ \A n, g : PixelDone(n, g)' = PixelDone(n, g)
  BY <1>1, SameCall, ImageFacts DEF PixelInv, CallOk
<1>3. /\ \E S : result \in Seq(S)
      /\ Len(result) = pos
  BY <1>2, SeqIs DEF PixelInv, CallOk
<1>4. /\ \E S : result' \in Seq(S)
      /\ Len(result') = pos + 1 /\ result'[pos + 1] = e
      /\ \A n \in 1..pos : result'[n] = result[n]
  <2>1. /\ \E S : Append(result, e) \in Seq(S)
        /\ Len(Append(result, e)) = Len(result) + 1
        /\ Append(result, e)[Len(result) + 1] = e
        /\ \A n \in 1..Len(result) : Append(result, e)[n] = result[n]
    BY <1>3, SeqGrows, ZenonT(40)
  <2> QED
    BY <1>1, <1>3, <2>1
<1>5. result' = [n \in 1..(pos + 1) |-> result'[n]]
  BY <1>4
<1>6. CallOk'
  <2>1. pos + 1 \in 0..Total /\ (pos + 1 # Total => pos + 1 < Total) /\ pos + 1 # 0
    BY <1>2
  <2>2. /\ img' \in Images
        /\ call' \in {"indices_ok", "expand", "palette", "rows"}
        /\ call' = "indices_ok" => img'.palette # <<>> /\ img'.depth <= 8
        /\ call' = "rows" => img'.palette = <<>> /\ img'.depth = 8
        /\ fmt' \in Formats
    BY <1>1 DEF PixelInv, CallOk
  <2> QED
    BY <1>1, <1>2, <1>5, <2>1, <2>2 DEF CallOk
<1>7. PixelsDone'
  <2>1. ASSUME NEW n \in 0..pos PROVE PixelDone(n, result'[n + 1])
    <3>1. CASE n = pos
      BY <1>4, <3>1
    <3>2. CASE n # pos
      <4>1. n \in 0..(pos - 1) /\ n + 1 \in 1..pos
        BY <1>2, <3>2
      <4>2. result'[n + 1] = result[n + 1]
        BY <1>4, <4>1
      <4>3. PixelDone(n, result[n + 1])
        BY <4>1, Zenon DEF PixelInv, PixelsDone
      <4> QED
        BY <4>2, <4>3
    <3> QED
      BY <3>1, <3>2
  <2>2. pos' - 1 = pos
    BY <1>1, <1>2
  <2>3. \A n \in 0..(pos' - 1) : PixelDone(n, result'[n + 1])
    BY <2>1, <2>2
  <2> QED
    BY <1>2, <2>3, Zenon DEF PixelsDone
<1>8. RefusedRightly'
  BY <1>1 DEF RefusedRightly
<1> QED
  BY <1>6, <1>7, <1>8 DEF PixelInv

LEMMA RefuseKeeps ==
  ASSUME PixelInv, Refuse, call = "indices_ok" => ~InPalette(img)
  PROVE  PixelInv'
<1>1. status' = "refused" /\ UNCHANGED <<img, call, fmt, pos, result>>
  BY DEF Refuse
<1>2. /\ Total' = Total /\ InPalette(img)' = InPalette(img)
      /\ \A n, g : PixelDone(n, g)' = PixelDone(n, g)
  BY <1>1, SameCall
<1>3. CallOk'
  BY <1>1, <1>2 DEF PixelInv, CallOk
<1>4. PixelsDone'
  BY <1>1, <1>2 DEF PixelInv, PixelsDone
<1>5. RefusedRightly'
  BY <1>1, <1>2 DEF RefusedRightly
<1> QED
  BY <1>3, <1>4, <1>5 DEF PixelInv

\* What the loops read is the sample of the picture.
LEMMA IndexIsSample ==
  ASSUME CallOk, img.palette # <<>> \/ img.depth < 8, NEW n \in 0..(Pixels - 1)
  PROVE  /\ Index(n % img.width, n \div img.width) = SampleOf(img, n)
         /\ SampleOf(img, n) \in 0..(2^img.depth - 1)
<1>1. IsImage(img) /\ img.depth <= 8 /\ img.channels = 1
  BY ImageFacts DEF IsImage
<1>2. n \in 0..(img.width * img.height - 1)
  BY DEF Pixels
<1>3. Index(n % img.width, n \div img.width)
        = CutOut(img.rows[n \div img.width], n % img.width, img.depth)
  BY DEF Index, CutOut
<1> QED
  BY <1>1, <1>2, <1>3, SampleIs

LEMMA PixelInvInit == PixelInit => PixelInv
<1> SUFFICES ASSUME PixelInit PROVE PixelInv
  OBVIOUS
<1>1. /\ img \in Images /\ status = "called" /\ pos = 0 /\ result = <<>>
      /\ call \in {"indices_ok", "expand", "palette", "rows"}
      /\ call = "indices_ok" => img.palette # <<>> /\ img.depth <= 8
      /\ call = "rows" => img.palette = <<>> /\ img.depth = 8
      /\ fmt \in Formats
  BY DEF PixelInit, Formats
<1>2. IsImage(img)
  BY <1>1, ImagesAssumption
<1>3. Total \in Nat
  BY <1>2 DEF Total, Pixels, PaletteCount, IsImage
<1>4. result = [n \in 1..pos |-> result[n]]
  BY <1>1
<1>5. CallOk
  BY <1>1, <1>3, <1>4 DEF CallOk
<1>6. PixelsDone
  BY <1>1 DEF PixelsDone
<1>7. RefusedRightly
  BY <1>1 DEF RefusedRightly
<1> QED
  BY <1>5, <1>6, <1>7 DEF PixelInv

LEMMA PixelInvNext == PixelInv /\ [PixelNext]_pixelVars => PixelInv'
<1> SUFFICES ASSUME PixelInv, [PixelNext]_pixelVars PROVE PixelInv'
  OBVIOUS
<1>0. CallOk /\ IsImage(img) /\ Pixels \in Nat \ {0} /\ pos \in Nat
  BY ImageFacts DEF PixelInv, CallOk
<1>1. CASE CheckIndex
  <2>1. call = "indices_ok" /\ status \in {"called", "running"} /\ Total = Pixels
    BY <1>1 DEF CheckIndex, Total
  <2>2. pos \in 0..(Pixels - 1) /\ pos < Total
    BY <1>0, <2>1 DEF CallOk
  <2>3. img.palette # <<>>
    BY <1>0, <2>1 DEF CallOk
  <2>4. Index(X, Y) = SampleOf(img, pos)
    BY <1>0, <2>2, <2>3, IndexIsSample DEF X, Y
  <2>5. CASE Index(X, Y) < PaletteCount(img)
    <3>1. Put(<<>>, Total) /\ PixelDone(pos, <<>>)
      BY <1>1, <2>1, <2>4, <2>5 DEF CheckIndex, PixelDone
    <3> QED
      BY <2>1, <2>2, <3>1, PutKeeps
  <2>6. CASE ~(Index(X, Y) < PaletteCount(img))
    <3>1. ~InPalette(img)
      BY <2>2, <2>4, <2>6 DEF InPalette, Pixels
    <3> QED
      BY <1>1, <2>6, <3>1, RefuseKeeps DEF CheckIndex
  <2> QED
    BY <2>5, <2>6
<1>2. CASE ExpandFails
  BY <1>2, RefuseKeeps DEF ExpandFails, Expanding
<1>3. CASE ExpandCopy
  <2>1. /\ call = "expand" /\ ~ToExpand /\ Total = Pixels /\ status' = "returned"
        /\ result' = [n \in 1..Pixels |-> PlainPixel(n - 1)] /\ pos' = Pixels
        /\ UNCHANGED <<img, call, fmt>>
    BY <1>3 DEF ExpandCopy, Expanding, Total
  <2>2. Total' = Total /\ ToExpand' = ToExpand
    BY <2>1, SameCall
  <2>3. result' = [n \in 1..Pixels |-> result'[n]]
    BY <2>1
  <2>4. CallOk'
    BY <1>0, <2>1, <2>2, <2>3 DEF CallOk
  <2>5. PixelsDone'
    BY <2>1, <2>2 DEF PixelsDone, PixelDone
  <2>6. RefusedRightly'
    BY <2>1 DEF RefusedRightly
  <2> QED
    BY <2>4, <2>5, <2>6 DEF PixelInv
<1>4. CASE ExpandPixel
  <2>1. /\ call = "expand" /\ status \in {"called", "running"} /\ ToExpand /\ Total = Pixels
        /\ Put(Expanded(Index(X, Y)), Total)
    BY <1>4 DEF ExpandPixel, Total
  <2>2. pos \in 0..(Pixels - 1) /\ pos < Total
    BY <1>0, <2>1 DEF CallOk
  <2>3. img.palette # <<>> \/ img.depth < 8
    BY <1>0, <2>1, ImageFacts DEF ToExpand
  <2>4. Index(X, Y) = SampleOf(img, pos)
    BY <1>0, <2>2, <2>3, IndexIsSample DEF X, Y
  <2>5. PixelDone(pos, Expanded(Index(X, Y)))
    BY <2>1, <2>4 DEF PixelDone
  <2> QED
    BY <2>1, <2>2, <2>5, PutKeeps
<1>5. CASE ConvertPixel
  <2>1. /\ call = "rows" /\ status \in {"called", "running"} /\ Total = Pixels
        /\ Put(Convert(fmt, PlainPixel(pos)), Total)
    BY <1>5 DEF ConvertPixel, Total
  <2>2. pos < Total
    BY <1>0, <2>1 DEF CallOk
  <2>3. PixelDone(pos, Convert(fmt, PlainPixel(pos)))
    BY <2>1 DEF PixelDone
  <2> QED
    BY <2>1, <2>2, <2>3, PutKeeps
<1>6. CASE ConvertNoPalette
  BY <1>6, RefuseKeeps DEF ConvertNoPalette
<1>7. CASE ConvertEntry
  <2>1. /\ call = "palette" /\ status \in {"called", "running"} /\ Total = PaletteCount(img)
        /\ Put(ClutEntry(pos + 1), Total) /\ img.palette # <<>>
    BY <1>7 DEF ConvertEntry, Total
  <2>2. pos < Total
    BY <1>0, <2>1, ImageFacts DEF CallOk
  <2>3. PixelDone(pos, ClutEntry(pos + 1))
    BY <2>1 DEF PixelDone
  <2> QED
    BY <2>1, <2>2, <2>3, PutKeeps
<1>8. CASE UNCHANGED pixelVars
  <2>1. UNCHANGED <<img, call, fmt>> /\ UNCHANGED <<status, pos, result>>
    BY <1>8 DEF pixelVars
  <2>2. /\ Total' = Total /\ InPalette(img)' = InPalette(img)
        /\ \A n, g : PixelDone(n, g)' = PixelDone(n, g)
    BY <2>1, SameCall
  <2>3. CallOk'
    BY <2>1, <2>2 DEF PixelInv, CallOk
  <2>4. PixelsDone'
    BY <2>1, <2>2 DEF PixelInv, PixelsDone
  <2>5. RefusedRightly'
    BY <2>1, <2>2 DEF PixelInv, RefusedRightly
  <2> QED
    BY <2>3, <2>4, <2>5 DEF PixelInv
<1> QED
  BY <1>1, <1>2, <1>3, <1>4, <1>5, <1>6, <1>7, <1>8 DEF PixelNext

------------------------------------------------------------------------------
(* What is shown                                                             *)

LEMMA CheckExact == PixelInv => IndexCheckIsExact
<1> SUFFICES ASSUME PixelInv, call = "indices_ok", status \in {"refused", "returned"}
             PROVE  status = "returned" <=> InPalette(img)
  BY DEF IndexCheckIsExact
<1>1. CASE status = "refused"
  BY <1>1 DEF PixelInv, RefusedRightly
<1>2. CASE status = "returned"
  <2>1. pos = Pixels
    BY <1>2 DEF PixelInv, CallOk, Total
  <2>2. \A n \in 0..(Pixels - 1) : SampleOf(img, n) < PaletteCount(img)
    BY <2>1 DEF PixelInv, PixelsDone, PixelDone
  <2> QED
    BY <1>2, <2>2 DEF InPalette, Pixels
<1> QED
  BY <1>1, <1>2

\* An entry of the palette, with its alpha.
LEMMA EntryShows ==
  ASSUME NEW e \in [1..3 -> Octet], NEW a
  PROVE  /\ SubSeq(e \o <<>>, 1, 3) = e /\ Len(e \o <<>>) = 3
         /\ SubSeq(e \o <<a>>, 1, 3) = e /\ Len(e \o <<a>>) = 4 /\ (e \o <<a>>)[4] = a
<1>1. e \in Seq(Octet) /\ Len(e) = 3
  <2>1. e = [k \in 1..3 |-> e[k]] /\ \A k \in 1..3 : e[k] \in Octet
    OBVIOUS
  <2> QED
    BY <2>1
<1>2. e \o <<>> = e /\ SubSeq(e, 1, 3) = e
  BY <1>1
<1>3. /\ Len(e \o <<a>>) = 4 /\ (e \o <<a>>)[4] = a
      /\ \A k \in 1..3 : (e \o <<a>>)[k] = e[k]
  <2> DEFINE S == Octet \cup {a}
             t == e \o <<a>>
  <2>1. e \in Seq(S) /\ <<a>> \in Seq(S) /\ Len(<<a>>) = 1 /\ <<a>>[1] = a
    BY <1>1
  <2> HIDE DEF S
  <2>2. /\ Len(t) = Len(e) + Len(<<a>>)
        /\ \A k \in 1..(Len(e) + Len(<<a>>)) :
             t[k] = IF k <= Len(e) THEN e[k] ELSE <<a>>[k - Len(e)]
    BY <2>1, ConcatProperties
  <2> HIDE DEF t
  <2>3. Len(t) = 4 /\ t[4] = a /\ \A k \in 1..3 : t[k] = e[k]
    BY <1>1, <2>1, <2>2
  <2> QED
    BY <2>3 DEF t
<1>4. SubSeq(e \o <<a>>, 1, 3) = e
  BY <1>1, <1>3
<1> QED
  BY <1>1, <1>2, <1>3, <1>4

\* What a pixel of an expanded image has to be.
Shows(s, e) ==
  IF img.palette = <<>>
    THEN e = <<s * (255 \div (2^img.depth - 1))>>
    ELSE /\ SubSeq(e, 1, 3) = img.palette[s + 1]
         /\ (IF Len(e) = 4 THEN e[4] ELSE 255) = AlphaOf(img, s)

LEMMA ExpandedShows ==
  ASSUME CallOk, ToExpand, NEW s \in 0..(2^img.depth - 1),
         img.palette # <<>> => s < PaletteCount(img)
  PROVE  Shows(s, Expanded(s))
<1>0. IsImage(img)
  BY ImageFacts
<1>1. CASE img.palette = <<>>
  <2>1. PaletteCount(img) = 0 /\ img.depth \in {1, 2, 4}
    BY <1>0, <1>1, ImageFacts DEF ToExpand, IsImage
  <2>2. Expanded(s) = << (s * 255) \div (2^img.depth - 1) >>
    BY <2>1 DEF Expanded
  <2>3. (s * 255) \div (2^img.depth - 1) = s * (255 \div (2^img.depth - 1))
    <3>1. CASE img.depth = 1
      BY <3>1, PowersAre
    <3>2. CASE img.depth = 2
      BY <3>2, PowersAre
    <3>3. CASE img.depth = 4
      BY <3>3, PowersAre
    <3> QED
      BY <2>1, <3>1, <3>2, <3>3
  <2> QED
    BY <1>1, <2>2, <2>3, Zenon DEF Shows
<1>2. CASE img.palette # <<>>
  <2> DEFINE c == PaletteCount(img)
             e == img.palette[s + 1]
             a == AlphaOf(img, s)
  <2>1. c \in Nat /\ c > 0 /\ s < c
    BY <1>2, ImageFacts
  <2>2. s \in Nat
    <3>1. 2^img.depth \in Nat
      <4>1. img.depth \in {1, 2, 4, 8}
        BY <1>0, <1>2 DEF IsImage
      <4> QED
        BY <4>1, PowersAre
    <3> QED
      BY <3>1
  <2>3. e \in [1..3 -> Octet]
    <3>1. img.palette \in Seq([1..3 -> Octet]) /\ s + 1 \in 1..Len(img.palette)
      BY <1>0, <2>1, <2>2 DEF IsImage, PaletteCount
    <3> QED
      BY <3>1
  <2>4. Expanded(s) = e \o (IF img.alpha = <<>> THEN <<>> ELSE <<a>>)
    <3>1. ~(s >= c)
      BY <2>1, <2>2
    <3> QED
      BY <2>1, <3>1 DEF Expanded, AlphaOf
  <2>5. img.alpha = <<>> => a = 255
    BY <2>2 DEF AlphaOf
  <2> HIDE DEF a, e, c
  <2>6. CASE img.alpha = <<>>
    <3>1. Expanded(s) = e \o <<>>
      BY <2>4, <2>6
    <3> QED
      BY <1>2, <2>3, <2>5, <2>6, <3>1, EntryShows DEF Shows, e, a
  <2>7. CASE img.alpha # <<>>
    <3>1. Expanded(s) = e \o <<a>>
      BY <2>4, <2>7
    <3> QED
      BY <1>2, <2>3, <3>1, EntryShows DEF Shows, e, a
  <2> QED
    BY <2>6, <2>7
<1> QED
  BY <1>1, <1>2

LEMMA ExpandShows == PixelInv => ExpandShowsPicture
<1> SUFFICES ASSUME PixelInv, call = "expand", status = "returned", ToExpand,
                    img.palette # <<>> => InPalette(img)
             PROVE  /\ Len(result) = Pixels
                    /\ \A n \in 0..(Pixels - 1) : Shows(SampleOf(img, n), result[n + 1])
  BY DEF ExpandShowsPicture, Shows
<1>1. CallOk /\ pos = Pixels /\ Pixels \in Nat /\ IsImage(img)
  BY ImageFacts DEF PixelInv, CallOk, Total
<1>2. Len(result) = Pixels
  BY <1>1, SeqIs DEF CallOk
<1>3. ASSUME NEW n \in 0..(Pixels - 1) PROVE Shows(SampleOf(img, n), result[n + 1])
  <2>1. result[n + 1] = Expanded(SampleOf(img, n))
    BY <1>1 DEF PixelInv, PixelsDone, PixelDone
  <2>2. img.palette # <<>> \/ img.depth < 8
    BY <1>1, ImageFacts DEF ToExpand
  <2>3. SampleOf(img, n) \in 0..(2^img.depth - 1)
    BY <1>1, <2>2, IndexIsSample
  <2>4. img.palette # <<>> => SampleOf(img, n) < PaletteCount(img)
    BY DEF InPalette, Pixels
  <2> QED
    BY <1>1, <2>1, <2>3, <2>4, ExpandedShows
<1> QED
  BY <1>2, <1>3

\* A pixel of eight bits a channel, byte by byte.
LEMMA PlainBytes ==
  ASSUME CallOk, img.depth = 8, NEW n \in 0..(Pixels - 1)
  PROVE  /\ PlainPixel(n) = [k \in 1..img.channels |-> PlainPixel(n)[k]]
         /\ \A k \in 1..img.channels : PlainPixel(n)[k] \in Octet
<1> DEFINE x == n % img.width
           r == n \div img.width
           c == img.channels
<1>1. IsImage(img) /\ x \in 0..(img.width - 1) /\ r \in 0..(img.height - 1)
  BY ImageFacts, PixelPlace DEF IsImage, Pixels
<1>2. c * BytesPerChannel(img) = c
  BY <1>1 DEF BytesPerChannel, IsImage
<1> HIDE DEF x, r, c
<1>3. PlainPixel(n) = [k \in 1..c |-> img.rows[r][x * c + k - 1]]
  BY <1>2 DEF PlainPixel, x, r, c
<1>4. \A k \in 1..c : x * c + k - 1 \in 0..(RowBytes(img) - 1)
  BY <1>1, EightBitBytes DEF c
<1>5. \A m \in 0..(img.height - 1), k \in 0..(RowBytes(img) - 1) : img.rows[m][k] \in Octet
  BY <1>1 DEF IsImage
<1>6. \A k \in 1..c : img.rows[r][x * c + k - 1] \in Octet
  BY <1>1, <1>4, <1>5, Zenon
<1> QED
  BY <1>3, <1>6 DEF c

\* A colour and its alpha.
LEMMA FourBytes ==
  ASSUME NEW e \in [1..3 -> Octet], NEW a \in Octet
  PROVE  LET q == Append(e, a)
         IN  /\ q = [k \in 1..4 |-> q[k]] /\ (\A k \in 1..4 : q[k] \in Octet)
             /\ q[1] = e[1] /\ q[2] = e[2] /\ q[3] = e[3] /\ q[4] = a
<1> DEFINE q == Append(e, a)
<1>1. e \in Seq(Octet) /\ Len(e) = 3
  <2>1. e = [k \in 1..3 |-> e[k]] /\ \A k \in 1..3 : e[k] \in Octet
    OBVIOUS
  <2> QED
    BY <2>1
<1>2. /\ q \in Seq(Octet) /\ Len(q) = Len(e) + 1 /\ q[Len(e) + 1] = a
      /\ \A k \in 1..Len(e) : q[k] = e[k]
  <2>1. e \in Seq(Octet)
    BY <1>1
  <2> QED
    BY <2>1, AppendProperties
<1> HIDE DEF q
<1>3. /\ q \in Seq(Octet) /\ Len(q) = 4 /\ q[4] = a
      /\ \A k \in 1..3 : q[k] = e[k]
  BY <1>1, <1>2
<1>4. q = [k \in 1..4 |-> q[k]] /\ (\A k \in 1..4 : q[k] \in Octet)
  BY <1>3
<1>5. q[1] = e[1] /\ q[2] = e[2] /\ q[3] = e[3]
  BY <1>3
<1> QED
  BY <1>3, <1>4, <1>5 DEF q

LEMMA PackedShows == PixelInv => PackedStandsForColours
<1> SUFFICES ASSUME PixelInv PROVE PackedStandsForColours
  OBVIOUS
<1>0. CallOk /\ IsImage(img) /\ pos \in Nat /\ Len(result) = pos /\ fmt \in Formats
  BY ImageFacts, SeqIs DEF PixelInv, CallOk
<1>1. ASSUME call = "rows", NEW n \in 1..Len(result)
      PROVE  LET p == PlainPixel(n - 1)
                 gray == img.channels <= 2
             IN  Stands(fmt, result[n], p[1], IF gray THEN p[1] ELSE p[2],
                        IF gray THEN p[1] ELSE p[3],
                        IF img.channels \in {2, 4} THEN p[img.channels] ELSE 255)
  <2> DEFINE p == PlainPixel(n - 1)
  <2>1. n - 1 \in 0..(Pixels - 1) /\ n - 1 \in 0..(pos - 1) /\ (n - 1) + 1 = n
    BY <1>0, <1>1, ImageFacts DEF CallOk, Total
  <2>2. img.depth = 8 /\ img.channels \in 1..4
    BY <1>0, <1>1 DEF CallOk, IsImage
  <2>3. p = [k \in 1..img.channels |-> p[k]] /\ \A k \in 1..img.channels : p[k] \in Octet
    BY <1>0, <2>1, <2>2, PlainBytes
  <2>4. result[n] = Convert(fmt, p)
    BY <1>1, <2>1 DEF PixelInv, PixelsDone, PixelDone
  <2> HIDE DEF p
  <2>5. Stands(fmt, Convert(fmt, p), p[1], IF img.channels <= 2 THEN p[1] ELSE p[2],
               IF img.channels <= 2 THEN p[1] ELSE p[3],
               IF img.channels \in {2, 4} THEN p[img.channels] ELSE 255)
    BY <1>0, <2>2, <2>3, ConvertStands
  <2> QED
    BY <2>4, <2>5 DEF p
<1>2. ASSUME call = "palette", Len(img.alpha) \in {0, PaletteCount(img)},
             NEW n \in 1..Len(result)
      PROVE  Stands(fmt, result[n], img.palette[n][1], img.palette[n][2],
                    img.palette[n][3], AlphaOf(img, n - 1))
  <2> DEFINE e == img.palette[n]
             a == AlphaOf(img, n - 1)
             c == PaletteCount(img)
  <2>1. n - 1 \in 0..(pos - 1) /\ (n - 1) + 1 = n /\ n \in 1..c /\ c \in Nat
    BY <1>0, <1>2, ImageFacts DEF CallOk, Total
  <2>2. e \in [1..3 -> Octet] /\ img.alpha \in Seq(Octet)
    <3>1. img.palette \in Seq([1..3 -> Octet]) /\ img.alpha \in Seq(Octet)
      BY <1>0 DEF IsImage
    <3> QED
      BY <2>1, <3>1 DEF PaletteCount
  <2>3. result[n] = ClutEntry(n)
    BY <1>2, <2>1 DEF PixelInv, PixelsDone, PixelDone
  <2>4. a \in Octet /\ (IF ClutAlpha = <<>> THEN 255 ELSE ClutAlpha[n]) = a
    <3>1. CASE Len(img.alpha) = 0
      <4>1. ClutAlpha = <<>> /\ a = 255
        BY <2>1, <2>2, <3>1 DEF ClutAlpha, AlphaOf
      <4> QED
        BY <4>1 DEF Octet
    <3>2. CASE Len(img.alpha) = c
      <4>1. img.alpha # <<>> /\ ClutAlpha = img.alpha
        BY <2>1, <2>2, <3>2 DEF ClutAlpha
      <4>2. a = img.alpha[n]
        BY <2>1, <2>2, <3>2 DEF AlphaOf
      <4>3. img.alpha[n] \in Octet
        BY <2>1, <2>2, <3>2
      <4> QED
        BY <4>1, <4>2, <4>3
    <3> QED
      BY <1>2, <3>1, <3>2
  <2> HIDE DEF e, a, c
  <2>5. ClutEntry(n) = Convert(fmt, Append(e, a))
    BY <2>4 DEF ClutEntry, e
  <2> DEFINE q == Append(e, a)
  <2>6. /\ q = [k \in 1..4 |-> q[k]] /\ (\A k \in 1..4 : q[k] \in Octet)
        /\ q[1] = e[1] /\ q[2] = e[2] /\ q[3] = e[3] /\ q[4] = a
    BY <2>2, <2>4, FourBytes
  <2> HIDE DEF q
  <2>7. Stands(fmt, Convert(fmt, q), q[1], q[2], q[3], q[4])
    <3>1. 4 \in 1..4
      OBVIOUS
    <3>2. Stands(fmt, Convert(fmt, q), q[1], IF 4 <= 2 THEN q[1] ELSE q[2],
                 IF 4 <= 2 THEN q[1] ELSE q[3], IF 4 \in {2, 4} THEN q[4] ELSE 255)
      BY <1>0, <2>6, <3>1, ConvertStands
    <3> QED
      BY <3>2
  <2> QED
    BY <2>3, <2>5, <2>6, <2>7 DEF q, e, a
<1> QED
  BY <1>1, <1>2 DEF PackedStandsForColours

\* The inductive invariant of row_indices_ok, pxl_image_expand and the
\* conversions: pixel for pixel, the output is what the picture has there.
THEOREM PixelsSafe == PixelSpec => []PixelInv
<1> QED
  BY PixelInvInit, PixelInvNext, PTL DEF PixelSpec

\* A caller is told, and shown, the picture: indices are accepted exactly if they
\* are of the palette, an expanded image has the colours and alphas of its
\* samples, and a packed pixel stands for its colour (row_indices_ok,
\* pxl_image_expand, convert_row, pxl_convert_palette), for every image.
THEOREM PicturesAreShown == PixelSpec => []PixelsAreShown
<1>1. PixelInv => PixelsAreShown
  BY CheckExact, ExpandShows, PackedShows DEF PixelsAreShown
<1> QED
  BY <1>1, PixelsSafe, PTL
==============================================================================
