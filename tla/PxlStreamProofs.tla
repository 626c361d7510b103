--------------------------- MODULE PxlStreamProofs ---------------------------
(***************************************************************************)
(* Safety of the push decoder for every set of files, every window size    *)
(* and every way of chunking.                                              *)
(***************************************************************************)
EXTENDS PxlStream, PxlFileProofs, SequenceTheorems, TLAPS

------------------------------------------------------------------------------
(* Steps                                                                     *)

\* What every file offers, and what no step changes.
LEMMA FileFacts ==
  ASSUME file \in Files
  PROVE  /\ H \in Headers
         /\ IsFrame(file.frame)
         /\ PaletteBytes(H) \in Nat /\ H.meta_byte_count \in Nat
         /\ H.height \in Nat /\ H.raw_byte_count \in Nat
         /\ FileLength \in Nat
         /\ PXL_HEADER_BYTES \in Nat \ {0}
<1>1. H \in Headers /\ IsFrame(file.frame) /\ file.trailing \in Nat
  BY FilesAssumption DEF IsFile, H
<1>2. /\ PaletteBytes(H) \in Nat /\ H.meta_byte_count \in Nat
      /\ H.height \in Nat /\ H.raw_byte_count \in Nat
  BY <1>1 DEF Headers, PaletteBytes
<1>3. file.frame.n \in Nat /\ PXL_HEADER_BYTES \in Nat \ {0}
  BY <1>1, FormatAssumption DEF IsFrame
<1>4. FileLength \in Nat
  BY <1>1, <1>2, <1>3 DEF FileLength, FrameOffset
<1>5. QED
  BY <1>1, <1>2, <1>3, <1>4

LEMMA FileFixed ==
  ASSUME UNCHANGED fileVars
  PROVE  /\ file' = file /\ out_fmt' = out_fmt
         /\ H' = H /\ F' = F /\ Bcif' = Bcif /\ Window' = Window
         /\ FileLength' = FileLength /\ AllRows' = AllRows
         /\ RawSize' = RawSize
BY DEF fileVars, H, F, Bcif, Window, FileLength, FrameOffset, AllRows, RawSize

\* Steps that leave the frame and the callback alone: the header, palette and
\* metadata sections, and the bookkeeping of a call.
LEMMA QuietStep ==
  ASSUME WindowAligned, RowsInOrder, OnlyGoodRows, CompleteInOrder,
         UNCHANGED <<fileVars, filtered_have, rows_done, frame_done, ds, delivered>>
  PROVE  /\ state' = state => WindowAligned'
         /\ RowsInOrder' /\ OnlyGoodRows'
         /\ state' = state /\ finished' = finished /\ pc' # "frame"
              => CompleteInOrder'
<1>1. /\ file' = file /\ H' = H /\ F' = F /\ Bcif' = Bcif /\ Window' = Window
  BY FileFixed
<1>2. /\ filtered_have' = filtered_have /\ rows_done' = rows_done
      /\ frame_done' = frame_done /\ ds' = ds /\ delivered' = delivered
  OBVIOUS
<1>3. state' = state => WindowAligned'
  BY <1>1, <1>2 DEF WindowAligned, ContextOk, DecodedTo, FrameComplete
<1>4. RowsInOrder' /\ OnlyGoodRows'
  BY <1>1, <1>2 DEF RowsInOrder, OnlyGoodRows, Row
<1>5. state' = state /\ finished' = finished /\ pc' # "frame" => CompleteInOrder'
  BY <1>1, <1>2 DEF CompleteInOrder, FinishReady
<1>6. QED
  BY <1>3, <1>4, <1>5

LEMMA FeedStepKeeps ==
  ASSUME StreamInv, NEW n \in 1..(FileLength - fed), Feed(n)
  PROVE  StreamInv'
<1>1. /\ H' = H /\ FileLength' = FileLength /\ file' = file /\ out_fmt' = out_fmt
  BY FileFixed DEF Feed
<1>2. FileLength \in Nat /\ PaletteBytes(H) \in Nat /\ H.meta_byte_count \in Nat
  BY FileFacts DEF StreamInv, TypeOK
<1>3. TypeOK'
  BY <1>1, <1>2 DEF StreamInv, TypeOK, Feed, streamVars
<1>4. SectionsInOrder'
  BY <1>1 DEF StreamInv, SectionsInOrder, Feed, streamVars
<1>5. CallInOrder'
  BY <1>2 DEF StreamInv, TypeOK, CallInOrder, Feed, streamVars, Contexts
<1>6. WindowAligned' /\ RowsInOrder' /\ OnlyGoodRows' /\ CompleteInOrder'
  BY QuietStep DEF StreamInv, Feed, streamVars
<1>7. QED
  BY <1>3, <1>4, <1>5, <1>6 DEF StreamInv

\* A section takes no more than the chunk has and no more than it still needs.
LEMMA SectionTakes ==
  ASSUME len \in Nat, NEW all \in Nat, NEW have \in 0..all,
         NEW take, take = Take(all - have)
  PROVE  /\ take \in Nat /\ len - take \in Nat
         /\ have + take \in 0..all
         /\ have + take >= all => have + take = all
BY DEF Take, Smaller

\* A call goes on with what is left of the chunk, or is over.
LEMMA ContinueOrLeave ==
  ASSUME NEW left \in Nat, Continue(left) \/ Leave
  PROVE  /\ pc' \in {"idle", "loop"}
         /\ len' \in Nat /\ len' <= left
         /\ pc' = "idle" => len' = 0
BY DEF Continue, Leave

\* The bytes accounted for stay within the bytes fed when one section grows by
\* what the chunk loses.
LEMMA Accounting ==
  ASSUME NEW a \in Nat, NEW b \in Nat, NEW c \in Nat, NEW d \in Nat,
         NEW l \in Nat, NEW take \in Nat, NEW left \in Nat, NEW total \in Nat,
         left <= l - take, a + b + c + d + (l - 0) <= total
  PROVE  /\ (a + take) + b + c + d + (left - 0) <= total
         /\ a + (b + take) + c + d + (left - 0) <= total
         /\ a + b + (c + take) + d + (left - 0) <= total
         /\ a + b + c + d + (left - 0) <= total
OBVIOUS

\* The types of what a section handler works on.
LEMMA SectionTypes ==
  ASSUME StreamInv, pc = "loop"
  PROVE  /\ file \in Files
         /\ hdr_have \in 0..PXL_HEADER_BYTES
         /\ pal_have \in 0..PaletteBytes(H)
         /\ meta_have \in 0..H.meta_byte_count
         /\ hdr_have \in Nat /\ pal_have \in Nat /\ meta_have \in Nat
         /\ ds.in \in Nat /\ len \in Nat /\ fed \in Nat
         /\ PaletteBytes(H) \in Nat /\ H.meta_byte_count \in Nat
         /\ PXL_HEADER_BYTES \in Nat
         /\ in_pos = 0
         /\ hdr_have + pal_have + meta_have + ds.in + (len - 0) <= fed
<1>1. /\ FileLength \in Nat /\ PaletteBytes(H) \in Nat /\ H.meta_byte_count \in Nat
      /\ PXL_HEADER_BYTES \in Nat \ {0}
  BY FileFacts DEF StreamInv, TypeOK
<1>2. /\ file \in Files
      /\ hdr_have \in 0..PXL_HEADER_BYTES
      /\ pal_have \in 0..PaletteBytes(H)
      /\ meta_have \in 0..H.meta_byte_count
      /\ ds.in \in Nat /\ len \in Nat /\ fed \in 0..FileLength
  BY DEF StreamInv, TypeOK, Contexts
<1>3. /\ in_pos = 0
      /\ hdr_have + pal_have + meta_have + ds.in + (len - in_pos) <= fed
  BY DEF StreamInv, CallInOrder
<1>4. QED
  BY <1>1, <1>2, <1>3

\* The header section: it takes its bytes, or starts the palette, or fails.
LEMMA FeedHeaderKeeps ==
  ASSUME StreamInv, FeedHeader
  PROVE  StreamInv'
<1> DEFINE all  == PXL_HEADER_BYTES
           take == Take(all - hdr_have)
<1>1. /\ H' = H /\ FileLength' = FileLength /\ file' = file /\ out_fmt' = out_fmt
      /\ fed' = fed /\ delivered' = delivered /\ finished' = finished
      /\ pal_have' = pal_have /\ meta_have' = meta_have /\ ds' = ds
      /\ filtered_have' = filtered_have /\ rows_done' = rows_done
      /\ frame_done' = frame_done /\ in_pos' = in_pos
  BY FileFixed DEF FeedHeader, seenVars
<1>2. /\ state = "HEADER" /\ pc = "loop"
      /\ hdr_have' = hdr_have + take
      /\ \/ Leave /\ state' = state
         \/ Fail
         \/ /\ hdr_have + take >= all
            /\ Decodable(H) /\ OutputFormatOk(H, out_fmt)
            /\ state' = "PALETTE" /\ Continue(len - take)
  BY DEF FeedHeader, StreamBegin
<1>3. /\ take \in Nat /\ len - take \in Nat
      /\ hdr_have' \in 0..all
      /\ hdr_have + take >= all => hdr_have' = all
  <2>1. len \in Nat /\ all \in Nat /\ hdr_have \in 0..all
    BY <1>2, SectionTypes
  <2> HIDE DEF all
  <2>2. QED
    BY <1>2, <2>1, SectionTakes
<1> HIDE DEF take, all
<1>4. /\ pc' \in {"idle", "loop"}
      /\ len' \in Nat /\ len' <= len - take
      /\ pc' = "idle" => len' = 0
  BY <1>2, <1>3, ContinueOrLeave DEF Fail
<1>5. /\ state' \in {"HEADER", "PALETTE", "ERROR"}
      /\ state' = "PALETTE" => hdr_have' = all
      /\ state' = "PALETTE" => Decodable(H) /\ OutputFormatOk(H, out_fmt)
      /\ pc' = "loop" => state' # "ERROR"
  BY <1>2, <1>3 DEF Fail, Leave
<1>6. TypeOK'
  BY <1>1, <1>3, <1>4, <1>5 DEF StreamInv, TypeOK, all
<1>7. SectionsInOrder'
  BY <1>1, <1>2, <1>5 DEF StreamInv, SectionsInOrder, all
<1>8. CallInOrder'
  <2>1. hdr_have' + pal_have' + meta_have' + ds'.in + (len' - in_pos') <= fed'
    BY <1>1, <1>2, <1>3, <1>4, SectionTypes, Accounting
  <2>2. in_pos' = 0 /\ 0 <= len'
    BY <1>1, <1>2, <1>4, SectionTypes
  <2>3. QED
    BY <2>1, <2>2, <1>4, <1>5 DEF CallInOrder
<1>9. WindowAligned'
  BY <1>5 DEF WindowAligned
<1>10. RowsInOrder' /\ OnlyGoodRows'
  BY <1>1, QuietStep DEF StreamInv, FeedHeader
<1>11. CompleteInOrder'
  BY <1>1, <1>2 DEF StreamInv, CompleteInOrder
<1>12. QED
  BY <1>6, <1>7, <1>8, <1>9, <1>10, <1>11 DEF StreamInv

\* The palette section: it takes its bytes, then the metadata begins.
LEMMA FeedPaletteKeeps ==
  ASSUME StreamInv, FeedPalette
  PROVE  StreamInv'
<1> DEFINE all  == PaletteBytes(H)
           take == Take(all - pal_have)
<1>1. /\ H' = H /\ FileLength' = FileLength /\ file' = file /\ out_fmt' = out_fmt
      /\ fed' = fed /\ delivered' = delivered /\ finished' = finished
      /\ hdr_have' = hdr_have /\ meta_have' = meta_have /\ ds' = ds
      /\ filtered_have' = filtered_have /\ rows_done' = rows_done
      /\ frame_done' = frame_done /\ in_pos' = in_pos
  BY FileFixed DEF FeedPalette, seenVars
<1>2. /\ state = "PALETTE" /\ pc = "loop"
      /\ pal_have' = pal_have + take
      /\ \/ Leave /\ state' = state
         \/ /\ pal_have + take >= all
            /\ state' = "META" /\ Continue(len - take)
  BY DEF FeedPalette
<1>3. /\ take \in Nat /\ len - take \in Nat
      /\ pal_have' \in 0..all
      /\ pal_have + take >= all => pal_have' = all
  <2>1. len \in Nat /\ all \in Nat /\ pal_have \in 0..all
    BY <1>2, SectionTypes
  <2> HIDE DEF all
  <2>2. QED
    BY <1>2, <2>1, SectionTakes
<1> HIDE DEF take, all
<1>4. /\ pc' \in {"idle", "loop"}
      /\ len' \in Nat /\ len' <= len - take
      /\ pc' = "idle" => len' = 0
  BY <1>2, <1>3, ContinueOrLeave
<1>5. /\ state' \in {"PALETTE", "META"}
      /\ state' = "META" => pal_have' = all
  BY <1>2, <1>3
<1>6. TypeOK'
  BY <1>1, <1>3, <1>4, <1>5 DEF StreamInv, TypeOK, all
<1>7. SectionsInOrder'
  BY <1>1, <1>2, <1>5 DEF StreamInv, SectionsInOrder, all
<1>8. CallInOrder'
  <2>1. hdr_have' + pal_have' + meta_have' + ds'.in + (len' - in_pos') <= fed'
    BY <1>1, <1>2, <1>3, <1>4, SectionTypes, Accounting
  <2>2. in_pos' = 0 /\ 0 <= len'
    BY <1>1, <1>2, <1>4, SectionTypes
  <2>3. QED
    BY <2>1, <2>2, <1>4, <1>5 DEF CallInOrder
<1>9. WindowAligned'
  BY <1>5 DEF WindowAligned
<1>10. RowsInOrder' /\ OnlyGoodRows'
  BY <1>1, QuietStep DEF StreamInv, FeedPalette
<1>11. CompleteInOrder'
  BY <1>1, <1>2 DEF StreamInv, CompleteInOrder
<1>12. QED
  BY <1>6, <1>7, <1>8, <1>9, <1>10, <1>11 DEF StreamInv

\* The metadata section: once it is whole, the window starts empty at offset 0
\* of the filtered stream.
LEMMA FeedMetaKeeps ==
  ASSUME StreamInv, FeedMeta
  PROVE  StreamInv'
<1> DEFINE all  == H.meta_byte_count
           take == Take(all - meta_have)
<1>1. /\ H' = H /\ FileLength' = FileLength /\ file' = file /\ out_fmt' = out_fmt
      /\ fed' = fed /\ delivered' = delivered /\ finished' = finished
      /\ hdr_have' = hdr_have /\ pal_have' = pal_have /\ ds' = ds
      /\ filtered_have' = filtered_have /\ rows_done' = rows_done
      /\ frame_done' = frame_done /\ in_pos' = in_pos
  BY FileFixed DEF FeedMeta, seenVars
<1>2. /\ state = "META" /\ pc = "loop"
      /\ meta_have' = meta_have + take
      /\ \/ Leave /\ state' = state
         \/ /\ meta_have + take >= all
            /\ state' = "FRAME" /\ Continue(len - take)
  BY DEF FeedMeta
<1>3. /\ take \in Nat /\ len - take \in Nat
      /\ meta_have' \in 0..all
      /\ meta_have + take >= all => meta_have' = all
  <2>1. len \in Nat /\ all \in Nat /\ meta_have \in 0..all
    BY <1>2, SectionTypes
  <2> HIDE DEF all
  <2>2. QED
    BY <1>2, <2>1, SectionTakes
<1> HIDE DEF take, all
<1>4. /\ pc' \in {"idle", "loop"}
      /\ len' \in Nat /\ len' <= len - take
      /\ pc' = "idle" => len' = 0
  BY <1>2, <1>3, ContinueOrLeave
<1>5. /\ state' \in {"META", "FRAME"}
      /\ state' = "FRAME" => meta_have' = all
  BY <1>2, <1>3
<1>6. TypeOK'
  BY <1>1, <1>3, <1>4, <1>5 DEF StreamInv, TypeOK, all
<1>7. SectionsInOrder'
  BY <1>1, <1>2, <1>5 DEF StreamInv, SectionsInOrder, all
<1>8. CallInOrder'
  <2>1. hdr_have' + pal_have' + meta_have' + ds'.in + (len' - in_pos') <= fed'
    BY <1>1, <1>2, <1>3, <1>4, SectionTypes, Accounting
  <2>2. in_pos' = 0 /\ 0 <= len'
    BY <1>1, <1>2, <1>4, SectionTypes
  <2>3. QED
    BY <2>1, <2>2, <1>4, <1>5 DEF CallInOrder
<1>9. WindowAligned'
  <2>1. CASE state' = "META"
    BY <2>1 DEF WindowAligned
  <2>2. CASE state' = "FRAME"
    <3>1. /\ ds' = FreshContext /\ filtered_have' = 0 /\ rows_done' = 0
          /\ frame_done' = FALSE /\ Decodable(H)
      BY <1>1, <1>2 DEF StreamInv, SectionsInOrder
    <3>2. /\ H.height \in Nat \ {0} /\ F \in Nat \ {0}
          /\ H.raw_byte_count = H.height * F
      BY <3>1, <1>2, SectionTypes, FileFacts, HeaderSizes DEF F
    <3>3. /\ ContextOk(file.frame, FreshContext)
          /\ FreshContext.out = 0
          /\ DecodedTo(file.frame, FreshContext) = 0
          /\ file.frame.bad \in Nat
      BY <1>2, SectionTypes, FileFacts, FreshContextOk
    <3>4. Window \in Nat
      BY <3>2 DEF Window
    <3>5. H' = H /\ F' = F /\ Bcif' = Bcif /\ Window' = Window /\ file' = file
      BY <1>1 DEF F, Bcif, Window
    <3>6. QED
      BY <3>1, <3>2, <3>3, <3>4, <3>5 DEF WindowAligned
  <2>3. QED
    BY <1>5, <2>1, <2>2
<1>10. RowsInOrder' /\ OnlyGoodRows'
  BY <1>1, QuietStep DEF StreamInv, FeedMeta
<1>11. CompleteInOrder'
  BY <1>1, <1>2 DEF StreamInv, CompleteInOrder
<1>12. QED
  BY <1>6, <1>7, <1>8, <1>9, <1>10, <1>11 DEF StreamInv

------------------------------------------------------------------------------
(* The frame loop                                                            *)

\* Where the decoder is when it is about to call the decompressor, or about to
\* find that it cannot.
LEMMA FrameFacts ==
  ASSUME StreamInv, pc = "frame"
  PROVE  /\ file \in Files /\ IsFrame(file.frame)
         /\ state = "FRAME" /\ frame_done = FALSE /\ finished # "complete"
         /\ rows_done \in Nat /\ H.height \in Nat \ {0} /\ F \in Nat \ {0}
         /\ rows_done <= H.height
         /\ Window \in Nat \ {0} /\ (~Bcif => Window = F)
         /\ filtered_have \in Nat /\ filtered_have <= Window
         /\ ContextOk(file.frame, ds)
         /\ Bcif => rows_done = 0 /\ ds.out = filtered_have
         /\ ~Bcif => ds.out = rows_done * F + filtered_have
         /\ file.frame.bad # 0 => DecodedTo(file.frame, ds) < file.frame.bad
         /\ in_pos \in Nat /\ len \in Nat /\ in_pos <= len
<1>1. /\ file \in Files /\ state = "FRAME" /\ frame_done = FALSE
      /\ finished # "complete"
      /\ rows_done \in Nat /\ filtered_have \in Nat
      /\ in_pos \in Nat /\ len \in Nat /\ in_pos <= len
  BY DEF StreamInv, TypeOK, CallInOrder, CompleteInOrder
<1>2. Decodable(H)
  BY <1>1 DEF StreamInv, SectionsInOrder
<1>3. /\ H.height \in Nat \ {0} /\ F \in Nat \ {0}
      /\ H.raw_byte_count = H.height * F
      /\ IsFrame(file.frame)
  BY <1>1, <1>2, FileFacts, HeaderSizes DEF F
<1>4. Window \in Nat \ {0} /\ (~Bcif => Window = F)
  BY <1>3 DEF Window
<1>5. /\ ContextOk(file.frame, ds)
      /\ rows_done <= H.height /\ filtered_have <= Window
      /\ Bcif => rows_done = 0 /\ ds.out = filtered_have
      /\ ~Bcif => ds.out = rows_done * F + filtered_have
      /\ file.frame.bad # 0 => DecodedTo(file.frame, ds) < file.frame.bad
  BY <1>1 DEF StreamInv, WindowAligned
<1>6. QED
  BY <1>1, <1>3, <1>4, <1>5

\* The two ways a call of pxl_stream_feed ends here: nothing left to do.
LEMMA FeedTrailingKeeps ==
  ASSUME StreamInv, FeedTrailing
  PROVE  StreamInv'
<1>1. /\ H' = H /\ FileLength' = FileLength /\ file' = file /\ out_fmt' = out_fmt
      /\ fed' = fed /\ delivered' = delivered /\ finished' = finished
      /\ UNCHANGED streamVars /\ in_pos' = in_pos
      /\ pc = "loop" /\ pc' = "idle" /\ len' = 0
  BY FileFixed DEF FeedTrailing, seenVars, Leave
<1>2. TypeOK'
  BY <1>1 DEF StreamInv, TypeOK, streamVars
<1>3. SectionsInOrder'
  BY <1>1 DEF StreamInv, SectionsInOrder, streamVars
<1>4. CallInOrder'
  <2>1. hdr_have' + pal_have' + meta_have' + ds'.in + (len' - in_pos') <= fed'
    BY <1>1, SectionTypes DEF streamVars
  <2>2. QED
    BY <2>1, <1>1, SectionTypes DEF CallInOrder
<1>5. WindowAligned' /\ RowsInOrder' /\ OnlyGoodRows' /\ CompleteInOrder'
  BY <1>1, QuietStep DEF StreamInv, FeedTrailing, streamVars
<1>6. QED
  BY <1>2, <1>3, <1>4, <1>5 DEF StreamInv

\* Entering the inner loop; a complete stream never does, its frame is over.
LEMMA FeedFrameKeeps ==
  ASSUME StreamInv, FeedFrame
  PROVE  StreamInv'
<1>1. /\ H' = H /\ FileLength' = FileLength /\ file' = file /\ out_fmt' = out_fmt
      /\ fed' = fed /\ delivered' = delivered /\ finished' = finished
      /\ UNCHANGED streamVars /\ in_pos' = 0 /\ len' = len
      /\ state = "FRAME" /\ ~frame_done /\ pc = "loop" /\ pc' = "frame"
  BY FileFixed DEF FeedFrame, seenVars
<1>2. TypeOK'
  BY <1>1 DEF StreamInv, TypeOK, streamVars
<1>3. SectionsInOrder'
  BY <1>1 DEF StreamInv, SectionsInOrder, streamVars
<1>4. CallInOrder'
  <2>1. hdr_have' + pal_have' + meta_have' + ds'.in + (len' - in_pos') <= fed'
    BY <1>1, SectionTypes DEF streamVars
  <2>2. QED
    BY <2>1, <1>1, SectionTypes DEF CallInOrder, streamVars
<1>5. WindowAligned' /\ RowsInOrder' /\ OnlyGoodRows'
  BY <1>1, QuietStep DEF StreamInv, FeedFrame, streamVars
<1>6. CompleteInOrder'
  BY <1>1 DEF StreamInv, CompleteInOrder, FinishReady
<1>7. QED
  BY <1>2, <1>3, <1>4, <1>5, <1>6 DEF StreamInv

\* What is left of a chunk is counted from its start.
LEMMA NothingTaken ==
  ASSUME NEW total \in Int, NEW left \in Nat, NEW pos, pos = 0, left <= total
  PROVE  left - pos <= total /\ left - pos \in Nat /\ pos \in Nat /\ pos <= left
OBVIOUS

\* One turn of the inner loop ends in one of two ways, and in each it stays
\* within the chunk.
LEMMA TurnEnds ==
  ASSUME NEW took \in Nat, took <= len, len \in Nat, pc = "frame",
         \/ LeaveFrame(took)
         \/ in_pos' = took /\ UNCHANGED <<pc, len>> /\ frame_done' = FALSE
  PROVE  /\ pc' \in {"idle", "loop", "frame"}
         /\ len' \in Nat /\ in_pos' \in Nat /\ in_pos' <= len'
         /\ len' - in_pos' <= len - took /\ len' - in_pos' \in Nat
         /\ pc' = "idle" => len' = 0
         /\ pc' = "frame" => frame_done' = FALSE
         /\ pc' # "frame" => in_pos' = 0
<1> DEFINE rest == len - took
<1>1. CASE LeaveFrame(took)
  <2>1. in_pos' = 0 /\ (Leave \/ Continue(rest))
    BY <1>1, Zenon DEF LeaveFrame
  <2>2. rest \in Nat /\ rest \in Int
    OBVIOUS
  <2> HIDE DEF rest
  <2>3. /\ pc' \in {"idle", "loop"} /\ len' \in Nat /\ len' <= rest
        /\ pc' = "idle" => len' = 0
    BY <2>1, <2>2, ContinueOrLeave
  <2>4. in_pos' = 0
    BY <2>1
  <2>5. len' - in_pos' <= rest /\ len' - in_pos' \in Nat /\ in_pos' \in Nat /\ in_pos' <= len'
    BY <2>2, <2>3, <2>4, NothingTaken
  <2>6. QED
    BY <2>3, <2>4, <2>5 DEF rest
<1>2. CASE in_pos' = took /\ UNCHANGED <<pc, len>> /\ frame_done' = FALSE
  BY <1>2
<1>3. QED
  BY <1>1, <1>2

\* The inner loop moves bytes from the chunk to zstd, one for one.
LEMMA FrameAccounting ==
  ASSUME NEW a \in Nat, NEW b \in Nat, NEW c \in Nat, NEW i \in Nat, NEW j \in Nat,
         NEW l \in Nat, NEW p \in Nat, NEW left \in Nat, NEW total \in Nat,
         p <= l, i <= j, j <= i + (l - p),
         a + b + c + i + (l - p) <= total
  PROVE  /\ p + (j - i) \in Nat /\ p + (j - i) <= l
         /\ left <= l - (p + (j - i)) => a + b + c + j + left <= total
         /\ a + b + c + j + (0 - 0) <= total
OBVIOUS

\* The window starts at a row boundary of the filtered stream, and does so
\* again once it is full and its row was delivered.
LEMMA WindowArithmetic ==
  ASSUME NEW rows \in Nat, NEW width \in Nat, NEW old \in Nat, NEW out \in Nat,
         NEW new \in Nat, out <= new, NEW have, have = old + (new - out)
  PROVE  /\ have \in Nat
         /\ out = old => new = have
         /\ out = rows * width + old => new = rows * width + have
         /\ out = rows * width + old /\ have = width =>
              /\ new = (rows + 1) * width + 0
              /\ new - have = rows * width
<1> DEFINE base == rows * width
<1>1. base \in Nat /\ (rows + 1) * width = base + width
  OBVIOUS
<1> HIDE DEF base
<1>2. /\ out = base + old => new = base + have
      /\ out = base + old /\ have = width =>
           new = (base + width) + 0 /\ new - have = base
  BY <1>1
<1>3. have \in Nat /\ (out = old => new = have)
  OBVIOUS
<1>4. QED
  BY <1>1, <1>2, <1>3 DEF base

\* Rows 0, 1, 2, ... of `width' bytes, end to end.
RowSeq == Seq([index : Nat, from : Nat])
EndToEnd(s, width) == \A i \in 1..Len(s) : s[i] = Row(i - 1, (i - 1) * width)

\* A row is appended where the rows so far end.
LEMMA NextRowInOrder ==
  ASSUME NEW rows \in Nat, NEW width \in Nat, NEW s \in RowSeq,
         Len(s) = rows, EndToEnd(s, width),
         NEW t, t = Append(s, Row(rows, rows * width))
  PROVE  /\ t \in RowSeq
         /\ Len(t) = rows + 1
         /\ EndToEnd(t, width)
<1>1. rows * width \in Nat
  OBVIOUS
<1>2. Row(rows, rows * width) \in [index : Nat, from : Nat]
  BY <1>1 DEF Row
<1>3. t \in RowSeq /\ Len(t) = rows + 1
  BY <1>2 DEF RowSeq
<1>4. ASSUME NEW i \in 1..Len(t)
      PROVE  t[i] = Row(i - 1, (i - 1) * width)
  <2>1. CASE i = rows + 1
    <3>1. t[i] = Row(rows, rows * width) /\ i - 1 = rows
      BY <2>1, <1>2 DEF RowSeq
    <3>2. QED
      BY <3>1
  <2>2. CASE i # rows + 1
    <3>1. i \in 1..Len(s) /\ t[i] = s[i]
      BY <2>2, <1>2, <1>3 DEF RowSeq
    <3>2. QED
      BY <3>1 DEF EndToEnd
  <2>3. QED
    BY <2>1, <2>2
<1>5. QED
  BY <1>3, <1>4 DEF EndToEnd

\* stream_emit_rows with `have' bytes in the window, which end at byte z.out
\* of the filtered stream: a delivered row is the next one, whole and good.
LEMMA EmitKeeps ==
  ASSUME StreamInv, pc = "frame", NEW z, ds' = z, z.out \in Nat, ds.out <= z.out,
         NEW have, have = filtered_have + (z.out - ds.out), have <= Window,
         UNCHANGED fileVars, EmitRows(have)
  PROVE  /\ filtered_have' \in Nat /\ filtered_have' <= Window
         /\ rows_done' \in Nat /\ rows_done' <= H.height
         /\ delivered' \in RowSeq
         /\ Bcif => rows_done' = 0 /\ z.out = filtered_have'
         /\ ~Bcif => z.out = rows_done' * F + filtered_have'
         /\ ~Bcif /\ rows_done' < H.height => filtered_have' < F
         /\ RowsInOrder' /\ OnlyGoodRows'
<1>1. /\ rows_done \in Nat /\ H.height \in Nat \ {0} /\ F \in Nat \ {0}
      /\ rows_done <= H.height
      /\ Window \in Nat \ {0} /\ (~Bcif => Window = F)
      /\ filtered_have \in Nat
      /\ Bcif => rows_done = 0 /\ ds.out = filtered_have
      /\ ~Bcif => ds.out = rows_done * F + filtered_have
  BY FrameFacts
<1>2. /\ delivered \in RowSeq
      /\ Len(delivered) = rows_done
      /\ EndToEnd(delivered, F)
      /\ \A i \in 1..Len(delivered) : file.row[delivered[i].index] = "ok"
      /\ ds.out \in Nat
  BY DEF StreamInv, TypeOK, RowsInOrder, OnlyGoodRows, Contexts, RowSeq, EndToEnd
<1>3. file' = file /\ F' = F
  BY FileFixed
<1>4. /\ have \in Nat
      /\ Bcif => z.out = have
      /\ ~Bcif => z.out = rows_done * F + have
      /\ ~Bcif /\ have = F => /\ z.out = (rows_done + 1) * F + 0
                             /\ z.out - have = rows_done * F
  <2>1. /\ rows_done \in Nat /\ F \in Nat /\ filtered_have \in Nat /\ ds.out \in Nat
        /\ z.out \in Nat /\ ds.out <= z.out
        /\ have = filtered_have + (z.out - ds.out)
    BY <1>1, <1>2
  <2> DEFINE out == ds.out
             new == z.out
  <2> HIDE DEF out, new
  <2>2. /\ have \in Nat
        /\ out = filtered_have => new = have
        /\ out = rows_done * F + filtered_have => new = rows_done * F + have
        /\ out = rows_done * F + filtered_have /\ have = F =>
             /\ new = (rows_done + 1) * F + 0
             /\ new - have = rows_done * F
    BY <2>1, WindowArithmetic DEF out, new
  <2>3. QED
    BY <1>1, <2>2 DEF out, new
<1>5. CASE NoRow(have) /\ filtered_have' = have /\ UNCHANGED <<rows_done, delivered>>
  <2>1. RowsInOrder' /\ OnlyGoodRows'
    BY <1>2, <1>3, <1>5 DEF RowsInOrder, OnlyGoodRows, Row, EndToEnd
  <2>2. ~Bcif /\ rows_done < H.height => have < F
    BY <1>1, <1>5 DEF NoRow
  <2>3. QED
    BY <1>1, <1>2, <1>4, <1>5, <2>1, <2>2
<1>6. CASE /\ ~NoRow(have) /\ RowOk(rows_done)
           /\ filtered_have' = ConsumeRow(have)
           /\ rows_done' = rows_done + 1
           /\ delivered' = Append(delivered, Row(rows_done, ds'.out - have))
  <2>1. ~Bcif /\ rows_done < H.height /\ have = F /\ file.row[rows_done] = "ok"
    <3>1. ~Bcif /\ rows_done # H.height /\ ~(have < F) /\ file.row[rows_done] = "ok"
      BY <1>6, Zenon DEF NoRow, RowOk
    <3>2. rows_done < H.height
      BY <3>1, <1>1
    <3>3. have = F
      <4>1. have \in Nat /\ F \in Nat /\ ~(have < F) /\ have <= F
        BY <3>1, <1>1, <1>4
      <4>2. QED
        BY <4>1
    <3>4. QED
      BY <3>1, <3>2, <3>3, Zenon
  <2>2. /\ filtered_have' = 0 /\ rows_done' = rows_done + 1
        /\ delivered' = Append(delivered, Row(rows_done, rows_done * F))
    BY <1>4, <1>6, <2>1 DEF ConsumeRow
  <2>3. /\ delivered' \in RowSeq
        /\ Len(delivered') = rows_done + 1
        /\ EndToEnd(delivered', F)
    <3> DEFINE t == delivered'
    <3>1. /\ F \in Nat /\ rows_done \in Nat /\ delivered \in RowSeq
          /\ Len(delivered) = rows_done /\ EndToEnd(delivered, F)
          /\ t = Append(delivered, Row(rows_done, rows_done * F))
      BY <1>1, <1>2, <2>2
    <3> HIDE DEF t
    <3>2. t \in RowSeq /\ Len(t) = rows_done + 1 /\ EndToEnd(t, F)
      BY <3>1, NextRowInOrder
    <3>3. QED
      BY <3>2 DEF t
  <2>4. RowsInOrder'
    <3>1. Len(delivered') = rows_done'
      BY <2>2, <2>3
    <3>2. \A i \in 1..Len(delivered') : delivered'[i] = Row(i - 1, (i - 1) * F')
      BY <1>3, <2>3, Zenon DEF EndToEnd
    <3>3. QED
      BY <3>1, <3>2, Zenon DEF RowsInOrder, Row
  <2>5. ASSUME NEW i \in 1..Len(delivered')
        PROVE  file.row[delivered'[i].index] = "ok"
    <3>1. delivered'[i].index = i - 1
      BY <2>3 DEF Row, EndToEnd
    <3>2. CASE i = rows_done + 1
      <4>1. i - 1 = rows_done
        BY <3>2, <1>1
      <4>2. QED
        BY <4>1, <3>1, <2>1
    <3>3. CASE i # rows_done + 1
      <4>1. i \in 1..Len(delivered)
        BY <3>3, <2>3, <1>1, <1>2
      <4>2. delivered[i].index = i - 1
        BY <4>1, <1>2 DEF Row, EndToEnd
      <4>3. QED
        BY <4>1, <4>2, <3>1, <1>2
    <3>4. QED
      BY <3>2, <3>3
  <2>6. OnlyGoodRows'
    BY <1>3, <2>5 DEF OnlyGoodRows
  <2>7. /\ filtered_have' \in Nat /\ filtered_have' <= Window /\ filtered_have' < F
        /\ rows_done' \in Nat /\ rows_done' <= H.height
    <3>1. 0 <= Window /\ 0 < F /\ rows_done + 1 \in Nat /\ rows_done + 1 <= H.height
      BY <1>1, <2>1
    <3>2. QED
      BY <2>2, <3>1
  <2>8. ~Bcif /\ z.out = rows_done' * F + filtered_have'
    <3>1. z.out = (rows_done + 1) * F + 0
      BY <1>4, <2>1
    <3>2. QED
      BY <2>1, <2>2, <3>1
  <2>9. QED
    BY <2>3, <2>4, <2>6, <2>7, <2>8
<1>7. QED
  BY <1>5, <1>6 DEF EmitRows

\* One turn of the inner loop after zstd moved from ds to z: both ways it can
\* end keep the invariant.
LEMMA TurnKeeps ==
  ASSUME StreamInv, pc = "frame", NEW z, ds' = z, ContextOk(file.frame, z),
         ds.in <= z.in, z.in <= ds.in + (len - in_pos), ds.out <= z.out,
         NEW have, have = filtered_have + (z.out - ds.out), have <= Window,
         file.frame.bad # 0 => DecodedTo(file.frame, z) < file.frame.bad,
         NEW called \in BOOLEAN, AfterDecompress(have, called),
         UNCHANGED <<fileVars, hdr_have, pal_have, meta_have, fed, finished>>
  PROVE  StreamInv'
<1> DEFINE took == in_pos + (z.in - ds.in)
<1>1. /\ H' = H /\ F' = F /\ Bcif' = Bcif /\ Window' = Window
      /\ FileLength' = FileLength /\ file' = file /\ out_fmt' = out_fmt
      /\ fed' = fed /\ finished' = finished /\ hdr_have' = hdr_have
      /\ pal_have' = pal_have /\ meta_have' = meta_have
  BY FileFixed
<1>2. /\ z \in Contexts /\ z.in \in Nat /\ z.out \in Nat
      /\ ds.in \in Nat /\ ds.out \in Nat
      /\ in_pos \in Nat /\ len \in Nat /\ in_pos <= len
      /\ state = "FRAME" /\ frame_done = FALSE /\ finished # "complete"
      /\ rows_done \in Nat /\ filtered_have \in Nat
      /\ hdr_have \in Nat /\ pal_have \in Nat /\ meta_have \in Nat /\ fed \in Nat
      /\ hdr_have + pal_have + meta_have + ds.in + (len - in_pos) <= fed
  <2>1. /\ PXL_HEADER_BYTES \in Nat /\ PaletteBytes(H) \in Nat
        /\ H.meta_byte_count \in Nat /\ FileLength \in Nat
    BY FileFacts, FrameFacts
  <2>2. /\ z \in Contexts /\ z.in \in Nat /\ z.out \in Nat
        /\ ds.in \in Nat /\ ds.out \in Nat
    BY DEF StreamInv, TypeOK, ContextOk, Contexts
  <2>3. /\ hdr_have \in 0..PXL_HEADER_BYTES /\ pal_have \in 0..PaletteBytes(H)
        /\ meta_have \in 0..H.meta_byte_count /\ fed \in 0..FileLength
        /\ hdr_have + pal_have + meta_have + ds.in + (len - in_pos) <= fed
    BY DEF StreamInv, TypeOK, CallInOrder
  <2>4. QED
    BY <2>1, <2>2, <2>3, FrameFacts
<1>3. took \in Nat /\ took <= len
  BY <1>2, FrameAccounting
<1>4. CASE EmitFails(have)
  <2>1. /\ state' = "ERROR" /\ pc' = "idle" /\ len' = 0 /\ in_pos' = 0
        /\ rows_done' = rows_done /\ delivered' = delivered
        /\ frame_done' = frame_done /\ filtered_have' \in {have, 0}
    BY <1>4 DEF EmitFails, Fail, Leave, ConsumeRow
  <2>2. have \in Nat
    BY <1>2, WindowArithmetic, FrameFacts
  <2>3. TypeOK'
    BY <1>1, <1>2, <2>1, <2>2, SMTT(30) DEF StreamInv, TypeOK
  <2>4. CallInOrder'
    <3>1. hdr_have + pal_have + meta_have + z.in + (0 - 0) <= fed
      BY <1>2
    <3>2. QED
      BY <3>1, <1>1, <2>1 DEF CallInOrder
  <2>5. RowsInOrder' /\ OnlyGoodRows'
    BY <1>1, <2>1 DEF StreamInv, RowsInOrder, OnlyGoodRows, Row
  <2>6. SectionsInOrder' /\ WindowAligned' /\ CompleteInOrder'
    BY <1>1, <1>2, <2>1 DEF SectionsInOrder, WindowAligned, CompleteInOrder
  <2>7. QED
    BY <2>3, <2>4, <2>5, <2>6 DEF StreamInv
<1>5. CASE ~EmitFails(have)
  <2>1. /\ EmitRows(have) /\ state' = state
        /\ frame_done' = (called /\ FrameComplete(file.frame, z))
        /\ \/ LeaveFrame(took)
           \/ in_pos' = took /\ UNCHANGED <<pc, len>> /\ frame_done' = FALSE
    BY <1>5, Zenon DEF AfterDecompress, FrameComplete
  <2>2. frame_done' \in BOOLEAN /\ (frame_done' => FrameComplete(file.frame, z))
    BY <2>1, Zenon DEF FrameComplete
  <2> HIDE DEF took
  <2>3. /\ filtered_have' \in Nat /\ filtered_have' <= Window
        /\ rows_done' \in Nat /\ rows_done' <= H.height
        /\ delivered' \in RowSeq
        /\ Bcif => rows_done' = 0 /\ z.out = filtered_have'
        /\ ~Bcif => z.out = rows_done' * F + filtered_have'
        /\ ~Bcif /\ rows_done' < H.height => filtered_have' < F
        /\ RowsInOrder' /\ OnlyGoodRows'
    BY <1>2, <2>1, EmitKeeps
  <2>4. /\ pc' \in {"idle", "loop", "frame"}
        /\ len' \in Nat /\ in_pos' \in Nat /\ in_pos' <= len'
        /\ len' - in_pos' <= len - took /\ len' - in_pos' \in Nat
        /\ pc' = "idle" => len' = 0
        /\ pc' = "frame" => frame_done' = FALSE
        /\ pc' # "frame" => in_pos' = 0
    BY <1>2, <1>3, <2>1, TurnEnds
  <2>5. TypeOK'
    BY <1>1, <1>2, <2>1, <2>2, <2>3, <2>4 DEF StreamInv, TypeOK, RowSeq
  <2>6. SectionsInOrder'
    BY <1>1, <1>2, <2>1 DEF StreamInv, SectionsInOrder
  <2>7. WindowAligned'
    <3>1. /\ ContextOk(file'.frame, ds')
          /\ rows_done' <= H'.height /\ filtered_have' <= Window'
          /\ frame_done' => FrameComplete(file'.frame, ds')
          /\ file'.frame.bad # 0 => DecodedTo(file'.frame, ds') < file'.frame.bad
      BY <1>1, <2>2, <2>3
    <3>2. ~Bcif' => /\ ds'.out = rows_done' * F' + filtered_have'
                    /\ rows_done' < H'.height => filtered_have' < F'
      BY <1>1, <2>3
    <3>3. Bcif' => ds'.out = filtered_have' /\ rows_done' = 0
      BY <1>1, <2>3
    <3>4. QED
      BY <3>1, <3>2, <3>3, Zenon DEF WindowAligned
  <2>8. CallInOrder'
    <3> DEFINE left == len' - in_pos'
    <3>1. left \in Nat /\ left <= len - took
      BY <2>4
    <3> HIDE DEF left
    <3>2. hdr_have + pal_have + meta_have + z.in + left <= fed
      BY <1>2, <3>1, FrameAccounting DEF took
    <3>3. hdr_have' + pal_have' + meta_have' + ds'.in + (len' - in_pos') <= fed'
      BY <1>1, <3>2 DEF left
    <3>4. state' = "FRAME"
      BY <1>2, <2>1
    <3>5. QED
      BY <2>4, <3>3, <3>4, Zenon DEF CallInOrder
  <2>9. CompleteInOrder'
    BY <1>1, <1>2 DEF CompleteInOrder
  <2>10. QED
    BY <2>3, <2>5, <2>6, <2>7, <2>8, <2>9 DEF StreamInv
<1>6. QED
  BY <1>4, <1>5

\* A call of ZSTD_decompressStream into the rest of the window.
LEMMA DecompressKeeps ==
  ASSUME StreamInv, Decompress
  PROVE  StreamInv'
<1> DEFINE room  == Window - filtered_have
           avail == len - in_pos
<1>1. /\ pc = "frame" /\ filtered_have < Window
      /\ UNCHANGED <<fileVars, hdr_have, pal_have, meta_have, fed, finished>>
      /\ \E d \in ReadStops(file.frame, ds, avail, room) :
           \/ /\ ReadError(file.frame, ds, d)
              /\ Fail
              /\ in_pos' = 0
              /\ UNCHANGED <<filtered_have, rows_done, frame_done, ds, delivered>>
           \/ /\ ~ReadError(file.frame, ds, d)
              /\ ds' = AfterCall(file.frame, ds, d, avail, room)
              /\ AfterDecompress(filtered_have + (ds'.out - ds.out), TRUE)
  BY DEF Decompress
<1>2. PICK d \in ReadStops(file.frame, ds, avail, room) :
           \/ /\ ReadError(file.frame, ds, d)
              /\ Fail
              /\ in_pos' = 0
              /\ UNCHANGED <<filtered_have, rows_done, frame_done, ds, delivered>>
           \/ /\ ~ReadError(file.frame, ds, d)
              /\ ds' = AfterCall(file.frame, ds, d, avail, room)
              /\ AfterDecompress(filtered_have + (ds'.out - ds.out), TRUE)
  BY <1>1
<1>3. /\ IsFrame(file.frame) /\ ContextOk(file.frame, ds)
      /\ room \in Nat \ {0} /\ avail \in Nat
      /\ ds.out \in Nat /\ filtered_have \in Nat /\ Window \in Nat
      /\ finished # "complete" /\ state = "FRAME" /\ frame_done = FALSE
      /\ file.frame.bad # 0 => DecodedTo(file.frame, ds) < file.frame.bad
  BY <1>1, FrameFacts DEF ContextOk, Contexts
<1>4. CASE /\ Fail /\ in_pos' = 0
           /\ UNCHANGED <<filtered_have, rows_done, frame_done, ds, delivered>>
  <2>1. /\ H' = H /\ FileLength' = FileLength /\ file' = file /\ out_fmt' = out_fmt
        /\ state' = "ERROR" /\ pc' = "idle" /\ len' = 0 /\ in_pos' = 0
        /\ hdr_have' = hdr_have /\ pal_have' = pal_have /\ meta_have' = meta_have
        /\ fed' = fed /\ finished' = finished
        /\ filtered_have' = filtered_have /\ rows_done' = rows_done
        /\ frame_done' = frame_done /\ ds' = ds /\ delivered' = delivered
    BY <1>1, <1>4, FileFixed DEF Fail, Leave
  <2>2. TypeOK'
    BY <2>1 DEF StreamInv, TypeOK
  <2>3. CallInOrder'
    <3>1. hdr_have + pal_have + meta_have + ds.in + (0 - 0) <= fed
      <4>1. /\ ds.in \in Nat /\ len \in Nat /\ in_pos \in Nat /\ in_pos <= len
            /\ hdr_have \in 0..PXL_HEADER_BYTES /\ pal_have \in 0..PaletteBytes(H)
            /\ meta_have \in 0..H.meta_byte_count /\ fed \in 0..FileLength
            /\ hdr_have + pal_have + meta_have + ds.in + (len - in_pos) <= fed
        BY DEF StreamInv, TypeOK, CallInOrder, Contexts
      <4>2. /\ PXL_HEADER_BYTES \in Nat /\ PaletteBytes(H) \in Nat
            /\ H.meta_byte_count \in Nat /\ FileLength \in Nat
        BY <1>1, FileFacts, FrameFacts
      <4>3. ds.in <= ds.in + (len - in_pos)
        BY <4>1
      <4>4. QED
        BY <4>1, <4>2, <4>3, FrameAccounting
    <3>2. QED
      BY <3>1, <2>1 DEF CallInOrder
  <2>4. RowsInOrder' /\ OnlyGoodRows'
    BY <1>1, <1>4, QuietStep DEF StreamInv
  <2>5. SectionsInOrder' /\ WindowAligned' /\ CompleteInOrder'
    BY <1>3, <2>1 DEF SectionsInOrder, WindowAligned, CompleteInOrder
  <2>6. QED
    BY <2>2, <2>3, <2>4, <2>5 DEF StreamInv
<1>5. CASE /\ ~ReadError(file.frame, ds, d)
           /\ ds' = AfterCall(file.frame, ds, d, avail, room)
           /\ AfterDecompress(filtered_have + (ds'.out - ds.out), TRUE)
  <2> DEFINE z    == AfterCall(file.frame, ds, d, avail, room)
             have == filtered_have + (z.out - ds.out)
  <2> HIDE DEF room, avail
  <2>1. /\ ContextOk(file.frame, z)
        /\ ds.out <= z.out /\ z.out <= ds.out + room
        /\ ds.in <= z.in /\ z.in <= ds.in + avail
        /\ DecodedTo(file.frame, z) = d
    BY <1>3, CallKeepsContext
  <2>2. ds' = z /\ AfterDecompress(have, TRUE)
    BY <1>5
  <2> HIDE DEF z
  <2>3. z.out \in Nat
    BY <2>1 DEF ContextOk, Contexts
  <2>4. have <= Window
    BY <1>3, <2>1, <2>3 DEF room
  <2>5. file.frame.bad # 0 => DecodedTo(file.frame, z) < file.frame.bad
    <3>1. file.frame.bad # 0 =>
            ~(DecodedTo(file.frame, ds) < file.frame.bad /\ file.frame.bad <= d)
      BY <1>5 DEF ReadError
    <3>2. d \in Nat /\ file.frame.bad \in Nat
      BY <1>3, <2>1 DEF ContextOk, DecodedTo, Contexts, IsFrame
    <3>3. QED
      BY <1>3, <2>1, <3>1, <3>2
  <2> HIDE DEF have
  <2>6. have = filtered_have + (z.out - ds.out) /\ z.in <= ds.in + (len - in_pos)
    BY <2>1 DEF have, avail
  <2>7. QED
    BY <1>1, <2>1, <2>2, <2>4, <2>5, <2>6, TurnKeeps
<1>6. QED
  BY <1>2, <1>4, <1>5

\* The window is full: zstd is not called and nothing moves.
LEMMA WindowFullKeeps ==
  ASSUME StreamInv, WindowFull
  PROVE  StreamInv'
<1>1. /\ pc = "frame" /\ ds' = ds /\ AfterDecompress(filtered_have, FALSE)
      /\ UNCHANGED <<fileVars, hdr_have, pal_have, meta_have, fed, finished>>
  BY DEF WindowFull
<1>2. /\ ContextOk(file.frame, ds) /\ ds.in \in Nat /\ ds.out \in Nat
      /\ in_pos \in Nat /\ len \in Nat /\ in_pos <= len
      /\ filtered_have \in Nat /\ filtered_have <= Window
      /\ file.frame.bad # 0 => DecodedTo(file.frame, ds) < file.frame.bad
  BY <1>1, FrameFacts DEF ContextOk, Contexts
<1>3. /\ ds.in <= ds.in /\ ds.in <= ds.in + (len - in_pos) /\ ds.out <= ds.out
      /\ filtered_have = filtered_have + (ds.out - ds.out)
  BY <1>2
<1>4. QED
  BY <1>1, <1>2, <1>3, TurnKeeps

------------------------------------------------------------------------------
(* pxl_stream_finish                                                         *)

\* What every answer leaves alone.
LEMMA FinishFacts ==
  ASSUME StreamInv, Finish
  PROVE  /\ pc = "idle"
         /\ UNCHANGED <<fileVars, state, hdr_have, pal_have, meta_have,
                        filtered_have, frame_done, ds, callVars, fed>>
         /\ H' = H /\ F' = F /\ Bcif' = Bcif /\ Window' = Window
         /\ FileLength' = FileLength /\ file' = file /\ out_fmt' = out_fmt
<1>1. /\ pc = "idle"
      /\ UNCHANGED <<fileVars, state, hdr_have, pal_have, meta_have,
                     filtered_have, frame_done, ds, callVars, fed>>
  BY DEF Finish, FinishRefused, FinishBcif, FinishRows, streamVars
<1>2. QED
  BY <1>1, FileFixed

\* An answer that delivers nothing: `complete' only if all is there.
LEMMA QuietFinishKeeps ==
  ASSUME StreamInv, FinishRefused \/ FinishRows
  PROVE  StreamInv'
<1>1. /\ pc = "idle"
      /\ UNCHANGED <<fileVars, state, hdr_have, pal_have, meta_have,
                     filtered_have, frame_done, ds, callVars, fed>>
      /\ H' = H /\ F' = F /\ Bcif' = Bcif /\ Window' = Window
      /\ FileLength' = FileLength /\ file' = file /\ out_fmt' = out_fmt
  BY FinishFacts DEF Finish
<1>2. rows_done' = rows_done /\ delivered' = delivered
  BY DEF FinishRefused, FinishRows, streamVars
<1>3. /\ finished' \in {"complete", "incomplete"}
      /\ finished' = "complete" => FinishReady /\ rows_done = H.height
  BY DEF FinishRefused, FinishRows, Answer
<1>4. TypeOK'
  BY <1>1, <1>2, <1>3 DEF StreamInv, TypeOK, callVars
<1>5. SectionsInOrder'
  BY <1>1, <1>2 DEF StreamInv, SectionsInOrder
<1>6. CallInOrder'
  BY <1>1 DEF StreamInv, CallInOrder, callVars
<1>7. WindowAligned' /\ RowsInOrder' /\ OnlyGoodRows'
  BY <1>1, <1>2, QuietStep DEF StreamInv
<1>8. CompleteInOrder'
  BY <1>1, <1>2, <1>3 DEF CompleteInOrder, FinishReady, callVars
<1>9. QED
  BY <1>4, <1>5, <1>6, <1>7, <1>8 DEF StreamInv

\* All rows, in order, from offset 0.
LEMMA AllRowsInOrder ==
  ASSUME file \in Files, Decodable(H)
  PROVE  /\ AllRows \in RowSeq
         /\ Len(AllRows) = H.height
         /\ EndToEnd(AllRows, F)
<1>1. H.height \in Nat /\ F \in Nat
  BY FileFacts, HeaderSizes DEF F
<1>2. ASSUME NEW i \in 1..H.height
      PROVE  Row(i - 1, (i - 1) * F) \in [index : Nat, from : Nat]
  <2>1. i - 1 \in Nat /\ (i - 1) * F \in Nat
    BY <1>1
  <2>2. QED
    BY <2>1 DEF Row
<1>3. AllRows \in [1..H.height -> [index : Nat, from : Nat]]
  BY <1>2 DEF AllRows
<1>4. AllRows \in RowSeq /\ Len(AllRows) = H.height
  <2> HIDE DEF AllRows
  <2> DEFINE n == H.height
             S == [index : Nat, from : Nat]
  <2>1. n \in Nat /\ AllRows \in [1..n -> S]
    BY <1>1, <1>3
  <2> HIDE DEF n, S
  <2>2. AllRows \in Seq(S) /\ Len(AllRows) = n
    BY <2>1
  <2>3. QED
    BY <2>2 DEF n, S, RowSeq
<1>5. EndToEnd(AllRows, F)
  BY <1>4 DEF AllRows, EndToEnd
<1>6. QED
  BY <1>4, <1>5

\* BCIF delivers every row at once, on the first successful question.
LEMMA FinishBcifKeeps ==
  ASSUME StreamInv, FinishBcif
  PROVE  StreamInv'
<1>1. /\ pc = "idle"
      /\ UNCHANGED <<fileVars, state, hdr_have, pal_have, meta_have,
                     filtered_have, frame_done, ds, callVars, fed>>
      /\ H' = H /\ F' = F /\ Bcif' = Bcif /\ Window' = Window
      /\ FileLength' = FileLength /\ file' = file /\ out_fmt' = out_fmt
  BY FinishFacts DEF Finish
<1>2. /\ state = "FRAME" /\ frame_done /\ Bcif /\ rows_done = 0 /\ FinishReady
      /\ rows_done' = H.height /\ delivered' = delivered \o AllRows
      /\ finished' = "complete"
  BY DEF FinishBcif, FinishReady, BcifPending, Answer
<1>3. /\ file \in Files /\ Decodable(H)
      /\ delivered \in RowSeq /\ Len(delivered) = 0
  BY <1>2 DEF StreamInv, TypeOK, SectionsInOrder, RowsInOrder, RowSeq
<1>4. /\ AllRows \in RowSeq /\ Len(AllRows) = H.height /\ EndToEnd(AllRows, F)
      /\ H.height \in Nat
  BY <1>3, AllRowsInOrder, FileFacts
<1>4a. \A y \in 0..(H.height - 1) : file.row[y] = "ok"
  <2>1. IsFile(file) /\ H.color_filter = "BCIF" /\ H.palette_count = 0
    BY <1>2, <1>3, FilesAssumption DEF Bcif, Decodable
  <2>2. ASSUME NEW y \in 0..(H.height - 1)
        PROVE  file.row[y] = "ok"
    <3>1. file.row[y] \in RowKinds
      BY <2>1 DEF IsFile, H
    <3>2. file.row[y] # "bad_type" /\ file.row[y] # "bad_index"
      BY <2>1 DEF IsFile, H
    <3>3. QED
      BY <3>1, <3>2 DEF RowKinds
  <2>3. QED
    BY <2>2
<1>5. delivered' = AllRows
  BY <1>2, <1>3, <1>4, EmptySeq, ConcatEmptySeq DEF RowSeq
<1>6. TypeOK'
  BY <1>1, <1>2, <1>4, <1>5 DEF StreamInv, TypeOK, callVars, RowSeq
<1>7. SectionsInOrder'
  BY <1>1, <1>2 DEF StreamInv, SectionsInOrder
<1>8. CallInOrder'
  BY <1>1 DEF StreamInv, CallInOrder, callVars
<1>9. WindowAligned'
  BY <1>1, <1>2, <1>4 DEF StreamInv, WindowAligned
<1>10. RowsInOrder'
  BY <1>1, <1>2, <1>4, <1>5 DEF RowsInOrder, EndToEnd, Row
<1>11. OnlyGoodRows'
  <2>1. ASSUME NEW i \in 1..Len(AllRows)
        PROVE  file.row[AllRows[i].index] = "ok"
    <3>1. AllRows[i].index = i - 1
      <4>1. AllRows[i] = Row(i - 1, (i - 1) * F)
        BY <1>4, Zenon DEF EndToEnd
      <4>2. QED
        BY <4>1 DEF Row
    <3>2. i \in 1..H.height
      BY <1>4
    <3>3. i - 1 \in 0..(H.height - 1)
      BY <3>2, <1>4
    <3>4. QED
      BY <3>1, <3>3, <1>4a
  <2>2. QED
    BY <2>1, <1>1, <1>5 DEF OnlyGoodRows
<1>12. CompleteInOrder'
  BY <1>1, <1>2 DEF CompleteInOrder, FinishReady, callVars
<1>13. QED
  BY <1>6, <1>7, <1>8, <1>9, <1>10, <1>11, <1>12 DEF StreamInv

------------------------------------------------------------------------------
(* Theorems                                                                  *)

LEMMA InitHolds == Init => StreamInv
<1> SUFFICES ASSUME Init PROVE StreamInv
  OBVIOUS
<1>1. /\ FileLength \in Nat /\ PaletteBytes(H) \in Nat /\ H.meta_byte_count \in Nat
      /\ PXL_HEADER_BYTES \in Nat
  BY FileFacts DEF Init
<1>2. TypeOK
  <2>1. delivered \in Seq([index : Nat, from : Nat]) /\ ds \in Contexts
    BY EmptySeq DEF Init, FreshContext, Contexts
  <2>2. /\ hdr_have \in 0..PXL_HEADER_BYTES /\ pal_have \in 0..PaletteBytes(H)
        /\ meta_have \in 0..H.meta_byte_count /\ fed \in 0..FileLength
    BY <1>1 DEF Init
  <2>3. QED
    BY <2>1, <2>2 DEF Init, TypeOK
<1>3. SectionsInOrder /\ WindowAligned /\ CompleteInOrder
  BY DEF Init, SectionsInOrder, WindowAligned, CompleteInOrder
<1>4. CallInOrder
  BY DEF Init, CallInOrder, FreshContext
<1>5. RowsInOrder /\ OnlyGoodRows
  BY DEF Init, RowsInOrder, OnlyGoodRows
<1>6. QED
  BY <1>2, <1>3, <1>4, <1>5 DEF StreamInv

LEMMA StepKeeps == StreamInv /\ [Next]_vars => StreamInv'
<1> SUFFICES ASSUME StreamInv, [Next]_vars PROVE StreamInv'
  OBVIOUS
<1>1. CASE \E n \in 1..(FileLength - fed) : Feed(n)
  BY <1>1, FeedStepKeeps
<1>2. CASE FeedHeader
  BY <1>2, FeedHeaderKeeps
<1>3. CASE FeedPalette
  BY <1>3, FeedPaletteKeeps
<1>4. CASE FeedMeta
  BY <1>4, FeedMetaKeeps
<1>5. CASE FeedTrailing
  BY <1>5, FeedTrailingKeeps
<1>6. CASE FeedFrame
  BY <1>6, FeedFrameKeeps
<1>7. CASE Decompress
  BY <1>7, DecompressKeeps
<1>8. CASE WindowFull
  BY <1>8, WindowFullKeeps
<1>9. CASE FinishRefused \/ FinishRows
  BY <1>9, QuietFinishKeeps
<1>10. CASE FinishBcif
  BY <1>10, FinishBcifKeeps
<1>11. CASE UNCHANGED vars
  <2>1. UNCHANGED fileVars /\ UNCHANGED streamVars /\ UNCHANGED callVars
        /\ UNCHANGED seenVars
    BY <1>11 DEF vars
  <2>2. /\ H' = H /\ FileLength' = FileLength /\ file' = file /\ out_fmt' = out_fmt
    BY <2>1, FileFixed
  <2>3. TypeOK' /\ SectionsInOrder' /\ CallInOrder'
    BY <2>1, <2>2 DEF StreamInv, TypeOK, SectionsInOrder, CallInOrder,
                      streamVars, callVars, seenVars
  <2>4. WindowAligned' /\ RowsInOrder' /\ OnlyGoodRows'
    BY <2>1, QuietStep DEF StreamInv, streamVars, seenVars
  <2>5. CompleteInOrder'
    BY <2>1, <2>2 DEF StreamInv, CompleteInOrder, FinishReady, Bcif,
                      streamVars, callVars, seenVars
  <2>6. QED
    BY <2>3, <2>4, <2>5 DEF StreamInv
<1>12. QED
  BY <1>1, <1>2, <1>3, <1>4, <1>5, <1>6, <1>7, <1>8, <1>9, <1>10, <1>11
  DEF Next, FeedStep, Finish

\* The inductive invariant holds whatever the files, the chunks and the frames.
THEOREM StreamSafe == Spec => []StreamInv
<1>1. QED
  BY InitHolds, StepKeeps, PTL DEF Spec

\* Type correctness.
THEOREM TypeCorrect == Spec => []TypeOK
<1>1. StreamInv => TypeOK
  BY DEF StreamInv
<1>2. QED
  BY <1>1, StreamSafe, PTL

\* The callback sees the rows in order, each once, each from its own bytes of
\* the filtered stream.
THEOREM RowsComeInOrder == Spec => []RowsInOrder
<1>1. StreamInv => RowsInOrder
  BY DEF StreamInv
<1>2. QED
  BY <1>1, StreamSafe, PTL

\* No malformed row reaches the callback.
THEOREM RowsAreGood == Spec => []OnlyGoodRows
<1>1. StreamInv => OnlyGoodRows
  BY DEF StreamInv
<1>2. QED
  BY <1>1, StreamSafe, PTL

\* The window of one filtered row is never written past its end.
THEOREM WindowIsSafe == Spec => []WindowSafe
<1>1. StreamInv => WindowSafe
  BY DEF StreamInv, WindowAligned, WindowSafe
<1>2. QED
  BY <1>1, StreamSafe, PTL

\* What a complete verdict rests on.
LEMMA CompleteIsExact == StreamInv => CompleteMeansExact
<1> SUFFICES ASSUME StreamInv, finished = "complete"
             PROVE  Exact /\ fed >= FileLength - file.trailing /\ delivered = AllRows
  BY DEF CompleteMeansExact
<1>1. /\ state = "FRAME" /\ pc # "frame" /\ frame_done /\ rows_done = H.height
      /\ filtered_have = IF Bcif THEN H.raw_byte_count ELSE 0
  BY DEF StreamInv, CompleteInOrder, FinishReady
<1>2. /\ file \in Files /\ IsFile(file) /\ IsFrame(file.frame)
      /\ Decodable(H) /\ OutputFormatOk(H, out_fmt)
  BY <1>1, FileFacts, FilesAssumption DEF StreamInv, TypeOK, SectionsInOrder
<1>3. /\ H.height \in Nat \ {0} /\ F \in Nat \ {0}
      /\ H.raw_byte_count = H.height * F
  BY <1>2, FileFacts, HeaderSizes DEF F
<1>4. FrameComplete(file.frame, ds) /\ ds.in = file.frame.n /\ ds.out = RawSize
  BY <1>1 DEF StreamInv, WindowAligned, FrameComplete, RawSize
<1>5. RawSize = H.raw_byte_count
  <2>1. CASE Bcif
    BY <2>1, <1>1, <1>4 DEF StreamInv, WindowAligned
  <2>2. CASE ~Bcif
    <3>1. ds.out = rows_done * F + filtered_have /\ filtered_have = 0
      BY <2>2, <1>1 DEF StreamInv, WindowAligned
    <3>2. ds.out = H.height * F + 0
      BY <3>1, <1>1
    <3>3. H.height * F + 0 = H.height * F
      BY <1>3
    <3>4. QED
      BY <3>2, <3>3, <1>3, <1>4
  <2>3. QED
    BY <2>1, <2>2
<1>6. file.frame.bad = 0
  <2>1. DecodedTo(file.frame, ds) = file.frame.n
    BY <1>4 DEF DecodedTo
  <2>2. file.frame.bad # 0 => file.frame.n < file.frame.bad
    BY <2>1, <1>1 DEF StreamInv, WindowAligned
  <2>3. QED
    BY <2>2, <1>2 DEF IsFrame
<1>7. /\ delivered \in RowSeq /\ Len(delivered) = H.height /\ EndToEnd(delivered, F)
      /\ \A i \in 1..Len(delivered) : file.row[delivered[i].index] = "ok"
  BY <1>1 DEF StreamInv, TypeOK, RowsInOrder, OnlyGoodRows, RowSeq, EndToEnd
<1>8. ASSUME NEW y \in 0..(H.height - 1)
      PROVE  file.row[y] = "ok"
  <2>1. y + 1 \in 1..Len(delivered) /\ (y + 1) - 1 = y
    BY <1>3, <1>7
  <2>2. delivered[y + 1] = Row((y + 1) - 1, ((y + 1) - 1) * F)
    BY <2>1, <1>7, Zenon DEF EndToEnd
  <2>3. delivered[y + 1].index = y
    BY <2>1, <2>2 DEF Row
  <2>4. QED
    BY <2>1, <2>3, <1>7
<1>9. fed >= FileLength - file.trailing
  <2>1. /\ hdr_have = PXL_HEADER_BYTES /\ pal_have = PaletteBytes(H)
        /\ meta_have = H.meta_byte_count /\ in_pos = 0 /\ len \in Nat
        /\ hdr_have + pal_have + meta_have + ds.in + (len - in_pos) <= fed
        /\ fed \in 0..FileLength
    BY <1>1 DEF StreamInv, TypeOK, SectionsInOrder, CallInOrder
  <2>2. /\ PXL_HEADER_BYTES \in Nat /\ PaletteBytes(H) \in Nat
        /\ H.meta_byte_count \in Nat /\ FileLength \in Nat
        /\ file.frame.n \in Nat /\ file.trailing \in Nat
    BY <1>2, FileFacts DEF IsFrame, IsFile
  <2>3. QED
    BY <2>1, <2>2, <1>4 DEF FileLength, FrameOffset
<1>10. delivered = AllRows
  <2>1. /\ AllRows \in RowSeq /\ Len(AllRows) = H.height /\ EndToEnd(AllRows, F)
    BY <1>2, AllRowsInOrder
  <2>2. \A i \in 1..Len(delivered) : delivered[i] = AllRows[i]
    BY <2>1, <1>7 DEF EndToEnd
  <2>3. Len(delivered) = Len(AllRows)
    BY <2>1, <1>7
  <2>4. QED
    BY <2>1, <2>2, <2>3, <1>7, SeqEqual, Zenon DEF RowSeq
<1>11. QED
  BY <1>2, <1>5, <1>6, <1>8, <1>9, <1>10 DEF Exact, ExactFile

LEMMA CompleteIsExactNext == StreamInv' => CompleteMeansExact'
BY CompleteIsExact, PTL

\* "Truncated and corrupt inputs must be rejected": `complete' is said only of
\* a whole, exact file, all of whose rows were delivered.
THEOREM CompleteIsHonest == Spec => []CompleteMeansExact
<1>1. QED
  BY CompleteIsExact, StreamSafe, PTL

------------------------------------------------------------------------------
(* Between two calls nothing waits                                           *)

\* The rows that x decoded bytes hold: those delivered, when what is left is
\* less than a row or no row is left.
LEMMA RowsOf ==
  ASSUME NEW rows \in Nat, NEW width \in Nat \ {0}, NEW height \in Nat,
         NEW x \in Nat, rows <= height, rows * width <= x,
         rows < height => x < rows * width + width
  PROVE  rows = Smaller(height, x \div width)
<1> DEFINE q == x \div width
<1>1. q \in Nat /\ q >= rows
  <2>1. x \div width \in Nat
    OBVIOUS
  <2>2. rows <= x \div width
    OBVIOUS
  <2>3. QED
    BY <2>1, <2>2
<1>2. rows < height => q = rows
  <2>1. SUFFICES ASSUME rows < height PROVE x \div width = rows
    OBVIOUS
  <2> DEFINE have == x - rows * width
  <2>2. have \in Nat /\ have < width /\ x = rows * width + have
    BY <2>1
  <2> HIDE DEF have
  <2>3. (rows * width + have) \div width = rows
    BY <2>2
  <2>4. QED
    BY <2>2, <2>3
<1> HIDE DEF q
<1>3. rows = Smaller(height, q)
  BY <1>1, <1>2 DEF Smaller
<1>4. QED
  BY <1>3 DEF q

\* A section that takes `take' of the chunk leaves the rest, or needs it all.
LEMMA SectionMoves ==
  ASSUME len \in Nat, NEW all \in Nat, NEW have \in 0..all,
         NEW take, take = Take(all - have),
         \/ have + take < all /\ Leave
         \/ Continue(len - take)
  PROVE  /\ len' = len - take
         /\ pc' # "idle" => len' > 0
         /\ pc' # "frame"
<1>1. take \in Nat /\ len - take \in Nat /\ (have + take < all => len - take = 0)
  BY DEF Take, Smaller
<1>2. QED
  BY <1>1 DEF Leave, Continue

\* The header, palette and metadata sections account for every byte, and no row
\* is decoded when the frame begins.
LEMMA SectionProgress ==
  ASSUME StreamInv, CallProgress, FeedHeader \/ FeedPalette \/ FeedMeta
  PROVE  CallProgress'
<1>1. /\ pc = "loop" /\ state \in {"HEADER", "PALETTE", "META"}
      /\ fed' = fed /\ ds' = ds /\ rows_done' = rows_done
      /\ frame_done' = frame_done /\ filtered_have' = filtered_have
      /\ in_pos' = in_pos /\ H' = H /\ F' = F /\ file' = file
  BY FileFixed DEF FeedHeader, FeedPalette, FeedMeta, seenVars
<1>2. /\ len \in Nat /\ in_pos = 0 /\ fed \in Nat /\ ds.in \in Nat
      /\ hdr_have \in 0..PXL_HEADER_BYTES /\ pal_have \in 0..PaletteBytes(H)
      /\ meta_have \in 0..H.meta_byte_count
      /\ hdr_have \in Nat /\ pal_have \in Nat /\ meta_have \in Nat
      /\ PaletteBytes(H) \in Nat /\ H.meta_byte_count \in Nat
      /\ PXL_HEADER_BYTES \in Nat
  BY <1>1, SectionTypes
<1>3. hdr_have + pal_have + meta_have + ds.in + (len - 0) = fed
  BY <1>1, <1>2 DEF CallProgress, NothingDropped
<1>4. ASSUME NEW take \in Nat, take <= len,
             \/ hdr_have' = hdr_have + take /\ UNCHANGED <<pal_have, meta_have>>
             \/ pal_have' = pal_have + take /\ UNCHANGED <<hdr_have, meta_have>>
             \/ meta_have' = meta_have + take /\ UNCHANGED <<hdr_have, pal_have>>,
             len' = len - take
      PROVE  hdr_have' + pal_have' + meta_have' + ds'.in + (len' - in_pos') = fed'
  BY <1>1, <1>2, <1>3, <1>4
<1>5. CASE FeedHeader
  <2> DEFINE take == Take(PXL_HEADER_BYTES - hdr_have)
  <2>1. /\ state = "HEADER"
        /\ hdr_have' = hdr_have + take /\ UNCHANGED <<pal_have, meta_have>>
        /\ \/ hdr_have + take < PXL_HEADER_BYTES /\ Leave /\ state' = state
           \/ state' = "PALETTE" /\ Continue(len - take)
           \/ Fail
    BY <1>5 DEF FeedHeader
  <2>2. take \in Nat /\ take <= len
    BY <1>2 DEF Take, Smaller
  <2>3. CASE Fail
    BY <2>3, <1>1 DEF Fail, Leave, CallProgress, NothingDropped, RowsKeepUp
  <2>4. CASE ~Fail
    <3>1. len' = len - take /\ (pc' # "idle" => len' > 0)
      BY <2>1, <2>4, <1>2, SectionMoves
    <3>2. state' # "FRAME"
      BY <2>1, <2>4
    <3> HIDE DEF take
    <3>3. QED
      BY <1>4, <2>1, <2>2, <3>1, <3>2 DEF CallProgress, NothingDropped, RowsKeepUp
  <2>5. QED
    BY <2>3, <2>4
<1>6. CASE FeedPalette
  <2> DEFINE take == Take(PaletteBytes(H) - pal_have)
  <2>1. /\ pal_have' = pal_have + take /\ UNCHANGED <<hdr_have, meta_have>>
        /\ state' # "FRAME"
        /\ \/ pal_have + take < PaletteBytes(H) /\ Leave
           \/ Continue(len - take)
    BY <1>1, <1>6 DEF FeedPalette
  <2>2. take \in Nat /\ take <= len
    BY <1>2 DEF Take, Smaller
  <2>3. len' = len - take /\ (pc' # "idle" => len' > 0)
    BY <2>1, <1>2, SectionMoves
  <2> HIDE DEF take
  <2>4. QED
    BY <1>4, <2>1, <2>2, <2>3 DEF CallProgress, NothingDropped, RowsKeepUp
<1>7. CASE FeedMeta
  <2> DEFINE take == Take(H.meta_byte_count - meta_have)
  <2>1. /\ state = "META"
        /\ meta_have' = meta_have + take /\ UNCHANGED <<hdr_have, pal_have>>
        /\ \/ meta_have + take < H.meta_byte_count /\ Leave
           \/ Continue(len - take)
    BY <1>7 DEF FeedMeta
  <2>2. take \in Nat /\ take <= len
    BY <1>2 DEF Take, Smaller
  <2>3. len' = len - take /\ (pc' # "idle" => len' > 0)
    BY <2>1, <1>2, SectionMoves
  <2> HIDE DEF take
  <2>4. RowsKeepUp'
    <3>1. /\ file \in Files /\ ds = FreshContext /\ rows_done = 0 /\ Decodable(H)
      BY <2>1 DEF StreamInv, TypeOK, SectionsInOrder
    <3>2. /\ H.height \in Nat /\ F \in Nat \ {0} /\ IsFrame(file.frame)
      BY <3>1, FileFacts, HeaderSizes DEF F
    <3>3. file.frame.prod[DecodedTo(file.frame, ds)] = 0
      BY <3>1, <3>2, FreshContextOk DEF IsFrame
    <3>4. 0 = Smaller(H.height, 0 \div F)
      <4> DEFINE f == F
                 h == H.height
      <4>1. f \in Nat \ {0} /\ h \in Nat
        BY <3>2
      <4> HIDE DEF f, h
      <4>2. 0 * f <= 0 /\ 0 < 0 * f + f /\ 0 <= h /\ 0 \in Nat
        BY <4>1
      <4>3. 0 = Smaller(h, 0 \div f)
        BY <4>1, <4>2, RowsOf, Zenon
      <4>4. QED
        BY <4>3 DEF f, h
    <3>5. QED
      BY <1>1, <3>1, <3>3, <3>4 DEF RowsKeepUp
  <2>5. QED
    BY <1>4, <2>1, <2>2, <2>3, <2>4 DEF CallProgress, NothingDropped
<1>8. QED
  BY <1>5, <1>6, <1>7

\* What a turn of the inner loop leaves of the chunk, when it ends it.
LEMMA TurnLeaves ==
  ASSUME NEW took \in Nat, took <= len, len \in Nat, len > 0, pc = "frame",
         \/ LeaveFrame(took)
         \/ in_pos' = took /\ UNCHANGED <<pc, len>>
  PROVE  /\ pc' # "idle" => len' > 0
         /\ \/ len' - in_pos' = len - took
            \/ LeaveFrame(took) /\ ~frame_done' /\ took = 0
<1> DEFINE rest == len - took
<1>1. CASE LeaveFrame(took)
  <2>1. /\ in_pos' = 0
        /\ IF ~frame_done' /\ took = 0 THEN Leave ELSE Continue(rest)
    BY <1>1, Zenon DEF LeaveFrame
  <2>2. rest \in Nat
    OBVIOUS
  <2> HIDE DEF rest
  <2>3. CASE ~frame_done' /\ took = 0
    BY <2>1, <2>3, <1>1 DEF Leave
  <2>4. CASE ~(~frame_done' /\ took = 0)
    <3>1. Continue(rest)
      BY <2>1, <2>4
    <3>2. len' = rest /\ pc' = IF rest = 0 THEN "idle" ELSE "loop"
      BY <3>1 DEF Continue
    <3>3. len' - in_pos' = rest
      BY <2>1, <2>2, <3>2
    <3>4. pc' # "idle" => len' > 0
      BY <2>2, <3>2
    <3>5. QED
      BY <3>3, <3>4 DEF rest
  <2>5. QED
    BY <2>3, <2>4
<1>2. CASE in_pos' = took /\ UNCHANGED <<pc, len>>
  BY <1>2
<1>3. QED
  BY <1>1, <1>2

\* A turn of the inner loop drops nothing, and ends the loop only when every
\* decoded row is out: if zstd did not move, the window is full for good.
LEMMA TurnProgress ==
  ASSUME StreamInv, StreamInv', CallProgress, pc = "frame",
         NEW z, ds' = z, ContextOk(file.frame, z),
         ds.in <= z.in, z.in <= ds.in + (len - in_pos), ds.out <= z.out,
         NEW have, have = filtered_have + (z.out - ds.out), have <= Window,
         NEW called \in BOOLEAN, AfterDecompress(have, called),
         UNCHANGED <<fileVars, hdr_have, pal_have, meta_have, fed, finished>>,
         z.in = ds.in /\ z.out = ds.out =>
           \/ filtered_have = Window
           \/ /\ file.frame.prod[DecodedTo(file.frame, z)] = z.out
              /\ len # in_pos => called /\ FrameComplete(file.frame, z)
  PROVE  CallProgress'
<1> DEFINE took  == in_pos + (z.in - ds.in)
           moved == z.in # ds.in \/ filtered_have' # filtered_have
                    \/ rows_done' # rows_done
<1>1. /\ H' = H /\ F' = F /\ Bcif' = Bcif /\ Window' = Window /\ file' = file
      /\ fed' = fed /\ hdr_have' = hdr_have
      /\ pal_have' = pal_have /\ meta_have' = meta_have
  BY FileFixed
<1>2. /\ z.in \in Nat /\ z.out \in Nat /\ ds.in \in Nat /\ ds.out \in Nat
      /\ in_pos \in Nat /\ len \in Nat /\ in_pos <= len /\ len > 0
      /\ state = "FRAME" /\ frame_done = FALSE
      /\ rows_done \in Nat /\ filtered_have \in Nat
      /\ rows_done <= H.height /\ H.height \in Nat /\ F \in Nat \ {0}
      /\ filtered_have <= Window /\ Window \in Nat /\ (~Bcif => Window = F)
      /\ IsFrame(file.frame)
  BY FrameFacts DEF StreamInv, TypeOK, ContextOk, Contexts, CallProgress
<1>3. /\ hdr_have \in Nat /\ pal_have \in Nat /\ meta_have \in Nat /\ fed \in Nat
  <2>1. /\ PXL_HEADER_BYTES \in Nat /\ PaletteBytes(H) \in Nat
        /\ H.meta_byte_count \in Nat /\ FileLength \in Nat
    BY FileFacts, FrameFacts
  <2>2. QED
    BY <2>1 DEF StreamInv, TypeOK
<1>4. took \in Nat /\ took <= len
  BY <1>2
<1>5. CASE EmitFails(have)
  BY <1>5 DEF EmitFails, Fail, Leave, CallProgress, NothingDropped, RowsKeepUp
<1>6. CASE ~EmitFails(have)
  <2>1. /\ EmitRows(have) /\ state' = "FRAME"
        /\ frame_done' = (called /\ FrameComplete(file.frame, z))
        /\ \/ (frame_done' \/ ~moved) /\ LeaveFrame(took)
           \/ in_pos' = took /\ UNCHANGED <<pc, len>>
    BY <1>2, <1>6, Zenon DEF AfterDecompress, FrameComplete, GiveUp
  <2>2. filtered_have = Window => filtered_have' = Window
    <3>1. SUFFICES ASSUME filtered_have = Window PROVE filtered_have' = Window
      OBVIOUS
    <3>2. ~Bcif => rows_done = H.height
      BY <3>1, <1>2 DEF StreamInv, WindowAligned
    <3>3. have = Window
      BY <3>1, <1>2
    <3>4. NoRow(have)
      BY <3>2 DEF NoRow
    <3>5. QED
      BY <3>3, <3>4, <2>1 DEF EmitRows
  <2>3. ~moved => z.in = ds.in /\ z.out = ds.out
    <3>1. SUFFICES ASSUME ~moved PROVE z.in = ds.in /\ z.out = ds.out
      OBVIOUS
    <3>2. z.in = ds.in /\ filtered_have' = filtered_have /\ rows_done' = rows_done
      BY <3>1
    <3>3. filtered_have' = have
      BY <3>2, <2>1, <1>2 DEF EmitRows
    <3> DEFINE now == z.out
               old == ds.out
    <3>4. /\ filtered_have = filtered_have + (now - old)
          /\ filtered_have \in Nat /\ now \in Nat /\ old \in Nat
      BY <3>2, <3>3, <1>2
    <3> HIDE DEF now, old
    <3>5. now = old
      BY <3>4
    <3>6. QED
      BY <3>2, <3>5 DEF now, old
  <2>4. ~moved /\ ~frame_done' =>
          \/ filtered_have = Window
          \/ /\ file.frame.prod[DecodedTo(file.frame, z)] = z.out
             /\ took # 0
    <3>1. took = 0 => len # in_pos
      BY <1>2
    <3>2. QED
      BY <2>1, <2>3, <3>1
  <2> HIDE DEF took, moved
  <2>5. /\ pc' # "idle" => len' > 0
        /\ \/ len' - in_pos' = len - took
           \/ LeaveFrame(took) /\ ~frame_done' /\ took = 0
    BY <1>2, <1>4, <2>1, TurnLeaves
  <2>6. NothingDropped'
    <3>1. CASE filtered_have = Window
      BY <3>1, <1>1, <2>1, <2>2 DEF NothingDropped
    <3>2. CASE filtered_have # Window
      <4>1. hdr_have + pal_have + meta_have + ds.in + (len - in_pos) = fed
        BY <3>2, <1>2 DEF CallProgress, NothingDropped
      <4>2. CASE len' - in_pos' = len - took
        <5> DEFINE left == len' - in_pos'
        <5>1. left = len - (in_pos + (z.in - ds.in))
          BY <4>2 DEF took
        <5> HIDE DEF left
        <5>2. hdr_have + pal_have + meta_have + z.in + left = fed
          BY <4>1, <5>1, <1>2, <1>3
        <5>3. QED
          BY <5>2, <1>1 DEF NothingDropped, left
      <4>3. CASE LeaveFrame(took) /\ ~frame_done' /\ took = 0 /\ len' - in_pos' # len - took
        <5>1. moved
          BY <3>2, <4>3, <2>4
        <5>2. in_pos' = took /\ UNCHANGED <<pc, len>>
          BY <5>1, <4>3, <2>1
        <5>3. QED
          BY <5>2, <4>3
      <4>4. QED
        BY <2>5, <4>2, <4>3
    <3>3. QED
      BY <3>1, <3>2
  <2>7. RowsKeepUp'
    <3>1. SUFFICES ASSUME pc' # "frame", ~Bcif
          PROVE  rows_done' = Smaller(H.height, file.frame.prod[DecodedTo(file.frame, z)] \div F)
      BY <1>1 DEF RowsKeepUp
    <3>2. frame_done' \/ ~moved
      BY <3>1, <2>1
    <3> DEFINE x == file.frame.prod[DecodedTo(file.frame, z)]
               got == filtered_have'
               out == z.out
               rows == rows_done'
    <3>3. /\ got \in Nat /\ rows \in Nat /\ rows <= H.height
          /\ out = rows * F + got
          /\ rows < H.height => got < F
      BY <1>1, <2>1, <3>1 DEF StreamInv, TypeOK, WindowAligned
    <3>4. x \in Nat /\ out <= x
      <4>1. DecodedTo(file.frame, z) \in 0..file.frame.n
        BY <1>2 DEF ContextOk, Contexts, DecodedTo, IsFrame
      <4>2. QED
        BY <4>1, <1>2 DEF ContextOk, IsFrame
    <3>5. rows < H.height => x = out
      <4>1. SUFFICES ASSUME rows < H.height PROVE x = out
        OBVIOUS
      <4>2. filtered_have # Window
        BY <2>2, <3>1, <3>3, <4>1, <1>2
      <4>3. CASE frame_done'
        <5>1. FrameComplete(file.frame, z)
          BY <4>3, <2>1
        <5>2. z.hostage => z.in = file.frame.n - 1
          BY DEF ContextOk
        <5>3. DecodedTo(file.frame, z) = file.frame.n
          BY <5>1, <5>2, <1>2 DEF FrameComplete, DecodedTo, IsFrame
        <5>4. QED
          BY <5>1, <5>3 DEF FrameComplete
      <4>4. CASE ~frame_done'
        BY <4>2, <4>4, <3>2, <2>4
      <4>5. QED
        BY <4>3, <4>4
    <3> HIDE DEF x, got, rows, out
    <3>6. rows * F + got <= x /\ (rows < H.height => x = rows * F + got /\ got < F)
      BY <3>3, <3>4, <3>5
    <3>7. rows = Smaller(H.height, x \div F)
      <4> DEFINE f == F
                 h == H.height
      <4>1. /\ f \in Nat \ {0} /\ h \in Nat /\ rows \in Nat /\ got \in Nat
            /\ x \in Nat /\ rows <= h /\ rows * f + got <= x
            /\ rows < h => x = rows * f + got /\ got < f
        BY <1>2, <3>3, <3>4, <3>6
      <4> HIDE DEF f, h
      <4>2. rows * f <= x /\ (rows < h => x < rows * f + f)
        <5> DEFINE base == rows * f
        <5>1. base \in Nat /\ base + got <= x /\ (rows < h => x = base + got /\ got < f)
          BY <4>1
        <5> HIDE DEF base
        <5>2. base <= x /\ (rows < h => x < base + f)
          BY <4>1, <5>1
        <5>3. QED
          BY <5>2 DEF base
      <4>3. rows = Smaller(h, x \div f)
        BY <4>1, <4>2, RowsOf, Zenon
      <4>4. QED
        BY <4>3 DEF f, h
    <3>8. QED
      BY <3>7 DEF rows, x
  <2>8. QED
    BY <2>5, <2>6, <2>7 DEF CallProgress
<1>7. QED
  BY <1>5, <1>6

\* A call of ZSTD_decompressStream with input and room moves, or ends the frame.
LEMMA DecompressProgress ==
  ASSUME StreamInv, StreamInv', CallProgress, Decompress
  PROVE  CallProgress'
<1> DEFINE room  == Window - filtered_have
           avail == len - in_pos
<1>1. /\ pc = "frame" /\ filtered_have < Window
      /\ UNCHANGED <<fileVars, hdr_have, pal_have, meta_have, fed, finished>>
      /\ \E d \in ReadStops(file.frame, ds, avail, room) :
           \/ /\ ReadError(file.frame, ds, d)
              /\ Fail
              /\ in_pos' = 0
              /\ UNCHANGED <<filtered_have, rows_done, frame_done, ds, delivered>>
           \/ /\ ~ReadError(file.frame, ds, d)
              /\ ds' = AfterCall(file.frame, ds, d, avail, room)
              /\ AfterDecompress(filtered_have + (ds'.out - ds.out), TRUE)
  BY DEF Decompress
<1>2. PICK d \in ReadStops(file.frame, ds, avail, room) :
           \/ /\ ReadError(file.frame, ds, d)
              /\ Fail
              /\ in_pos' = 0
              /\ UNCHANGED <<filtered_have, rows_done, frame_done, ds, delivered>>
           \/ /\ ~ReadError(file.frame, ds, d)
              /\ ds' = AfterCall(file.frame, ds, d, avail, room)
              /\ AfterDecompress(filtered_have + (ds'.out - ds.out), TRUE)
  BY <1>1
<1>3. /\ IsFrame(file.frame) /\ ContextOk(file.frame, ds)
      /\ room \in Nat \ {0} /\ avail \in Nat
      /\ ds.out \in Nat /\ ds.in \in Nat /\ filtered_have \in Nat /\ Window \in Nat
      /\ len \in Nat /\ in_pos \in Nat /\ len > 0
  BY <1>1, FrameFacts DEF ContextOk, Contexts, CallProgress
<1>4. CASE Fail
  BY <1>4 DEF Fail, Leave, CallProgress, NothingDropped, RowsKeepUp
<1>5. CASE /\ ds' = AfterCall(file.frame, ds, d, avail, room)
           /\ AfterDecompress(filtered_have + (ds'.out - ds.out), TRUE)
  <2> DEFINE z    == AfterCall(file.frame, ds, d, avail, room)
             have == filtered_have + (z.out - ds.out)
  <2> HIDE DEF room, avail
  <2>1. /\ ContextOk(file.frame, z)
        /\ ds.out <= z.out /\ z.out <= ds.out + room
        /\ ds.in <= z.in /\ z.in <= ds.in + avail
    BY <1>3, CallKeepsContext
  <2>2. z.in = ds.in /\ z.out = ds.out =>
          /\ file.frame.prod[DecodedTo(file.frame, z)] = z.out
          /\ len # in_pos => FrameComplete(file.frame, z)
    <3>1. len # in_pos => avail # 0
      BY <1>3 DEF avail
    <3>2. QED
      BY <1>3, <3>1, CallMoves
  <2>3. ds' = z /\ AfterDecompress(have, TRUE)
    BY <1>5
  <2> HIDE DEF z
  <2>4. z.out \in Nat
    BY <2>1 DEF ContextOk, Contexts
  <2>5. have <= Window
    BY <1>3, <2>1, <2>4 DEF room
  <2> HIDE DEF have
  <2>6. have = filtered_have + (z.out - ds.out) /\ z.in <= ds.in + (len - in_pos)
    BY <2>1 DEF have, avail
  <2>7. QED
    BY <1>1, <2>1, <2>2, <2>3, <2>5, <2>6, TurnProgress
<1>6. QED
  BY <1>2, <1>4, <1>5

\* The window is full: only the frame's end or a new row could empty it.
LEMMA WindowFullProgress ==
  ASSUME StreamInv, StreamInv', CallProgress, WindowFull
  PROVE  CallProgress'
<1>1. /\ pc = "frame" /\ ds' = ds /\ AfterDecompress(filtered_have, FALSE)
      /\ filtered_have >= Window
      /\ UNCHANGED <<fileVars, hdr_have, pal_have, meta_have, fed, finished>>
  BY DEF WindowFull
<1>2. /\ ContextOk(file.frame, ds) /\ ds.in \in Nat /\ ds.out \in Nat
      /\ in_pos \in Nat /\ len \in Nat /\ in_pos <= len
      /\ filtered_have \in Nat /\ filtered_have <= Window /\ Window \in Nat
  BY <1>1, FrameFacts DEF ContextOk, Contexts
<1>3. /\ ds.in <= ds.in /\ ds.in <= ds.in + (len - in_pos) /\ ds.out <= ds.out
      /\ filtered_have = filtered_have + (ds.out - ds.out)
      /\ filtered_have = Window
  BY <1>1, <1>2
<1>4. QED
  BY <1>1, <1>2, <1>3, TurnProgress

\* Every step keeps what is left of a call accounted for.
LEMMA StepProgresses ==
  StreamInv /\ StreamInv' /\ CallProgress /\ [Next]_vars => CallProgress'
<1> SUFFICES ASSUME StreamInv, StreamInv', CallProgress, [Next]_vars
             PROVE  CallProgress'
  OBVIOUS
<1>1. CASE FeedHeader \/ FeedPalette \/ FeedMeta
  BY <1>1, SectionProgress
<1>2. CASE Decompress
  BY <1>2, DecompressProgress
<1>3. CASE WindowFull
  BY <1>3, WindowFullProgress
<1>4. ASSUME UNCHANGED fileVars
      PROVE  H' = H /\ F' = F /\ Bcif' = Bcif /\ Window' = Window /\ file' = file
  BY <1>4, FileFixed
<1>5. CASE \E n \in 1..(FileLength - fed) : Feed(n)
  <2>1. PICK n \in 1..(FileLength - fed) : Feed(n)
    BY <1>5
  <2>2. /\ file \in Files /\ fed \in 0..FileLength /\ FileLength \in Nat
        /\ len = 0 /\ in_pos = 0 /\ state # "ERROR"
        /\ ds.in \in Nat /\ hdr_have \in 0..PXL_HEADER_BYTES
        /\ pal_have \in 0..PaletteBytes(H) /\ meta_have \in 0..H.meta_byte_count
        /\ PaletteBytes(H) \in Nat /\ H.meta_byte_count \in Nat
        /\ PXL_HEADER_BYTES \in Nat
    BY <2>1, FileFacts DEF Feed, StreamInv, TypeOK, CallInOrder, Contexts
  <2>3. /\ UNCHANGED fileVars /\ UNCHANGED streamVars /\ pc = "idle"
        /\ pc' = "loop" /\ len' = n /\ fed' = fed + n /\ in_pos' = in_pos
    BY <2>1 DEF Feed
  <2>4. RowsKeepUp'
    BY <1>4, <2>3 DEF CallProgress, RowsKeepUp, streamVars
  <2>5. NothingDropped'
    <3>1. CASE hdr_have + pal_have + meta_have + ds.in + (len - in_pos) = fed
      <4>1. hdr_have + pal_have + meta_have + ds.in + (n - 0) = fed + n
        BY <2>2, <3>1
      <4>2. QED
        BY <4>1, <2>2, <2>3 DEF NothingDropped, streamVars
    <3>2. CASE state = "FRAME" /\ (frame_done \/ filtered_have = Window)
      BY <3>2, <1>4, <2>3 DEF NothingDropped, streamVars
    <3>3. QED
      BY <3>1, <3>2, <2>2 DEF CallProgress, NothingDropped
  <2>6. QED
    BY <2>3, <2>4, <2>5 DEF CallProgress
<1>6. CASE FeedTrailing
  <2>1. /\ UNCHANGED fileVars /\ UNCHANGED streamVars /\ pc = "loop" /\ pc' = "idle"
        /\ state = "FRAME" /\ frame_done
    BY <1>6 DEF FeedTrailing, Leave
  <2>2. QED
    BY <2>1, <1>4 DEF CallProgress, NothingDropped, RowsKeepUp, streamVars
<1>7. CASE FeedFrame
  <2>1. /\ UNCHANGED fileVars /\ UNCHANGED streamVars /\ pc = "loop" /\ pc' = "frame"
        /\ state = "FRAME" /\ in_pos' = 0 /\ len' = len /\ fed' = fed
    BY <1>7 DEF FeedFrame, seenVars
  <2>2. in_pos = 0
    BY <2>1 DEF StreamInv, CallInOrder
  <2>3. QED
    BY <2>1, <2>2, <1>4 DEF CallProgress, NothingDropped, RowsKeepUp, streamVars
<1>8. CASE Finish
  <2>1. /\ pc = "idle"
        /\ UNCHANGED <<fileVars, state, hdr_have, pal_have, meta_have,
                       filtered_have, frame_done, ds, callVars, fed>>
        /\ Bcif \/ rows_done' = rows_done
    BY <1>8, FinishFacts DEF Finish, FinishRefused, FinishBcif, FinishRows,
                            BcifPending, streamVars
  <2>2. QED
    BY <2>1, <1>4 DEF CallProgress, NothingDropped, RowsKeepUp, callVars
<1>9. CASE UNCHANGED vars
  <2>1. /\ UNCHANGED fileVars /\ UNCHANGED streamVars /\ UNCHANGED callVars
        /\ UNCHANGED seenVars
    BY <1>9 DEF vars
  <2>2. QED
    BY <2>1, <1>4 DEF CallProgress, NothingDropped, RowsKeepUp,
                      streamVars, callVars, seenVars
<1>10. QED
  BY <1>1, <1>2, <1>3, <1>5, <1>6, <1>7, <1>8, <1>9 DEF Next, FeedStep

LEMMA NothingWaitsBetweenCalls == StreamInv /\ CallProgress => NothingWaits
<1> SUFFICES ASSUME StreamInv, CallProgress PROVE NothingWaits
  OBVIOUS
<1>1. NoRowLeftBehind
  BY DEF CallProgress, RowsKeepUp, NoRowLeftBehind
<1>2. ASSUME pc = "idle", state # "ERROR"
      PROVE  LET used == hdr_have + pal_have + meta_have + ds.in
             IN  /\ used <= fed
                 /\ used < fed => frame_done \/ (state = "FRAME" /\ filtered_have = Window)
  <2> DEFINE used == hdr_have + pal_have + meta_have + ds.in
  <2>1. len = 0 /\ in_pos = 0
    BY <1>2 DEF StreamInv, CallInOrder
  <2>2. used + (len - in_pos) <= fed
    BY DEF StreamInv, CallInOrder
  <2>3. \/ used + (len - in_pos) = fed
        \/ state = "FRAME" /\ (frame_done \/ filtered_have = Window)
    BY <1>2 DEF CallProgress, NothingDropped
  <2>4. used \in Nat /\ fed \in Nat
    <3>1. file \in Files
      BY DEF StreamInv, TypeOK
    <3>2. /\ PaletteBytes(H) \in Nat /\ H.meta_byte_count \in Nat
          /\ PXL_HEADER_BYTES \in Nat /\ FileLength \in Nat
      BY <3>1, FileFacts
    <3>3. QED
      BY <3>2 DEF StreamInv, TypeOK, Contexts
  <2> HIDE DEF used
  <2>5. used <= fed /\ (used < fed => frame_done \/ (state = "FRAME" /\ filtered_have = Window))
    BY <2>1, <2>2, <2>3, <2>4
  <2>6. QED
    BY <2>5 DEF used
<1>3. EveryByteUsedOnce
  BY <1>2, Zenon DEF EveryByteUsedOnce
<1>4. QED
  BY <1>1, <1>3 DEF NothingWaits

LEMMA ProgressInit == Init => CallProgress
<1> SUFFICES ASSUME Init PROVE CallProgress
  OBVIOUS
<1>1. pc = "idle" /\ state = "HEADER"
  BY DEF Init
<1>2. hdr_have + pal_have + meta_have + ds.in + (len - in_pos) = fed
  BY DEF Init, FreshContext
<1>3. QED
  BY <1>1, <1>2 DEF CallProgress, NothingDropped, RowsKeepUp

\* When a call of pxl_stream_feed returns, every byte it was given was used by
\* the section it belongs to, and every row those bytes hold was delivered:
\* for every file, every chunking and every way zstd splits its output.
THEOREM NothingIsLeftWaiting == Spec => []NothingWaits
<1>1. QED
  BY ProgressInit, StepProgresses, NothingWaitsBetweenCalls, StreamSafe, PTL DEF Spec

------------------------------------------------------------------------------
(* The push decoder implements RowSource                                     *)

\* Of a whole picture every row may be shown.
LEMMA ExactMeansValid ==
  ASSUME file \in Files, Exact
  PROVE  ValidRows = 0..(H.height - 1)
<1>1. /\ H.height \in Nat \ {0} /\ F \in Nat \ {0} /\ RawSize = H.height * F
      /\ \A y \in 0..(H.height - 1) : file.row[y] = "ok"
  BY FileFacts, HeaderSizes DEF Exact, ExactFile, F
<1>2. ASSUME NEW y \in 0..(H.height - 1)
      PROVE  (y + 1) * F <= RawSize
  <2> DEFINE h == H.height
             f == F
  <2>1. /\ h \in Nat /\ f \in Nat /\ y \in Nat /\ y + 1 <= h /\ RawSize = h * f
    BY <1>1
  <2> HIDE DEF h, f
  <2>2. (y + 1) * f + (h - (y + 1)) * f = h * f /\ (h - (y + 1)) * f \in Nat
        /\ (y + 1) * f \in Nat
    BY <2>1
  <2>3. (y + 1) * f <= h * f
    BY <2>2
  <2>4. QED
    BY <2>1, <2>3 DEF f
<1>3. QED
  BY <1>1, <1>2 DEF ValidRows

LEMMA SourceInit == Init => Source!Init
<1> SUFFICES ASSUME Init PROVE Source!Init
  OBVIOUS
<1>1. file \in Files /\ H.height \in Nat
  BY FileFacts DEF Init
<1>2. ValidRows \subseteq 0..(H.height - 1)
  BY DEF ValidRows
<1>3. Exact => ValidRows = 0..(H.height - 1)
  BY <1>1, ExactMeansValid
<1>4. rows_done = 0 /\ finished = "not_asked"
  BY DEF Init
<1>5. QED
  BY <1>1, <1>2, <1>3, <1>4 DEF Source!Init, Source!Pictures

\* No step touches the file, so the picture stands.
LEMMA PictureStands ==
  ASSUME UNCHANGED fileVars
  PROVE  /\ H'.height = H.height /\ ValidRows' = ValidRows /\ (Exact' <=> Exact)
<1>1. /\ file' = file /\ out_fmt' = out_fmt /\ H' = H /\ F' = F /\ RawSize' = RawSize
  BY FileFixed
<1>2. QED
  BY <1>1 DEF ValidRows, Exact, ExactFile

\* A turn of the inner loop shows the next row, or none.
LEMMA TurnShows ==
  ASSUME StreamInv, StreamInv', Decompress \/ WindowFull
  PROVE  /\ UNCHANGED fileVars /\ finished' = finished /\ finished # "complete"
         /\ \/ rows_done' = rows_done
            \/ rows_done' = rows_done + 1 /\ rows_done \in ValidRows
<1>1. /\ pc = "frame"
      /\ UNCHANGED fileVars /\ finished' = finished
  BY DEF Decompress, WindowFull
<1>2. /\ \/ rows_done' = rows_done
         \/ /\ rows_done' = rows_done + 1 /\ RowOk(rows_done) /\ ~Bcif
            /\ rows_done # H.height /\ state' = state
  BY DEF Decompress, WindowFull, AfterDecompress, EmitRows, EmitFails, NoRow
<1>3. /\ finished # "complete" /\ state = "FRAME" /\ rows_done \in Nat
      /\ rows_done <= H.height /\ H.height \in Nat /\ F \in Nat
      /\ IsFrame(file.frame)
  BY <1>1, FrameFacts
<1>4. ASSUME rows_done' = rows_done + 1, RowOk(rows_done), ~Bcif,
             rows_done # H.height, state' = state
      PROVE  rows_done \in ValidRows
  <2> DEFINE z == ds'
             next == rows_done + 1
             have == filtered_have'
  <2>1. file' = file /\ F' = F /\ Bcif' = Bcif
    BY <1>1, FileFixed
  <2>2. /\ ContextOk(file.frame, z) /\ z.out = next * F + have /\ have \in Nat
    BY <1>3, <1>4, <2>1 DEF StreamInv, WindowAligned, TypeOK
  <2> HIDE DEF z, have
  <2>3. z.out <= RawSize
    <3>1. /\ DecodedTo(file.frame, z) \in 0..file.frame.n
          /\ z.out <= file.frame.prod[DecodedTo(file.frame, z)] /\ z.out \in Nat
      BY <1>3, <2>2 DEF ContextOk, Contexts, DecodedTo, IsFrame
    <3>2. file.frame.n \in 0..file.frame.n
      BY <1>3 DEF IsFrame
    <3>3. file.frame.prod[DecodedTo(file.frame, z)] <= RawSize
      BY <1>3, <3>1, <3>2 DEF IsFrame, RawSize
    <3>4. /\ file.frame.prod[DecodedTo(file.frame, z)] \in Nat /\ RawSize \in Nat
      BY <1>3, <3>1, <3>2 DEF IsFrame, RawSize
    <3>5. QED
      BY <3>1, <3>3, <3>4
  <2>4. next * F <= RawSize
    <3>1. next * F \in Nat /\ RawSize \in Nat
      BY <1>3 DEF IsFrame, RawSize
    <3> HIDE DEF next
    <3>2. QED
      BY <3>1, <2>2, <2>3
  <2>5. rows_done \in 0..(H.height - 1) /\ file.row[rows_done] = "ok"
    BY <1>3, <1>4 DEF RowOk
  <2>6. QED
    BY <2>4, <2>5 DEF ValidRows
<1>5. QED
  BY <1>1, <1>2, <1>3, <1>4

LEMMA SourceStep ==
  ASSUME StreamInv, StreamInv', [Next]_vars
  PROVE  [Source!Next]_(Source!vars)
<1> DEFINE pic == [height |-> H.height, valid |-> ValidRows, whole |-> Exact]
<1>1. UNCHANGED fileVars
  BY DEF Next, Feed, FeedStep, FeedHeader, FeedPalette, FeedMeta, FeedTrailing,
         FeedFrame, Decompress, WindowFull, Finish, FinishRefused, FinishBcif,
         FinishRows, vars
<1>2. pic' = pic
  <2>1. file' = file /\ H' = H /\ ValidRows' = ValidRows /\ out_fmt' = out_fmt
        /\ RawSize' = RawSize
    BY <1>1, FileFixed, PictureStands
  <2>2. Exact' = Exact
    BY <2>1 DEF Exact, ExactFile
  <2>3. QED
    BY <2>1, <2>2
<1>3. file \in Files /\ rows_done \in Nat /\ H.height \in Nat
  BY FileFacts DEF StreamInv, TypeOK
<1>4. CASE rows_done' = rows_done /\ finished' = finished
  BY <1>2, <1>4 DEF Source!vars
<1>5. CASE Decompress \/ WindowFull
  <2>1. CASE rows_done' = rows_done
    BY <2>1, <1>5, TurnShows, <1>4
  <2>2. CASE rows_done' = rows_done + 1 /\ rows_done \in ValidRows
    <3>1. /\ finished' = finished /\ finished # "complete"
      BY <1>5, TurnShows
    <3>2. /\ rows_done' \in rows_done..H.height
          /\ rows_done..(rows_done' - 1) \subseteq ValidRows
      <4>1. rows_done \in 0..(H.height - 1)
        BY <2>2 DEF ValidRows
      <4>2. (rows_done + 1) - 1 = rows_done /\ rows_done + 1 \in rows_done..H.height
        BY <4>1, <1>3
      <4>3. rows_done' \in rows_done..H.height /\ rows_done' - 1 = rows_done
        BY <4>2, <2>2
      <4>4. rows_done..rows_done = {rows_done}
        BY <1>3
      <4>5. QED
        BY <4>3, <4>4, <2>2
    <3>3. Source!Show
      BY <3>1, <3>2, <1>2 DEF Source!Show, Source!Advance
    <3>4. QED
      BY <3>3 DEF Source!Next
  <2>3. QED
    BY <1>5, <2>1, <2>2, TurnShows
<1>6. CASE finished' = "complete" /\ (FinishBcif \/ FinishRows)
  <2>1. Exact
    <3>1. CompleteMeansExact'
      BY CompleteIsExactNext
    <3>2. QED
      BY <3>1, <1>1, <1>6, PictureStands DEF CompleteMeansExact
  <2>2. rows_done' = H.height /\ rows_done <= H.height
    <3>1. H' = H /\ CompleteInOrder'
      BY <1>1, FileFixed DEF StreamInv
    <3>2. pc = "idle" /\ state = "FRAME"
      BY <1>6 DEF FinishBcif, FinishRows, FinishReady
    <3>3. QED
      BY <3>1, <3>2, <1>6 DEF CompleteInOrder, StreamInv, WindowAligned
  <2>3. rows_done..(H.height - 1) \subseteq ValidRows
    BY <2>1, <1>3, ExactMeansValid
  <2>4. Source!Accept
    BY <2>1, <2>2, <2>3, <1>2, <1>3, <1>6 DEF Source!Accept, Source!Advance
  <2>5. QED
    BY <2>4 DEF Source!Next
<1>7. CASE finished' # "complete" /\ Finish
  <2>1. finished' = "incomplete" /\ rows_done' = rows_done
    BY <1>7 DEF Finish, FinishRefused, FinishBcif, FinishRows, Answer, streamVars
  <2>2. finished # "complete"
    BY <1>7 DEF Finish, FinishRefused, FinishBcif, FinishRows, Answer,
                StreamInv, CompleteInOrder
  <2>3. Source!Refuse
    BY <2>1, <2>2, <1>2 DEF Source!Refuse
  <2>4. QED
    BY <2>3 DEF Source!Next
<1>8. CASE FinishRefused
  BY <1>8, <1>7 DEF Finish, FinishRefused, Answer
<1>9. CASE ~(Decompress \/ WindowFull) /\ ~Finish
  <2>1. rows_done' = rows_done /\ finished' = finished
    BY <1>9 DEF Next, Feed, FeedStep, FeedHeader, FeedPalette, FeedMeta,
                FeedTrailing, FeedFrame, streamVars, seenVars, vars
  <2>2. QED
    BY <2>1, <1>4
<1>10. QED
  BY <1>5, <1>6, <1>7, <1>8, <1>9 DEF Finish

\* Every behaviour of the push decoder is one RowSource allows: rows appear
\* from the top, only valid ones, and `complete' is said of a whole picture.
THEOREM PushDecoderIsRowSource == Spec => ImplementsRowSource
<1>1. Init => Source!Init
  BY SourceInit
<1>2. StreamInv /\ StreamInv' /\ [Next]_vars => [Source!Next]_(Source!vars)
  BY SourceStep
<1>3. QED
  BY <1>1, <1>2, StreamSafe, PTL DEF Spec, ImplementsRowSource, Source!Spec

\* A verdict stands, and a stream in error stays silent.
THEOREM VerdictsAreFinal == Spec => VerdictIsFinal
<1> DEFINE Stands ==
      /\ finished = "complete" => finished' = "complete" /\ delivered' = delivered
      /\ state = "ERROR" => /\ state' = "ERROR" /\ delivered' = delivered
                            /\ finished' # "complete"
<1>1. StreamInv /\ [Next]_vars => [Stands]_vars
  <2> SUFFICES ASSUME StreamInv, Next PROVE Stands
    OBVIOUS
  <2>1. CASE \E n \in 1..(FileLength - fed) : Feed(n)
    BY <2>1 DEF Feed, streamVars, StreamInv, CompleteInOrder
  <2>2. CASE FeedHeader \/ FeedPalette \/ FeedMeta \/ FeedTrailing \/ FeedFrame
    BY <2>2 DEF FeedHeader, FeedPalette, FeedMeta, FeedTrailing, FeedFrame,
                seenVars, streamVars
  <2>3. CASE Decompress \/ WindowFull
    <3>1. pc = "frame"
      BY <2>3 DEF Decompress, WindowFull
    <3>2. QED
      BY <3>1, FrameFacts
  <2>4. CASE Finish
    <3>1. CASE finished = "complete"
      <4>1. state = "FRAME" /\ FinishReady /\ rows_done = H.height
        BY <3>1 DEF StreamInv, CompleteInOrder
      <4>2. H.height # 0
        BY <4>1, HeaderSizes, FileFacts
        DEF StreamInv, TypeOK, SectionsInOrder
      <4>3. FinishRows
        BY <2>4, <4>1, <4>2 DEF Finish, FinishRefused, FinishBcif, BcifPending
      <4>4. QED
        BY <4>1, <4>3 DEF FinishRows, Answer, streamVars
    <3>2. CASE finished # "complete"
      <4>1. state = "ERROR" => FinishRefused
        BY <2>4 DEF Finish, FinishBcif, FinishRows, FinishReady
      <4>2. QED
        BY <3>2, <4>1 DEF FinishRefused, Answer, streamVars
    <3>3. QED
      BY <3>1, <3>2
  <2>5. QED
    BY <2>1, <2>2, <2>3, <2>4 DEF Next, FeedStep
<1>2. QED
  BY <1>1, StreamSafe, PTL DEF Spec, VerdictIsFinal
==============================================================================
