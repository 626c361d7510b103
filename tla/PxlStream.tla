------------------------------ MODULE PxlStream ------------------------------
(***************************************************************************)
(* The push decoder of pxl_codec_decode.c: a caller feeds a .pxl file in   *)
(* chunks of any size; the decoder collects the header, the palette and    *)
(* the metadata, decompresses the frame through a window of one filtered   *)
(* row (the whole image under BCIF), and hands every finished row to the   *)
(* caller's callback.                                                      *)
(*                                                                         *)
(* One call of pxl_stream_feed is Feed, then one step per turn of its      *)
(* loops, so that the callbacks happen between states.  The file is fixed  *)
(* in the initial state.                                                   *)
(***************************************************************************)
EXTENDS PxlFile, Sequences

CONSTANTS
  OutputFormats,  \* the output formats a caller may ask for
  OutOfMemory     \* the outcomes of stream_begin's allocations: {FALSE} or BOOLEAN

ASSUME StreamAssumption ==
  /\ OutputFormats \subseteq {"NATIVE", "PACKED"}
  /\ OutOfMemory \subseteq BOOLEAN

VARIABLES
  out_fmt,      \* fixed by the caller, as the file is
  \* struct pxl_stream
  state, hdr_have, pal_have, meta_have, filtered_have, rows_done, frame_done,
  ds,           \* the zstd context
  \* the call of pxl_stream_feed in progress
  pc,           \* idle | loop: while (len) | frame: for (;;)
  len,          \* bytes of the chunk the outer loop has not consumed
  in_pos,       \* in.pos of the inner loop
  \* what the caller has done and seen
  fed,          \* bytes of the file handed over so far
  delivered,    \* the rows the callback has received
  finished      \* the last answer of pxl_stream_finish

fileVars   == <<file, out_fmt>>
streamVars == <<state, hdr_have, pal_have, meta_have, filtered_have, rows_done,
                frame_done, ds>>
callVars   == <<pc, len, in_pos>>
seenVars   == <<fed, delivered, finished>>
vars       == <<fileVars, streamVars, callVars, seenVars>>

------------------------------------------------------------------------------
\* filtered_cap
Window == IF Bcif THEN H.raw_byte_count ELSE F

\* A row as the callback sees it: its index, and the offset in the filtered
\* stream its bytes were taken from.
Row(y, offset) == [index |-> y, from |-> offset]

Init ==
  /\ file \in Files
  /\ out_fmt \in OutputFormats
  /\ state = "HEADER"
  /\ hdr_have = 0 /\ pal_have = 0 /\ meta_have = 0
  /\ filtered_have = 0 /\ rows_done = 0 /\ frame_done = FALSE
  /\ ds = FreshContext
  /\ pc = "idle" /\ len = 0 /\ in_pos = 0
  /\ fed = 0 /\ delivered = <<>> /\ finished = "not_asked"

------------------------------------------------------------------------------
(* pxl_stream_feed.  A call on a stream in ERROR returns -1 and changes      *)
(* nothing, as does an empty chunk.                                          *)

Feed(n) ==
  /\ pc = "idle"
  /\ state # "ERROR"
  /\ n \in 1..(FileLength - fed)
  /\ pc' = "loop"
  /\ len' = n
  /\ fed' = fed + n
  /\ UNCHANGED <<fileVars, streamVars, in_pos, delivered, finished>>

\* Back to the test of while (len), which leaves the call when len is 0.
Continue(left) ==
  /\ len' = left
  /\ pc' = IF left = 0 THEN "idle" ELSE "loop"

\* A break out of while (len), or return -1: the rest of the chunk is gone.
Leave == pc' = "idle" /\ len' = 0

Fail ==
  /\ state' = "ERROR"
  /\ Leave

\* How much of the chunk a section takes that still needs `need' bytes.
Take(need) == Smaller(len, need)

\* The validation and allocations of stream_begin.
StreamBegin(oom) == Decodable(H) /\ OutputFormatOk(H, out_fmt) /\ ~oom

FeedHeader ==
  /\ pc = "loop" /\ state = "HEADER"
  /\ LET take == Take(PXL_HEADER_BYTES - hdr_have)
     IN  /\ hdr_have' = hdr_have + take
         /\ \/ /\ hdr_have + take < PXL_HEADER_BYTES
               /\ Leave
               /\ UNCHANGED state
            \/ /\ hdr_have + take >= PXL_HEADER_BYTES
               /\ \E oom \in OutOfMemory :
                    IF StreamBegin(oom)
                      THEN state' = "PALETTE" /\ Continue(len - take)
                      ELSE Fail
  /\ UNCHANGED <<fileVars, pal_have, meta_have, filtered_have, rows_done,
                 frame_done, ds, in_pos, seenVars>>

FeedPalette ==
  /\ pc = "loop" /\ state = "PALETTE"
  /\ LET take == Take(PaletteBytes(H) - pal_have)
     IN  /\ pal_have' = pal_have + take
         /\ \/ /\ pal_have + take < PaletteBytes(H)
               /\ Leave
               /\ UNCHANGED state
            \/ /\ pal_have + take >= PaletteBytes(H)
               /\ state' = "META"
               /\ Continue(len - take)
  /\ UNCHANGED <<fileVars, hdr_have, meta_have, filtered_have, rows_done,
                 frame_done, ds, in_pos, seenVars>>

FeedMeta ==
  /\ pc = "loop" /\ state = "META"
  /\ LET take == Take(H.meta_byte_count - meta_have)
     IN  /\ meta_have' = meta_have + take
         /\ \/ /\ meta_have + take < H.meta_byte_count
               /\ Leave
               /\ UNCHANGED state
            \/ /\ meta_have + take >= H.meta_byte_count
               /\ state' = "FRAME"
               /\ Continue(len - take)
  /\ UNCHANGED <<fileVars, hdr_have, pal_have, filtered_have, rows_done,
                 frame_done, ds, in_pos, seenVars>>

\* Bytes after the zstd frame are ignored.
FeedTrailing ==
  /\ pc = "loop" /\ state = "FRAME" /\ frame_done
  /\ Leave
  /\ UNCHANGED <<fileVars, streamVars, in_pos, seenVars>>

FeedFrame ==
  /\ pc = "loop" /\ state = "FRAME" /\ ~frame_done
  /\ pc' = "frame"
  /\ in_pos' = 0
  /\ UNCHANGED <<fileVars, streamVars, len, seenVars>>

------------------------------------------------------------------------------
(* One turn of the inner for (;;): a call of ZSTD_decompressStream when the  *)
(* window has room, then stream_emit_rows.                                   *)

\* The inner loop ends.  The chunk keeps what zstd did not take, unless zstd
\* took nothing of it.
LeaveFrame(consumed) ==
  /\ in_pos' = 0
  /\ IF ~frame_done' /\ consumed = 0 THEN Leave ELSE Continue(len - consumed)

\* The window does not hold the next row, or there is no next row.
NoRow(have) == Bcif \/ rows_done = H.height \/ have < F

RowOkTypeOnly(y) == file.row[y] # "bad_type"
RowOk(y) == file.row[y] = "ok"

\* What a delivered row leaves in the window: s->filtered_have = 0.
ConsumeRow(have) == 0

\* stream_emit_rows with `have' bytes in the window.  It completes at most
\* one row, as the window holds one.
EmitRows(have) ==
  \/ /\ NoRow(have)
     /\ filtered_have' = have
     /\ UNCHANGED <<rows_done, delivered>>
  \/ /\ ~NoRow(have) /\ RowOk(rows_done)
     /\ filtered_have' = ConsumeRow(have)
     /\ rows_done' = rows_done + 1
     /\ delivered' = Append(delivered, Row(rows_done, ds'.out - have))

\* unfilter_row or row_indices_ok refuses the row; only the latter comes
\* after the window was released.
EmitFails(have) ==
  /\ ~NoRow(have) /\ ~RowOk(rows_done)
  /\ filtered_have' = IF file.row[rows_done] = "bad_type" THEN have ELSE ConsumeRow(have)
  /\ Fail
  /\ in_pos' = 0
  /\ UNCHANGED <<rows_done, delivered, frame_done>>

\* When the inner loop gives up: on lack of progress, not of input.
GiveUpOnInput(moved, took) == took = len
GiveUpNever(moved, took) == FALSE
GiveUp(moved, took) == ~moved

\* What happens after the call: emit, then decide whether to go round again.
AfterDecompress(have, called) ==
  LET took  == in_pos + (ds'.in - ds.in)
      moved == ds'.in # ds.in \/ filtered_have' # filtered_have
               \/ rows_done' # rows_done
  IN  \/ /\ EmitRows(have)
         /\ frame_done' = (called /\ FrameComplete(file.frame, ds'))
         /\ IF frame_done' \/ GiveUp(moved, took)
              THEN LeaveFrame(took)
              ELSE in_pos' = took /\ UNCHANGED <<pc, len>>
         /\ UNCHANGED state
      \/ EmitFails(have)

Decompress ==
  /\ pc = "frame" /\ filtered_have < Window
  /\ LET room == Window - filtered_have
         avail == len - in_pos
     IN  \E d \in ReadStops(file.frame, ds, avail, room) :
           \/ /\ ReadError(file.frame, ds, d)
              /\ Fail
              /\ in_pos' = 0
              /\ UNCHANGED <<filtered_have, rows_done, frame_done, ds, delivered>>
           \/ /\ ~ReadError(file.frame, ds, d)
              /\ ds' = AfterCall(file.frame, ds, d, avail, room)
              /\ AfterDecompress(filtered_have + (ds'.out - ds.out), TRUE)
  /\ UNCHANGED <<fileVars, hdr_have, pal_have, meta_have, fed, finished>>

\* The window is full and stays full: zstd is not called.
WindowFull ==
  /\ pc = "frame" /\ filtered_have >= Window
  /\ UNCHANGED ds
  /\ AfterDecompress(filtered_have, FALSE)
  /\ UNCHANGED <<fileVars, hdr_have, pal_have, meta_have, fed, finished>>

------------------------------------------------------------------------------
(* pxl_stream_finish                                                         *)

FinishReadyAnyLeftover == state = "FRAME" /\ frame_done

FinishReadyUnended ==
  /\ state = "FRAME"
  /\ filtered_have = IF Bcif THEN H.raw_byte_count ELSE 0

\* Everything but the rows: the frame has ended and nothing is left over.
FinishReady ==
  /\ state = "FRAME" /\ frame_done
  /\ filtered_have = IF Bcif THEN H.raw_byte_count ELSE 0

AllRows == [i \in 1..H.height |-> Row(i - 1, (i - 1) * F)]

Answer(yes) == finished' = IF yes THEN "complete" ELSE "incomplete"

FinishRefused ==
  /\ pc = "idle" /\ ~FinishReady
  /\ Answer(FALSE)
  /\ UNCHANGED <<fileVars, streamVars, callVars, fed, delivered>>

BcifAlwaysPending == Bcif
BcifPending == Bcif /\ rows_done = 0

\* BCIF: the planes are unpacked and every row is delivered here, once.
FinishBcif ==
  /\ pc = "idle" /\ FinishReady /\ BcifPending
  /\ rows_done' = H.height
  /\ delivered' = delivered \o AllRows
  /\ Answer(TRUE)
  /\ UNCHANGED <<fileVars, state, hdr_have, pal_have, meta_have, filtered_have,
                 frame_done, ds, callVars, fed>>

FinishRows ==
  /\ pc = "idle" /\ FinishReady /\ ~BcifPending
  /\ Answer(rows_done = H.height)
  /\ UNCHANGED <<fileVars, streamVars, callVars, fed, delivered>>

Finish == FinishRefused \/ FinishBcif \/ FinishRows

FeedStep ==
  FeedHeader \/ FeedPalette \/ FeedMeta \/ FeedTrailing \/ FeedFrame
    \/ Decompress \/ WindowFull

Next == (\E n \in 1..(FileLength - fed) : Feed(n)) \/ FeedStep \/ Finish

Spec == Init /\ [][Next]_vars

\* The loops of a call run on; the caller hands the file over to its end and
\* then asks for the verdict.
Fairness ==
  /\ WF_vars(\E n \in 1..(FileLength - fed) : Feed(n))
  /\ WF_vars(FeedStep)
  /\ WF_vars(Finish)

FairSpec == Spec /\ Fairness

------------------------------------------------------------------------------
(* Properties                                                                *)

TypeOK ==
  /\ file \in Files /\ out_fmt \in OutputFormats
  /\ state \in {"HEADER", "PALETTE", "META", "FRAME", "ERROR"}
  /\ hdr_have \in 0..PXL_HEADER_BYTES
  /\ pal_have \in 0..PaletteBytes(H)
  /\ meta_have \in 0..H.meta_byte_count
  /\ filtered_have \in Nat /\ rows_done \in Nat
  /\ frame_done \in BOOLEAN
  /\ ds \in Contexts
  /\ pc \in {"idle", "loop", "frame"}
  /\ len \in Nat /\ in_pos \in Nat
  /\ fed \in 0..FileLength
  /\ delivered \in Seq([index : Nat, from : Nat])
  /\ finished \in {"not_asked", "incomplete", "complete"}

\* The callback sees row 0, 1, 2, ... each once, and row y is built from bytes
\* [y * F, (y + 1) * F) of the filtered stream, however the file was chunked
\* and however zstd split its output over calls of the window.
RowsInOrder ==
  /\ Len(delivered) = rows_done
  /\ \A i \in 1..Len(delivered) : delivered[i] = Row(i - 1, (i - 1) * F)

\* No row reaches the callback whose filter type is unknown or whose samples
\* lie beyond the palette ("Check before the callback").
OnlyGoodRows == \A i \in 1..Len(delivered) : file.row[delivered[i].index] = "ok"

\* The one-row window is never written past its end, and between two turns of
\* the loop it holds a whole row only when no row is left to fill.
WindowSafe ==
  state = "FRAME" =>
    /\ filtered_have <= Window
    /\ (~Bcif /\ rows_done < H.height) => filtered_have < F

\* When a call returns, every row the bytes so far decompress to has been
\* delivered: nothing waits inside zstd for bytes that may never come.
NoRowLeftBehind ==
  (pc = "idle" /\ state = "FRAME" /\ ~Bcif) =>
    rows_done = Smaller(H.height, file.frame.prod[DecodedTo(file.frame, ds)] \div F)

\* Every byte handed over is used exactly once, by the section it belongs to:
\* between calls the decoder is where the file is, unless the frame is over
\* or its window is full for good.
EveryByteUsedOnce ==
  (pc = "idle" /\ state # "ERROR") =>
    LET used == hdr_have + pal_have + meta_have + ds.in
    IN  /\ used <= fed
        /\ used < fed => frame_done \/ (state = "FRAME" /\ filtered_have = Window)

\* Between two calls the decoder has made all it can of the bytes it got.
NothingWaits == NoRowLeftBehind /\ EveryByteUsedOnce

\* The file holds exactly its picture, and the caller asked for a format it has.
Exact == ExactFile /\ OutputFormatOk(H, out_fmt)

\* "Truncated and corrupt inputs must be rejected, not silently accepted": a
\* complete verdict means the whole frame has arrived, it decompresses to
\* exactly the announced size, no row is malformed and all were delivered.
CompleteMeansExact ==
  finished = "complete" =>
    /\ Exact
    /\ fed >= FileLength - file.trailing
    /\ delivered = AllRows

\* A verdict stands: after `complete' nothing is delivered or un-said, and a
\* stream in error delivers nothing more and is never complete.
VerdictIsFinal ==
  [][ /\ finished = "complete" => finished' = "complete" /\ delivered' = delivered
      /\ state = "ERROR" =>
           /\ state' = "ERROR" /\ delivered' = delivered
           /\ finished' # "complete" ]_vars

\* A finished call leaves the inner loop: for (;;) always makes progress.
EveryFeedReturns == (pc # "idle") ~> (pc = "idle")

\* stream_begin refused the file: of an exact one, only for want of memory.
RefusedAtBegin ==
  /\ state = "ERROR" /\ TRUE \in OutOfMemory
  /\ pal_have = 0 /\ meta_have = 0 /\ ds = FreshContext

\* The last byte of the frame produces output: no content checksum and no
\* empty last block, as in the frames of this library's own encoder.
LastByteProduces ==
  file.frame.prod[file.frame.n - 1] < file.frame.prod[file.frame.n]

\* An exact file is accepted, whatever its chunks: with a row filter however its
\* frame is built, under BCIF when its frame ends in data.
UsualFileAccepted ==
  (Exact /\ (Bcif => LastByteProduces)) ~> (finished = "complete" \/ RefusedAtBegin)

\* Feeding leads on: every call returns, and all of them together to the verdict.
FeedingLeadsOn == EveryFeedReturns /\ UsualFileAccepted

\* SPEC.md 6: any valid zstd frame that decompresses to RawByteCount bytes
\* has to be accepted.
ExactFileAccepted == Exact ~> (finished = "complete" \/ RefusedAtBegin)

------------------------------------------------------------------------------
(* The inductive invariant behind the safety properties.                     *)

\* The sections come in order, and each is whole before the next begins.
SectionsInOrder ==
  /\ state \in {"PALETTE", "META", "FRAME"} =>
       /\ Decodable(H) /\ OutputFormatOk(H, out_fmt)
       /\ hdr_have = PXL_HEADER_BYTES
  /\ state \in {"META", "FRAME"} => pal_have = PaletteBytes(H)
  /\ state = "FRAME" => meta_have = H.meta_byte_count
  /\ state \in {"HEADER", "PALETTE", "META"} =>
       /\ ds = FreshContext /\ filtered_have = 0 /\ rows_done = 0
       /\ frame_done = FALSE

\* Where the window lies in the filtered stream: at a row boundary, just
\* after the rows that were delivered.
WindowAligned ==
  state = "FRAME" =>
    /\ ContextOk(file.frame, ds)
    /\ rows_done <= H.height
    /\ filtered_have <= Window
    /\ ~Bcif => /\ ds.out = rows_done * F + filtered_have
                /\ rows_done < H.height => filtered_have < F
    /\ Bcif => /\ ds.out = filtered_have
               /\ rows_done # 0 => rows_done = H.height /\ frame_done
    /\ frame_done => FrameComplete(file.frame, ds)
    /\ file.frame.bad # 0 => DecodedTo(file.frame, ds) < file.frame.bad

\* What the call in progress holds of the chunk has not been used yet.
CallInOrder ==
  /\ pc = "idle" => len = 0
  /\ pc = "loop" => state # "ERROR"
  /\ pc = "frame" => state = "FRAME" /\ ~frame_done
  /\ pc # "frame" => in_pos = 0
  /\ in_pos <= len
  /\ hdr_have + pal_have + meta_have + ds.in + (len - in_pos) <= fed

CompleteInOrder ==
  finished = "complete" =>
    state = "FRAME" /\ pc # "frame" /\ FinishReady /\ rows_done = H.height

\* The inductive invariant: each conjunct is kept by every step only together
\* with the others.
StreamInv ==
  /\ TypeOK
  /\ SectionsInOrder
  /\ WindowAligned
  /\ CallInOrder
  /\ RowsInOrder
  /\ OnlyGoodRows
  /\ CompleteInOrder

\* What was fed has been used, or the call still holds it; bytes are dropped
\* only after the frame, or with the window full for good.
NothingDropped ==
  state # "ERROR" =>
    \/ hdr_have + pal_have + meta_have + ds.in + (len - in_pos) = fed
    \/ state = "FRAME" /\ (frame_done \/ filtered_have = Window)

\* Outside the inner loop every row that has been decoded has been delivered.
RowsKeepUp ==
  (pc # "frame" /\ state = "FRAME" /\ ~Bcif) =>
    rows_done = Smaller(H.height, file.frame.prod[DecodedTo(file.frame, ds)] \div F)

\* What NothingWaits rests on, given StreamInv: a call under way has bytes left,
\* so that zstd, asked with room in the window, always moves.
CallProgress ==
  /\ pc # "idle" => len > 0
  /\ NothingDropped
  /\ RowsKeepUp

------------------------------------------------------------------------------
(* The decoder is a RowSource.                                               *)

ValidRows ==
  { y \in 0..(H.height - 1) :
      file.row[y] = "ok" /\ (y + 1) * F <= RawSize }

Source ==
  INSTANCE RowSource WITH
    picture <- [height |-> H.height, valid |-> ValidRows, whole |-> Exact],
    shown   <- rows_done,
    verdict <- finished

\* Every behaviour of the push decoder is one RowSource allows.
ImplementsRowSource == Source!Spec
==============================================================================
