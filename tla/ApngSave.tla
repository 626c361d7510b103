------------------------------ MODULE ApngSave -------------------------------
(***************************************************************************)
(* apng_save of apng.c: an animation becomes the chunks of a PNG in a      *)
(* buffer, frame by frame, and the buffer becomes a file.  Every frame is  *)
(* written as a whole canvas that replaces what was shown before.          *)
(*                                                                         *)
(* Chunks are those ApngLoad reads, with their sequence numbers.  What     *)
(* libpng makes of the pixels is one piece of data, a whole picture.       *)
(* A record of the metadata is its type and the chunk that it becomes.     *)
(***************************************************************************)
EXTENDS PngChunks, Counting, SequencesExt

CONSTANTS
  Animations,   \* what is saved: [size, w, h, palette, alpha, metadata, plays, frames]
  MaxPalette,   \* PNG_MAX_PALETTE_LENGTH, 256
  SaveMayFail   \* may memory, libpng or the disk fail: {FALSE} or BOOLEAN

\* A frame is [picture, has_pixels, fits, delay]; it fits if its size and channels
\* are those of the animation.
Writable(frame) == frame.has_pixels /\ frame.fits

\* The types of the chunks that ApngLoad tells from others.
TypeOfKind(kind) == IF kind = "end" THEN "IEND" ELSE kind

RecordOk(r) ==
  IF r.chunk.kind = "other"
    THEN r.chunk.type = r.type
    ELSE /\ r.chunk.kind \in {"IHDR", "acTL", "PLTE", "tRNS", "fcTL", "IDAT", "fdAT", "end"}
         /\ r.type = TypeOfKind(r.chunk.kind)

\* A palette has three bytes for each entry; the test for one too short is the code's.
ASSUME SaveAssumption ==
  /\ MaxPalette \in Nat \ {0} /\ SaveMayFail \subseteq BOOLEAN
  /\ \A a \in Animations :
       /\ {a.w, a.h, a.plays, a.palette} \subseteq Nat
       /\ a.palette < 3 \/ a.palette % 3 = 0
       /\ a.frames \in Seq(Range(a.frames)) /\ a.metadata \in Seq(Range(a.metadata))
       /\ \A r \in Range(a.metadata) : r = CutOff \/ RecordOk(r)

VARIABLES
  anim,
  at,          \* foreign | begin | frame | encode | data | write | saved
  i,           \* the frame being written
  g,           \* the growbuf: [chunks, failed]
  seq,
  held,        \* the blocks of memory allocated
  disk,        \* the chunks in the file
  ok,          \* what apng_save returned
  lost         \* fclose could not write the rest

saveVars == <<anim, at, i, g, seq, held, disk, ok, lost>>

Indexed == anim.palette > 0
Entries == anim.palette \div 3
SavedColor == IF Indexed THEN "indexed" ELSE "alpha"

SaveInit ==
  /\ anim \in Animations
  /\ i = 1 /\ g = [chunks |-> <<>>, failed |-> FALSE] /\ seq = 0
  /\ held = {} /\ disk = <<>>
  /\ ok = FALSE /\ lost = FALSE

\* gb_chunk: after a failure nothing more is taken.
PutChunks(chunks, fails) ==
  g' = IF g.failed \/ fails THEN [g EXCEPT !.failed = TRUE]
                            ELSE [g EXCEPT !.chunks = @ \o chunks]

\* goto done, and the returns before there is anything to free.
Leave == at' = "saved" /\ held' = held \ {"g", "idat"}

SaveFails == Leave /\ UNCHANGED <<disk, ok, lost>>

------------------------------------------------------------------------------
(* The chunks before the first frame.                                        *)

\* The records of the metadata, as far as they are whole.
Records ==
  LET cut == SelectInSeq(anim.metadata, LAMBDA r : r = CutOff)
  IN  IF cut = 0 THEN anim.metadata ELSE SubSeq(anim.metadata, 1, cut - 1)

\* apng_write_metadata: the type of a record is written as it is.
Ancillary(records) == [n \in 1..Len(records) |-> records[n].chunk]

Colour(r) == MustPrecedePlte(r.type)
NotColour(r) == ~MustPrecedePlte(r.type)

HeadChunks ==
  <<[kind |-> "IHDR", size |-> anim.size, color |-> SavedColor]>>
    \o (IF Indexed
          THEN Ancillary(Those(Records, Where(Records, Colour)))
                 \o <<[kind |-> "PLTE"]>>
                 \o (IF anim.alpha THEN <<[kind |-> "tRNS"]>> ELSE <<>>)
                 \o Ancillary(Those(Records, Where(Records, NotColour)))
          ELSE Ancillary(Records))
    \o <<[kind |-> "acTL", plays |-> anim.plays, frames |-> Len(anim.frames)]>>

Savable == anim.frames # <<>> /\ (Indexed => Entries \in 1..MaxPalette)

SaveHead ==
  /\ at = "begin"
  /\ \/ ~Savable /\ SaveFails /\ UNCHANGED g
     \/ /\ Savable
        /\ \E fails \in SaveMayFail : PutChunks(HeadChunks, fails)
        /\ at' = "frame" /\ held' = {"g"}
        /\ UNCHANGED <<disk, ok, lost>>
  /\ UNCHANGED <<anim, i, seq>>

------------------------------------------------------------------------------
(* One frame.                                                                *)

Frame == anim.frames[i]

BlendOver == "over"
BlendSource == "source"

SaveControl ==
  /\ at = "frame" /\ i <= Len(anim.frames)
  /\ \/ ~Writable(Frame) /\ SaveFails /\ UNCHANGED <<g, seq>>
     \/ /\ Writable(Frame)
        /\ \E fails \in SaveMayFail :
             PutChunks(<<[ kind |-> "fcTL", seq |-> seq, x |-> 0, y |-> 0,
                           w |-> anim.w, h |-> anim.h, delay |-> Frame.delay,
                           dispose |-> "none", blend |-> BlendSource ]>>, fails)
        /\ seq' = seq + 1
        /\ at' = "encode"
        /\ UNCHANGED <<held, disk, ok, lost>>
  /\ UNCHANGED <<anim, i>>

\* encode_frame_idat: on failure it has freed all that it allocated.
EncodeFrame ==
  /\ at = "encode"
  /\ \/ TRUE \in SaveMayFail /\ SaveFails
     \/ at' = "data" /\ held' = held \cup {"idat"} /\ UNCHANGED <<disk, ok, lost>>
  /\ UNCHANGED <<anim, i, g, seq>>

FirstData(piece) == [kind |-> "IDAT", piece |-> piece]
LaterDataSameNumber(piece) == [kind |-> "fdAT", piece |-> piece, seq |-> seq - 1]
LaterData(piece) == [kind |-> "fdAT", piece |-> piece, seq |-> seq]

SaveData ==
  /\ at = "data"
  /\ \/ i > 1 /\ TRUE \in SaveMayFail /\ SaveFails /\ UNCHANGED <<g, seq, i>>  \* no fd
     \/ LET piece == [pic |-> Frame.picture, part |-> 1]
        IN  /\ \E fails \in SaveMayFail :
                 PutChunks(<<IF i = 1 THEN FirstData(piece) ELSE LaterData(piece)>>, fails)
            /\ seq' = IF i = 1 THEN seq ELSE seq + 1
            /\ IF g'.failed
                 THEN SaveFails /\ UNCHANGED i
                 ELSE /\ i' = i + 1 /\ at' = "frame" /\ held' = held \ {"idat"}
                      /\ UNCHANGED <<disk, ok, lost>>
  /\ UNCHANGED anim

------------------------------------------------------------------------------
(* The file.                                                                 *)

SaveEnd ==
  /\ at = "frame" /\ i > Len(anim.frames)
  /\ \E fails \in SaveMayFail : PutChunks(<<[kind |-> "end"]>>, fails)
  /\ IF g'.failed THEN SaveFails
                  ELSE at' = "write" /\ UNCHANGED <<held, disk, ok, lost>>
  /\ UNCHANGED <<anim, i, seq>>

\* pxl_spit: fopen fails, fwrite is short, or what fwrite left in its buffer is
\* lost when the file is closed, which nobody asks about.
WriteFile ==
  /\ at = "write" /\ Leave
  /\ \/ disk' = g.chunks /\ ok' = TRUE /\ UNCHANGED lost
     \/ /\ TRUE \in SaveMayFail
        /\ \/ UNCHANGED <<disk, ok, lost>>
           \/ \E n \in 0..(Len(g.chunks) - 1) :
                /\ disk' = SubSeq(g.chunks, 1, n)
                /\ ok' \in BOOLEAN /\ lost' = ok'
  /\ UNCHANGED <<anim, i, g, seq>>

SaveNext ==
  SaveHead \/ SaveControl \/ EncodeFrame \/ SaveData \/ SaveEnd \/ WriteFile

------------------------------------------------------------------------------
(* Properties                                                                *)

SaveTypeOK ==
  /\ at \in {"foreign", "begin", "frame", "encode", "data", "write", "saved"}
  /\ i \in 1..(Len(anim.frames) + 1)
  /\ seq \in 0..(2 * Len(anim.frames))
  /\ held \subseteq {"g", "idat"}
  /\ {g.failed, ok, lost} \subseteq BOOLEAN

OfKind(f, kinds) == { n \in 1..Len(f) : f[n].kind \in kinds }

\* What PNG and APNG ask of a file: one header, one acTL before the data that
\* counts the controls, the palette before its alpha and behind what is about
\* colour, sequence numbers from 0 without a gap, and behind each control the
\* data of its frame.
ValidApng(f) ==
  LET numbered == OfKind(f, {"fcTL", "fdAT"})
  IN  /\ f # <<>>
      /\ OfKind(f, {"IHDR"}) = {1} /\ OfKind(f, {"end"}) = {Len(f)}
      /\ \E a \in 1..Len(f) :
           /\ OfKind(f, {"acTL"}) = {a}
           /\ f[a].frames = Cardinality(OfKind(f, {"fcTL"}))
           /\ \A n \in OfKind(f, {"IDAT", "fdAT", "fcTL"}) : a < n
           /\ \A n \in OfKind(f, {"other", "PLTE", "tRNS"}) : n < a
           /\ \A n \in OfKind(f, {"fcTL"}) :
                f[n + 1].kind = IF n = a + 1 THEN "IDAT" ELSE "fdAT"
      /\ f[1].color = "indexed" <=> OfKind(f, {"PLTE"}) # {}
      /\ \A p \in OfKind(f, {"PLTE"}) :
           /\ \A n \in OfKind(f, {"tRNS"}) : p < n
           /\ \A n \in OfKind(f, {"other"}) : Colour(f[n]) => n < p
      /\ \A n \in numbered : f[n].seq = Cardinality({ m \in numbered : m < n })
      /\ Cardinality(OfKind(f, {"IDAT"})) = 1

\* The metadata are records of chunks that extraction preserves, an sBIT among them.
\* apng_save does not ask: a block read from an .apxl file may have any.
RecordsPreserved == \A n \in 1..Len(Records) : ~IsDroppedType(Records[n].type, TRUE)

\* A file that apng_save answers for is valid and has all the metadata, each group
\* in its order, if they are records that extraction preserves; unless the disk
\* failed at the very end.
SavedFilesAreValid ==
  (RecordsPreserved /\ at = "saved" /\ ok /\ ~lost) =>
    LET others(Test(_)) ==
          Those(disk, Where(disk, LAMBDA c : c.kind = "other" /\ Test(c)))
    IN  /\ ValidApng(disk)
        /\ others(Colour) = Ancillary(Those(Records, Where(Records, Colour)))
        /\ others(NotColour) = Ancillary(Those(Records, Where(Records, NotColour)))

\* The types; however it ends, apng_save leaves no memory behind, and while it runs
\* it holds its buffer, and the data of one frame at most.
SaveInv ==
  /\ SaveTypeOK
  /\ at = "saved" => held = {}
  /\ at \notin {"foreign", "begin", "saved"} =>
       held = {"g"} \cup (IF at = "data" THEN {"idat"} ELSE {})
==============================================================================
