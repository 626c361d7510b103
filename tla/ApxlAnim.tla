------------------------------ MODULE ApxlAnim ------------------------------
(***************************************************************************)
(* The animation codec of apxl_codec.c over the life of one animation.  It *)
(* is assembled by hand or by a loader, or comes in a file from elsewhere; *)
(* it may be converted to indices (apxl_anim_try_index), encoded, released *)
(* and decoded again, in any order, until nothing of it is left.           *)
(*                                                                         *)
(* Each call runs in steps from one allocation to the next, and any of     *)
(* them may fail.  `heap' holds the blocks allocated, by the name of what  *)
(* points to them; a pointer is a block and an offset into it.  `wild'     *)
(* records that free() was given anything else than a block in use.        *)
(*                                                                         *)
(* A sample is a number: of an indexed frame an index, of an RGB or RGBA   *)
(* frame the colour as apxl_color_key packs it, alpha above red, green and *)
(* blue, with the alpha of an RGB sample opaque.                           *)
(***************************************************************************)
EXTENDS Integers, SequencesExt

CONSTANTS
  APXL_MAX_PIXELS, APXL_MAX_FRAMES, APXL_MAX_PALETTE,
  Uint32Max,      \* the largest value of a uint32_t
  SizeValues,     \* how many values a size_t has
  RgbValues,      \* how many values red, green and blue have together
  AlphaValues,    \* how many values an alpha byte has
  IndexValues,    \* how many values an index byte has
  HashSlots,      \* APXL_INDEX_HASH_SLOTS
  Hash,           \* apxl_hash32, masked: a function of packed colours
  Assembled,      \* the animations a caller hands in
  Foreign,        \* .apxl files this encoder did not write
  IndexDecoded,   \* whether callers convert a decoded animation to indices
  OutOfMemory     \* the outcomes of an allocation: {FALSE} or BOOLEAN

ASSUME ApxlAssumption ==
  /\ Uint32Max \in Nat /\ SizeValues \in Nat \ {0}
  /\ RgbValues \in Nat \ {0} /\ AlphaValues \in Nat \ {0}
  /\ IndexValues \in Nat \ {0} /\ APXL_MAX_PALETTE \in 1..IndexValues
  /\ HashSlots \in Nat /\ APXL_MAX_PALETTE < HashSlots
  /\ Hash \in [0..(RgbValues * AlphaValues - 1) -> 0..(HashSlots - 1)]
  /\ OutOfMemory \subseteq BOOLEAN /\ IndexDecoded \in BOOLEAN
  /\ APXL_MAX_PIXELS \in Nat /\ APXL_MAX_FRAMES \in Nat

\* The size of all frames is "clear of size_t overflow", as apxl_geometry_ok
\* says: a size_t has 64 bits.
ASSUME SizeAssumption ==
  APXL_MAX_PIXELS * (8 * APXL_MAX_FRAMES) < SizeValues

VARIABLES
  anim,     \* the caller's apxl_anim; NoAnim once zeroed
  file,     \* the contents of the caller's .apxl file; NoFile if none
  heap,     \* the blocks allocated
  wild,     \* free() has been misused
  pc,       \* where the call in progress is
  work,     \* its locals
  picture,  \* what the caller put in: the picture the animation stands for
  starved   \* an allocation has failed

vars == <<anim, file, heap, wild, pc, work, picture, starved>>

NoAnim == [frames |-> <<>>]
NoFile == [frames |-> <<>>]

------------------------------------------------------------------------------
(* Blocks and pointers                                                       *)

Block(kind) == <<kind, 0>>
Blocks(kind, n) == { <<kind, i>> : i \in 1..n }

Ptr(block) == [block |-> block, at |-> 0]

\* The pointers of a list that free() must not be given, one after the other.
Misused(ptrs) ==
  { i \in 1..Len(ptrs) :
      \/ ptrs[i].at # 0
      \/ ptrs[i].block \notin heap
      \/ \E j \in 1..(i - 1) : ptrs[j] = ptrs[i] }

Freed(ptrs) == { ptrs[i].block : i \in (1..Len(ptrs)) \ Misused(ptrs) }

\* free() of each pointer, while `blocks' are allocated.
Free(ptrs, blocks) ==
  /\ heap' = (heap \ Freed(ptrs)) \cup blocks
  /\ wild' = (wild \/ Misused(ptrs) # {})

Allocate(blocks) ==
  /\ heap' = heap \cup blocks
  /\ UNCHANGED wild

------------------------------------------------------------------------------
(* Animations                                                                *)

Indexed(f) == f.palette # <<>>

FrameCount(a) == Len(a.frames)
Bufs(a) == [i \in 1..FrameCount(a) |-> a.frames[i].buf]

\* What apxl_free releases.  Frames own their pixels only when there is no
\* shared block, and never their palette.
FreedWithFrames(a) ==
  IF a.storage THEN <<Ptr(Block("frames")), Ptr(Block("storage"))>>
               ELSE Bufs(a) \o <<Ptr(Block("frames"))>>

FreedWithAnim(a) ==
  FreedWithFrames(a)
    \o (IF a.metadata # <<>> THEN <<Ptr(Block("metadata"))>> ELSE <<>>)
    \o (IF a.palette # <<>> THEN <<Ptr(Block("palette"))>> ELSE <<>>)
    \o (IF a.palette_alpha # <<>> THEN <<Ptr(Block("palette_alpha"))>> ELSE <<>>)

Rgb(colour)   == colour % RgbValues
Alpha(colour) == colour \div RgbValues
Opaque        == AlphaValues - 1

\* The colour an index stands for: opaque behind the end of palette_alpha, and
\* none behind the end of the palette.
ColourOf(pal, alpha, i) ==
  IF i >= Len(pal) THEN -1
  ELSE pal[i + 1] + RgbValues * (IF i < Len(alpha) THEN alpha[i + 1] ELSE Opaque)

\* The samples of a frame as a viewer sees them.
Shown(px, pal, alpha) ==
  IF pal = <<>> THEN px
  ELSE [p \in DOMAIN px |-> ColourOf(pal, alpha, px[p])]

\* What must survive every call: samples, timing, loop count and metadata.
PictureOf(a) ==
  [ frames   |-> [ i \in 1..FrameCount(a) |->
                     Shown(a.frames[i].px, a.frames[i].palette,
                           a.frames[i].palette_alpha) ],
    delays   |-> [ i \in 1..FrameCount(a) |-> a.frames[i].delay ],
    loops    |-> a.loop_count,
    metadata |-> a.metadata ]

PictureIn(f) ==
  [ frames   |-> [ i \in DOMAIN f.frames |->
                     Shown(f.frames[i], f.palette, f.palette_alpha) ],
    delays   |-> f.delays,
    loops    |-> f.loop_count,
    metadata |-> f.metadata ]

\* What the fields of animations and files hold.
Palettes      == Seq(0..(RgbValues - 1))
PaletteAlphas == Seq(0..(AlphaValues - 1))
Colours       == 0..(RgbValues * AlphaValues - 1)

Frames ==
  [ buf : [block : {"pixels", "indices", "storage"} \X Nat, at : Nat],
    px : Seq(Nat), channels : Nat, bytes_per_channel : Nat,
    palette : Palettes, palette_alpha : PaletteAlphas, delay : Nat ]

Anims ==
  [ frames : Seq(Frames), channels : Nat, bytes_per_channel : Nat,
    pixels : Nat, loop_count : Nat, palette : Palettes,
    palette_alpha : PaletteAlphas, metadata : Seq(Nat), storage : BOOLEAN ]

Files ==
  [ frames : Seq(Seq(Nat)), delays : Seq(Nat), channels : Nat,
    bytes_per_channel : Nat, pixels : Nat, loop_count : Nat,
    palette : Palettes, palette_alpha : PaletteAlphas, metadata : Seq(Nat),
    raw_byte_count : Nat, well_formed : BOOLEAN, whole : BOOLEAN,
    ours : BOOLEAN ]

\* A caller that assembles an animation gives every frame a buffer of its own,
\* and leaves the palette of the animation to this codec.
ASSUME AssembledAssumption ==
  \A a \in Assembled :
    /\ a \in Anims /\ ~a.storage
    /\ a.palette = <<>> /\ a.palette_alpha = <<>>
    /\ \A i \in 1..FrameCount(a) :
         /\ a.frames[i].buf = Ptr(<<"pixels", i>>)
         /\ a.channels \in {3, 4} =>
              a.frames[i].px # <<>> /\ Range(a.frames[i].px) \subseteq Colours

\* A file from elsewhere holds anything, one delay for each frame.
ASSUME ForeignAssumption ==
  \A f \in Foreign :
    f \in Files /\ ~f.ours /\ Len(f.delays) = Len(f.frames)

\* The palettes a caller gives: all frames have one or none has.  `ApxlAnimMixed'
\* shows what the encoder does otherwise.
PalettesAgree ==
  \A a \in Assembled : \A i, j \in 1..FrameCount(a) :
    Indexed(a.frames[i]) <=> Indexed(a.frames[j])

------------------------------------------------------------------------------
(* The caller                                                                *)

\* The blocks the caller's animation and file own.
Owned ==
  (IF anim = NoAnim THEN {} ELSE { p.block : p \in Range(FreedWithAnim(anim)) })
    \cup (IF file = NoFile THEN {} ELSE {Block("file")})

Init ==
  /\ \/ /\ anim \in Assembled /\ file = NoFile
        /\ picture = PictureOf(anim)
     \/ /\ anim = NoAnim /\ file \in Foreign
        /\ picture = PictureIn(file)
  /\ heap = Owned /\ wild = FALSE
  /\ pc = "idle" /\ work = <<>> /\ starved = FALSE

Idle == pc = "idle"

\* The call in progress returns.
Return == pc' = "idle" /\ work' = <<>>

\* It goes on.
Continue(step) == pc' = step /\ UNCHANGED work

\* It returns 0 for lack of memory, having freed its own blocks.
GiveUp(blocks) ==
  /\ starved' = TRUE
  /\ heap' = heap \ blocks
  /\ Return
  /\ UNCHANGED <<anim, file, wild, picture>>

\* A pxl_free of the file.
DropFile ==
  /\ Idle /\ file # NoFile
  /\ file' = NoFile
  /\ Free(<<Ptr(Block("file"))>>, {})
  /\ UNCHANGED <<anim, pc, work, picture, starved>>

\* apxl_free
FreeAnim ==
  /\ Idle /\ anim # NoAnim
  /\ Free(FreedWithAnim(anim), {})
  /\ anim' = NoAnim
  /\ UNCHANGED <<file, pc, work, picture, starved>>

\* Nothing is left.
Rest ==
  /\ Idle /\ anim = NoAnim /\ file = NoFile
  /\ UNCHANGED vars

------------------------------------------------------------------------------
(* apxl_anim_try_index                                                       *)

Slots == 0..(HashSlots - 1)

\* The slot of a colour's i-th probe, wrapping round.
SlotAt(key, i) == (Hash[key] + i) % HashSlots

\* The probes that find a free slot or the colour itself; the first counts.
Hits(slots, key) ==
  { i \in Slots : \/ slots[SlotAt(key, i)].idx < 0
                  \/ slots[SlotAt(key, i)].key = key }

Probe(slots, key) == SlotAt(key, Min(Hits(slots, key)))

EmptyTable ==
  [ slots |-> [s \in Slots |-> [key |-> 0, idx |-> -1]],
    count |-> 0, found |-> 0, full |-> FALSE ]

FullTooSoon(t) == t.count >= APXL_MAX_PALETTE - 1

\* No room for another colour.
Full(t) == t.count >= APXL_MAX_PALETTE

LookupOrInsert(t, key) ==
  LET s == Probe(t.slots, key)
  IN  IF t.slots[s].idx >= 0 THEN [t EXCEPT !.found = t.slots[s].idx]
      ELSE IF Full(t) THEN [t EXCEPT !.full = TRUE]
      ELSE [t EXCEPT !.slots[s] = [key |-> key, idx |-> t.count],
                     !.found = t.count, !.count = t.count + 1]

\* The colours of the table by index.
ColourAt(t, i) ==
  t.slots[CHOOSE s \in DOMAIN t.slots : t.slots[s].idx = i].key
PaletteRgb(t) == [i \in 1..t.count |-> Rgb(ColourAt(t, i - 1))]
HasAlphaFirst(t) == Alpha(ColourAt(t, 0)) # Opaque
HasAlpha(t) == \E i \in 1..t.count : Alpha(ColourAt(t, i - 1)) # Opaque
PaletteAlpha(t) ==
  IF HasAlpha(t) THEN [i \in 1..t.count |-> Alpha(ColourAt(t, i - 1))] ELSE <<>>

\* Pass 2: an index is stored in a byte.
Indices(t, px) ==
  [p \in DOMAIN px |-> LookupOrInsert(t, px[p]).found % IndexValues]

Indexable(a) ==
  /\ FrameCount(a) > 0
  /\ a.channels \in {3, 4} /\ a.bytes_per_channel = 1
  /\ \A i \in 1..FrameCount(a) :
       LET f == a.frames[i]
       IN  ~Indexed(f) /\ f.channels = a.channels /\ f.bytes_per_channel = 1

TryIndex ==
  /\ Idle /\ anim # NoAnim
  /\ anim.storage => IndexDecoded
  /\ IF Indexable(anim) THEN Continue("table") ELSE Return
  /\ UNCHANGED <<anim, file, heap, wild, picture, starved>>

AllocateTable ==
  /\ pc = "table"
  /\ \E oom \in OutOfMemory :
       IF oom THEN GiveUp({})
       ELSE /\ Allocate({Block("table")})
            /\ work' = [table |-> EmptyTable, frame |-> 1, pixel |-> 1]
            /\ pc' = "pass1"
            /\ UNCHANGED <<anim, file, picture, starved>>

\* Pass 1: the colours of every frame, in order of appearance.  Nothing is
\* mutated yet when there are too many.
CollectColour ==
  /\ pc = "pass1" /\ work.frame <= FrameCount(anim)
  /\ LET px == anim.frames[work.frame].px
     IN  /\ work.pixel <= Len(px)
         /\ LET t == LookupOrInsert(work.table, px[work.pixel])
            IN  IF t.full
                  THEN Free(<<Ptr(Block("table"))>>, {}) /\ Return
                  ELSE /\ work' = [work EXCEPT !.table = t, !.pixel = @ + 1]
                       /\ UNCHANGED <<pc, heap, wild>>
  /\ UNCHANGED <<anim, file, picture, starved>>

NextFrame ==
  /\ pc = "pass1" /\ work.frame <= FrameCount(anim)
  /\ work.pixel > Len(anim.frames[work.frame].px)
  /\ work' = [work EXCEPT !.frame = @ + 1, !.pixel = 1]
  /\ UNCHANGED <<anim, file, heap, wild, pc, picture, starved>>

AllocateNewBufs ==
  /\ pc = "pass1" /\ work.frame > FrameCount(anim)
  /\ \E oom \in OutOfMemory :
       IF oom THEN GiveUp({Block("table")})
       ELSE /\ Allocate({Block("new_bufs")})
            /\ work' = [table |-> work.table, bufs |-> <<>>]
            /\ pc' = "pass2"
            /\ UNCHANGED <<anim, file, picture, starved>>

NewBufsArrayOnly == {Block("new_bufs")}

\* new_bufs and the index buffers made so far.
NewBufs == {Block("new_bufs")} \cup Blocks("indices", Len(work.bufs))

\* The next frame's index buffer.
IndexFrame ==
  /\ pc = "pass2" /\ Len(work.bufs) < FrameCount(anim)
  /\ LET f == Len(work.bufs) + 1
     IN  \E oom \in OutOfMemory :
           IF oom THEN GiveUp({Block("table")} \cup NewBufs)
           ELSE /\ Allocate({<<"indices", f>>})
                /\ work' = [work EXCEPT !.bufs =
                              Append(@, Indices(work.table, anim.frames[f].px))]
                /\ UNCHANGED <<anim, file, pc, picture, starved>>

FreeTable ==
  /\ pc = "pass2" /\ Len(work.bufs) = FrameCount(anim)
  /\ Free(<<Ptr(Block("table"))>>, {})
  /\ pc' = "commit"
  /\ UNCHANGED <<anim, file, work, picture, starved>>

IndexedFrame(f, i) ==
  [ f EXCEPT !.buf = Ptr(<<"indices", i>>), !.px = work.bufs[i],
             !.channels = 1, !.bytes_per_channel = 1,
             !.palette = PaletteRgb(work.table),
             !.palette_alpha = PaletteAlpha(work.table) ]

\* Replaces every frame's buffer, once the palette's own buffers are there.
Commit ==
  /\ pc = "commit"
  /\ \E oom \in OutOfMemory :
       IF oom THEN GiveUp(NewBufs)
       ELSE /\ Free(Bufs(anim) \o <<Ptr(Block("new_bufs"))>>,
                    {Block("palette")}
                      \cup (IF HasAlpha(work.table) THEN {Block("palette_alpha")}
                                                    ELSE {}))
            /\ anim' = [ anim EXCEPT
                 !.frames = [i \in 1..FrameCount(anim) |->
                               IndexedFrame(anim.frames[i], i)],
                 !.palette = PaletteRgb(work.table),
                 !.palette_alpha = PaletteAlpha(work.table),
                 !.channels = 1, !.bytes_per_channel = 1 ]
            /\ Return
            /\ UNCHANGED <<file, picture, starved>>

------------------------------------------------------------------------------
(* apxl_encode                                                               *)

GeometryOk(pixels, frames) ==
  /\ pixels \in 1..APXL_MAX_PIXELS
  /\ frames \in 1..APXL_MAX_FRAMES

SharedPaletteAnyLength(a) ==
  Indexed(a.frames[1]) =>
    /\ a.channels = 1 /\ a.bytes_per_channel = 1
    /\ \A i \in 2..FrameCount(a) :
         /\ a.frames[i].palette = a.frames[1].palette
         /\ a.frames[i].palette_alpha = a.frames[1].palette_alpha

\* One palette for the whole stream: the first frame's.
SharedPalette(a) ==
  Indexed(a.frames[1]) =>
    /\ a.channels = 1 /\ a.bytes_per_channel = 1
    /\ Len(a.frames[1].palette) <= APXL_MAX_PALETTE
    /\ Len(a.frames[1].palette_alpha) <= Len(a.frames[1].palette)
    /\ \A i \in 2..FrameCount(a) :
         /\ a.frames[i].palette = a.frames[1].palette
         /\ a.frames[i].palette_alpha = a.frames[1].palette_alpha

\* The size of all frames, and what a size_t keeps of it.
FrameBytes(a) == a.pixels * a.channels * a.bytes_per_channel * FrameCount(a)
RawBytes(a) == FrameBytes(a) % SizeValues

Representable(a) ==
  /\ a.channels \in 1..4 /\ a.bytes_per_channel \in {1, 2}
  /\ GeometryOk(a.pixels, FrameCount(a))
  /\ SharedPalette(a)
  /\ RawBytes(a) <= Uint32Max

\* Every frame must be a matching full canvas.
FramesMatch(a) ==
  \A i \in 1..FrameCount(a) :
    /\ Len(a.frames[i].px) = a.pixels
    /\ a.frames[i].channels = a.channels
    /\ a.frames[i].bytes_per_channel = a.bytes_per_channel

Encode ==
  /\ Idle /\ anim # NoAnim /\ file = NoFile
  /\ IF Representable(anim) THEN Continue("gather") ELSE Return
  /\ UNCHANGED <<anim, file, heap, wild, picture, starved>>

Gather ==
  /\ pc = "gather"
  /\ \E oom \in OutOfMemory :
       IF oom THEN GiveUp({})
       ELSE /\ IF FramesMatch(anim)
                 THEN Allocate({Block("raw")}) /\ Continue("compress")
                 ELSE Return /\ UNCHANGED <<heap, wild>>
            /\ UNCHANGED <<anim, file, picture, starved>>

\* The cast of a size_t to a field of the header.
Uint32(n) == n % (Uint32Max + 1)

\* The timing table and the frame lie behind all of the metadata; a decoder looks
\* for them where the length in the header says, and what it finds inside the
\* metadata is taken to be no frame of the size announced.
FileOf(a) ==
  [ frames |-> [i \in 1..FrameCount(a) |-> a.frames[i].px],
    delays |-> [i \in 1..FrameCount(a) |-> a.frames[i].delay],
    channels |-> a.channels, bytes_per_channel |-> a.bytes_per_channel,
    pixels |-> a.pixels, loop_count |-> a.loop_count,
    palette |-> a.frames[1].palette,
    palette_alpha |-> IF Indexed(a.frames[1]) THEN a.frames[1].palette_alpha ELSE <<>>,
    metadata |-> SubSeq(a.metadata, 1, Uint32(Len(a.metadata))),
    raw_byte_count |-> Uint32(RawBytes(a)), well_formed |-> TRUE,
    whole |-> Uint32(Len(a.metadata)) = Len(a.metadata), ours |-> TRUE ]

\* The output buffer and the compressor, which may itself run out of memory.
Compress ==
  /\ pc = "compress"
  /\ \E oom \in OutOfMemory :
       IF oom THEN GiveUp({Block("raw")})
       ELSE /\ Free(<<Ptr(Block("raw"))>>, {Block("file")})
            /\ file' = FileOf(anim)
            /\ Return
            /\ UNCHANGED <<anim, picture, starved>>

------------------------------------------------------------------------------
(* apxl_decode                                                               *)

\* apxl_header_read, the announced size, and the sections before the frame.
\* `well_formed' stands for the magic and version bytes and for a file that
\* holds these sections, `whole' for a frame that decompresses to what the
\* header announces.
HeaderOk(f) ==
  /\ f.well_formed
  /\ f.channels \in 1..4 /\ f.bytes_per_channel \in {1, 2}
  /\ GeometryOk(f.pixels, Len(f.frames))
  /\ Len(f.palette) <= APXL_MAX_PALETTE
  /\ Len(f.palette_alpha) <= Len(f.palette)
  /\ f.palette # <<>> => f.channels = 1 /\ f.bytes_per_channel = 1
  /\ f.raw_byte_count =
       f.pixels * f.channels * f.bytes_per_channel * Len(f.frames)

Decode ==
  /\ Idle /\ anim = NoAnim /\ file # NoFile
  /\ Continue("header")
  /\ UNCHANGED <<anim, file, heap, wild, picture, starved>>

ReadHeader ==
  /\ pc = "header"
  /\ IF HeaderOk(file) THEN Continue("palette") ELSE Return
  /\ UNCHANGED <<anim, file, heap, wild, picture, starved>>

PaletteBlocks ==
  (IF file.palette # <<>> THEN {Block("palette")} ELSE {})
    \cup (IF file.palette_alpha # <<>> THEN {Block("palette_alpha")} ELSE {})

CopyPalette ==
  /\ pc = "palette"
  /\ \/ /\ Allocate(PaletteBlocks)
        /\ pc' = "decompress"
        /\ UNCHANGED <<anim, file, work, picture, starved>>
     \/ TRUE \in OutOfMemory /\ file.palette # <<>> /\ GiveUp({})

Decompress ==
  /\ pc = "decompress"
  /\ \E oom \in OutOfMemory :
       IF oom THEN GiveUp(PaletteBlocks)
       ELSE /\ IF file.whole
                 THEN Allocate({Block("storage")}) /\ Continue("frames")
                 ELSE /\ heap' = heap \ PaletteBlocks
                      /\ Return
                      /\ UNCHANGED wild
            /\ UNCHANGED <<anim, file, picture, starved>>

\* The frames point into the one decompressed block.
DecodedFrame(i) ==
  [ buf |-> [block |-> Block("storage"), at |-> (i - 1) * file.pixels],
    px |-> file.frames[i], channels |-> file.channels,
    bytes_per_channel |-> file.bytes_per_channel,
    palette |-> file.palette, palette_alpha |-> file.palette_alpha,
    delay |-> file.delays[i] ]

\* The metadata is dropped when there is no memory for it.
BuildFrames ==
  /\ pc = "frames"
  /\ \E oom, dropped \in OutOfMemory :
       IF oom THEN GiveUp(PaletteBlocks \cup {Block("storage")})
       ELSE LET kept == IF dropped THEN <<>> ELSE file.metadata
            IN  /\ Allocate({Block("frames")}
                      \cup (IF kept # <<>> THEN {Block("metadata")} ELSE {}))
                /\ anim' = [ frames |-> [i \in DOMAIN file.frames |-> DecodedFrame(i)],
                             channels |-> file.channels,
                             bytes_per_channel |-> file.bytes_per_channel,
                             pixels |-> file.pixels, loop_count |-> file.loop_count,
                             palette |-> file.palette,
                             palette_alpha |-> file.palette_alpha,
                             metadata |-> kept, storage |-> TRUE ]
                /\ starved' = (starved \/ kept # file.metadata)
                /\ Return
                /\ UNCHANGED <<file, picture>>

------------------------------------------------------------------------------
Next ==
  \/ DropFile \/ FreeAnim \/ Rest
  \/ TryIndex \/ AllocateTable \/ CollectColour \/ NextFrame
  \/ AllocateNewBufs \/ IndexFrame \/ FreeTable \/ Commit
  \/ Encode \/ Gather \/ Compress
  \/ Decode \/ ReadHeader \/ CopyPalette \/ Decompress \/ BuildFrames

Spec == Init /\ [][Next]_vars

------------------------------------------------------------------------------
(* Properties                                                                *)

IndexSteps  == {"table", "pass1", "pass2", "commit"}
EncodeSteps == {"gather", "compress"}
DecodeSteps == {"header", "palette", "decompress", "frames"}

TypeOK ==
  /\ anim # NoAnim => anim \in Anims
  /\ file # NoFile => file \in Files
  /\ pc = "idle" => work = <<>>
  /\ pc \in {"idle"} \cup IndexSteps \cup EncodeSteps \cup DecodeSteps
  /\ wild \in BOOLEAN /\ starved \in BOOLEAN

\* The colour table: every colour in it is found by probing, and the indices
\* number the colours.
Used(t, s) == t.slots[s].idx >= 0
Keys(t) == { t.slots[s].key : s \in { u \in Slots : Used(t, u) } }

Tables ==
  [ slots : [Slots -> [key : Nat, idx : Int]], count : 0..APXL_MAX_PALETTE,
    found : Int, full : BOOLEAN ]

TableOk(t) ==
  /\ t \in Tables
  /\ \A s \in Slots : t.slots[s].idx \in -1..(t.count - 1)
  /\ \A s, u \in Slots : Used(t, s) /\ t.slots[s].idx = t.slots[u].idx => s = u
  /\ \A i \in 0..(t.count - 1) : \E s \in Slots : t.slots[s].idx = i
  /\ \A s \in Slots : Used(t, s) =>
       t.slots[s].key \in Colours /\ Probe(t.slots, t.slots[s].key) = s

\* Who owns the samples of an animation: one block for all, or every frame its
\* own, as the caller gave it or as apxl_anim_try_index left it.
AsGiven(a) ==
  /\ \A i \in 1..FrameCount(a) : a.frames[i].buf = Ptr(<<"pixels", i>>)
  /\ a.palette = <<>> /\ a.palette_alpha = <<>>
  /\ a.channels \in {3, 4} =>
       \A i \in 1..FrameCount(a) :
         a.frames[i].px # <<>> /\ Range(a.frames[i].px) \subseteq Colours

AsIndexed(a) ==
  a.channels = 1 /\ \A i \in 1..FrameCount(a) : a.frames[i].buf = Ptr(<<"indices", i>>)

BufsOwned == anim # NoAnim => anim.storage \/ AsGiven(anim) \/ AsIndexed(anim)

ColoursOf(a) == UNION { Range(a.frames[i].px) : i \in 1..FrameCount(a) }

Visited(i, p) == i < work.frame \/ (i = work.frame /\ p < work.pixel)

\* Pass 1 has the colours it has come past in the table, and no other.
CollectInv ==
  /\ work.frame \in 1..(FrameCount(anim) + 1) /\ work.pixel \in Nat \ {0}
  /\ work = [table |-> work.table, frame |-> work.frame, pixel |-> work.pixel]
  /\ Keys(work.table) \subseteq ColoursOf(anim)
  /\ \A i \in 1..FrameCount(anim) : \A p \in DOMAIN anim.frames[i].px :
       Visited(i, p) => anim.frames[i].px[p] \in Keys(work.table)

\* Pass 2 finds them all.
FoundInv ==
  /\ work = [table |-> work.table, bufs |-> work.bufs]
  /\ Keys(work.table) = ColoursOf(anim)
  /\ work.bufs \in Seq(Seq(Nat)) /\ Len(work.bufs) <= FrameCount(anim)
  /\ \A i \in 1..Len(work.bufs) :
       work.bufs[i] = Indices(work.table, anim.frames[i].px)

IndexInv ==
  /\ pc \in IndexSteps =>
       anim # NoAnim /\ ~anim.storage /\ Indexable(anim)
  /\ pc \in {"pass1", "pass2", "commit"} => TableOk(work.table) /\ ~work.table.full
  /\ pc = "pass1" => CollectInv
  /\ pc \in {"pass2", "commit"} => FoundInv
  /\ pc = "commit" => Len(work.bufs) = FrameCount(anim)

EncodeInv ==
  /\ pc \in EncodeSteps => anim # NoAnim /\ file = NoFile /\ Representable(anim)
  /\ pc = "compress" => FramesMatch(anim)

DecodeInv ==
  /\ pc \in DecodeSteps => anim = NoAnim /\ file # NoFile
  /\ pc \in DecodeSteps \ {"header"} => HeaderOk(file)
  /\ pc = "frames" => file.whole
  /\ file # NoFile => /\ Len(file.delays) = Len(file.frames)
                      /\ file.ours => HeaderOk(file)

\* What the call in progress has allocated.
Busy ==
  CASE pc = "pass1"      -> {Block("table")}
    [] pc = "pass2"      -> {Block("table")} \cup NewBufs
    [] pc = "commit"     -> NewBufs
    [] pc = "compress"   -> {Block("raw")}
    [] pc = "decompress" -> PaletteBlocks
    [] pc = "frames"     -> PaletteBlocks \cup {Block("storage")}
    [] OTHER             -> {}

\* Between calls exactly the blocks are in use that apxl_free and pxl_free will
\* release: no call loses one, whichever allocation failed, and none is gone
\* that is still pointed to.  A call in progress adds its own.
HeapIsOwned == heap = Owned \cup Busy

\* free() is only ever given a block in use: a frame's buffer is freed by one
\* owner, a pointer into the decompressed block by none.
FreesAreSound == ~wild

\* The types, who owns what, and how far the call in progress has come.
CallsInv ==
  /\ TypeOK /\ BufsOwned /\ IndexInv /\ EncodeInv /\ DecodeInv
  /\ HeapIsOwned /\ FreesAreSound

\* The header can say how long the metadata are.
MetadataFits == Len(picture.metadata) <= Uint32Max

SameMetadata(m) == m = picture.metadata \/ (starved /\ m = <<>>)

\* Metadata are kept whole or dropped for lack of memory, and in a file of ours
\* nothing else can be wrong than their length.
MetadataKept ==
  /\ picture.metadata \in Seq(Nat)
  /\ anim # NoAnim => SameMetadata(anim.metadata)
  /\ file # NoFile => /\ file.whole => SameMetadata(file.metadata)
                      /\ file.ours /\ MetadataFits => file.whole

AnimInv == CallsInv /\ MetadataKept

\* p is the picture the caller put in, with its metadata or without.
Shows(p) ==
  /\ p.frames = picture.frames /\ p.delays = picture.delays
  /\ p.loops = picture.loops /\ SameMetadata(p.metadata)

\* Whatever calls are made, in whatever order, and whatever fails, the
\* animation and the file stand for the picture the caller put in: every colour
\* survives the palette, the byte index and the container, and so do timing and
\* loop count.  Only metadata is dropped, and only for lack of memory.  Of a file
\* that does not decompress there is nothing to say.
Lossless ==
  /\ anim # NoAnim => Shows(PictureOf(anim))
  /\ file # NoFile /\ file.whole => Shows(PictureIn(file))

\* apxl_anim_try_index says no only when the colours of all frames together do
\* not fit one palette or memory runs out, and then leaves the animation alone;
\* when it says yes they fit, the palette holds each colour once, every frame
\* shares it, and no index lies behind its end.
TryIndexIsExact ==
  [][ (pc \in IndexSteps /\ pc' = "idle") =>
        LET colours == Cardinality(ColoursOf(anim))
            count   == Len(anim'.palette)
        IN  \/ anim' = anim /\ (starved' \/ colours > APXL_MAX_PALETTE)
            \/ /\ count = colours /\ count <= APXL_MAX_PALETTE
               /\ \A i \in 1..FrameCount(anim') :
                    /\ anim'.frames[i].palette = anim'.palette
                    /\ Range(anim'.frames[i].px) \subseteq 0..(count - 1) ]_vars

\* The decoder accepts every file the encoder wrote, memory permitting, if the
\* header could say how long the metadata are: the limits of the two, the sizes
\* they compute and the palettes they allow agree.
OwnFilesDecode ==
  [][ (pc \in DecodeSteps /\ pc' = "idle" /\ file.ours /\ MetadataFits) =>
        anim' # NoAnim \/ starved' ]_vars

\* apxl.h: every frame must carry byte-identical palettes, and apxl_encode
\* "rejects a mismatch rather than silently picking one frame's palette".
EncodedPalettesMatch ==
  [][ (pc = "compress" /\ file' # NoFile) =>
        \A i, j \in 1..FrameCount(anim) :
          /\ anim.frames[i].palette = anim.frames[j].palette
          /\ anim.frames[i].palette_alpha = anim.frames[j].palette_alpha ]_vars
==============================================================================
