------------------------------ MODULE ApngLoad -------------------------------
(***************************************************************************)
(* apng_load of apng.c: a first pass over the chunks of a PNG collects the *)
(* frame controls and the image data of each, a second decodes and         *)
(* composites them.  Without a frame control the file is a still picture.  *)
(*                                                                         *)
(* A file is a sequence of chunks, each chosen when the first pass reads   *)
(* it.  The data of a picture is cut into pieces; libpng, which is         *)
(* external, decodes a run of pieces that begins with a whole picture.     *)
(* A sample is its colour and whether it is opaque, clear or in between,   *)
(* as the file means it: through its alpha channel, through the tRNS entry *)
(* of its palette index, or, clear or opaque, through the one colour that  *)
(* the tRNS of a gray or RGB file names.                                   *)
(***************************************************************************)
EXTENDS Layers, PngChunks

CONSTANTS
  Width, Height,   \* the one canvas within the limits that files declare
  FirstCapacity,   \* 8 in the code
  FileChunks,      \* the chunks a file may contain
  MaxChunks,       \* bound on their number
  OutOfMemory      \* the outcomes of an allocation: {FALSE} or BOOLEAN

\* The numbers in a chunk are unsigned.
NumbersOk(c) ==
  /\ c.kind = "fcTL" => {c.x, c.y, c.w, c.h} \subseteq Nat
  /\ c.kind = "acTL" => c.plays \in Nat

ASSUME ApngAssumption ==
  /\ \A c \in FileChunks : NumbersOk(c)
  /\ Width \in Nat \ {0} /\ Height \in Nat \ {0}
  /\ FirstCapacity \in Nat \ {0}
  /\ MaxChunks \in Nat /\ OutOfMemory \subseteq BOOLEAN

VARIABLES
  pc,            \* walk | check | still | canvas | compose | done
  file,          \* the chunks read so far
  ihdr,          \* the last header; NoHeader before one
  plte, trns,    \* a palette, and transparency, have been seen
  num_plays,
  fctls, fcap,   \* the frame controls, each with its data, and the room for them
  default_is_frame, idat_default, idat_seen,
  canvas,
  shots,         \* anim.frames: pixels and delay
  metadata,      \* anim.metadata is not empty
  heap,          \* the blocks of memory allocated
  loaded,        \* an animation was returned
  starved        \* an allocation has failed

headVars == <<ihdr, plte, trns, num_plays>>
frameVars == <<fctls, fcap, default_is_frame>>
dataVars == <<idat_default, idat_seen>>
drawVars == <<canvas, shots, metadata, loaded>>
vars == <<pc, file, headVars, frameVars, dataVars, drawVars, heap, starved>>

Pixels == (0..(Width - 1)) \X (0..(Height - 1))

\* A colour type has an alpha channel, or a palette, or is plain gray or RGB.
NoHeader == [size |-> "none", color |-> "none"]

\* A growbuf: what was put into it before a reallocation failed, if one did.
NoData == [pieces |-> <<>>, failed |-> FALSE]

Put(data, piece, oom) ==
  IF data.failed THEN data
  ELSE IF oom THEN [data EXCEPT !.failed = TRUE]
  ELSE [data EXCEPT !.pieces = Append(@, piece)]

Block(name) == <<name, 0>>
Shots(n) == { <<"shot", k>> : k \in 1..n }

Init ==
  /\ pc = "walk" /\ file = <<>>
  /\ ihdr = NoHeader /\ plte = FALSE /\ trns = FALSE /\ num_plays = 0
  /\ fctls = <<>> /\ fcap = 0 /\ default_is_frame = FALSE
  /\ idat_default = NoData /\ idat_seen = FALSE
  /\ canvas = [p \in Pixels |-> <<Empty>>]
  /\ shots = <<>> /\ metadata = FALSE
  /\ heap = {Block("file")}
  /\ loaded = FALSE /\ starved = FALSE

------------------------------------------------------------------------------
\* The blocks that hold image data: of the default image, and of each frame.
DataBlocks ==
  (IF idat_default.pieces # <<>> THEN {Block("idat")} ELSE {})
    \cup { <<"data", k>> : k \in { j \in 1..Len(fctls) : fctls[j].data.pieces # <<>> } }

ScratchForgetsData == {Block("file"), Block("canvas"), Block("prevbuf"), Block("fctls")}

\* What every way out releases of the load's own blocks.
Scratch ==
  {Block("file"), Block("canvas"), Block("prevbuf"), Block("fctls")} \cup DataBlocks

\* goto fail, with `also' allocated by the step that fails.
Fail(also) ==
  /\ pc' = "done"
  /\ heap' = (heap \cup also) \ (Scratch \cup {Block("frames")} \cup Shots(Len(shots)))
  /\ UNCHANGED drawVars

------------------------------------------------------------------------------
(* The first pass.                                                           *)

Read(c) ==
  /\ pc = "walk" /\ Len(file) < MaxChunks
  /\ file' = Append(file, c)

ReadHeader(c) ==
  /\ Read(c) /\ c.kind = "IHDR"
  /\ ihdr' = [size |-> c.size, color |-> c.color]
  /\ UNCHANGED <<pc, plte, trns, num_plays, frameVars, dataVars, drawVars, heap, starved>>

ReadActl(c) ==
  /\ Read(c) /\ c.kind = "acTL"
  /\ num_plays' = c.plays
  /\ UNCHANGED <<pc, ihdr, plte, trns, frameVars, dataVars, drawVars, heap, starved>>

ReadPlte(c) ==
  /\ Read(c) /\ c.kind = "PLTE"
  /\ plte' = TRUE
  /\ UNCHANGED <<pc, ihdr, trns, num_plays, frameVars, dataVars, drawVars, heap, starved>>

ReadTrns(c) ==
  /\ Read(c) /\ c.kind = "tRNS"
  /\ trns' = TRUE
  /\ UNCHANGED <<pc, ihdr, plte, num_plays, frameVars, dataVars, drawVars, heap, starved>>

\* Ancillary chunks, and any that is too short for its type.
ReadOther(c) ==
  /\ Read(c) /\ c.kind = "other"
  /\ UNCHANGED <<pc, headVars, frameVars, dataVars, drawVars, heap, starved>>

Full == Len(fctls) = fcap
Capacity == IF fcap = 0 THEN FirstCapacity ELSE 2 * fcap

\* The default image is a frame: the first control comes before its data.
OwnsDefaultAnyOrder == Len(fctls) = 0
OwnsDefault == ~idat_seen /\ Len(fctls) = 0

ReadFctl(c) ==
  /\ Read(c) /\ c.kind = "fcTL"
  /\ \E oom \in OutOfMemory :
       /\ oom => Full
       /\ starved' = (starved \/ oom)
       /\ IF oom
            THEN Fail({}) /\ UNCHANGED frameVars
            ELSE /\ fctls' = Append(fctls, [ctl |-> c, data |-> NoData])
                 /\ fcap' = IF Full THEN Capacity ELSE fcap
                 /\ default_is_frame' = (default_is_frame \/ OwnsDefault)
                 /\ heap' = heap \cup {Block("fctls")}
                 /\ UNCHANGED <<pc, drawVars>>
  /\ UNCHANGED <<headVars, dataVars>>

ReadIdat(c) ==
  /\ Read(c) /\ c.kind = "IDAT"
  /\ \E oom \in OutOfMemory :
       /\ starved' = (starved \/ oom)
       /\ idat_default' = Put(idat_default, c.piece, oom)
  /\ idat_seen' = TRUE
  /\ UNCHANGED <<pc, headVars, frameVars, drawVars>>
  /\ heap' = heap \cup DataBlocks'

\* fdAT goes to the last frame control, whatever its sequence number.
ReadFdat(c) ==
  /\ Read(c) /\ c.kind = "fdAT"
  /\ UNCHANGED <<headVars, dataVars>>
  /\ IF fctls = <<>>
       THEN Fail({}) /\ UNCHANGED <<frameVars, starved>>
       ELSE \E oom \in OutOfMemory :
              /\ starved' = (starved \/ oom)
              /\ fctls' = [fctls EXCEPT ![Len(fctls)].data = Put(@, c.piece, oom)]
              /\ heap' = heap \cup DataBlocks'
              /\ UNCHANGED <<pc, fcap, default_is_frame, drawVars>>

\* IEND, or the data end, within a chunk or not: what came before counts.
ReadEnd(c) ==
  /\ Read(c) /\ c.kind = "end"
  /\ pc' = "check"
  /\ UNCHANGED <<headVars, frameVars, dataVars, drawVars, heap, starved>>

ReadChunk(c) ==
  \/ ReadHeader(c) \/ ReadActl(c) \/ ReadPlte(c) \/ ReadTrns(c) \/ ReadOther(c)
  \/ ReadFctl(c) \/ ReadIdat(c) \/ ReadFdat(c) \/ ReadEnd(c)

CheckCanvas ==
  /\ pc = "check"
  /\ IF ihdr.size = "canvas"
       THEN /\ pc' = IF fctls = <<>> THEN "still" ELSE "canvas"
            /\ UNCHANGED <<heap, drawVars>>
       ELSE Fail({})
  /\ UNCHANGED <<file, headVars, frameVars, dataVars, starved>>

------------------------------------------------------------------------------
(* Pictures.  synth_png puts a header of the frame's size before the data,   *)
(* and for an indexed file its palette and its transparency;                 *)
(* decode_frame_png refuses all but a picture of that size.                  *)

IsWhole(pieces, pic) ==
  /\ pic.parts <= Len(pieces)
  /\ \A n \in 1..pic.parts : pieces[n] = [pic |-> pic, part |-> n]

Decodes(data, w, h) ==
  /\ data.pieces # <<>>
  /\ LET pic == data.pieces[1].pic
     IN  IsWhole(data.pieces, pic) /\ pic.w = w /\ pic.h = h
  /\ ihdr.color = "indexed" => plte

\* decode_frame_png: without an alpha channel, or transparency that synth_png passes
\* on, a sample is opaque.
DecodedSample(s) ==
  IF ihdr.color = "alpha" \/ (ihdr.color = "indexed" /\ trns)
    THEN s ELSE [s EXCEPT !.alpha = "opaque"]

HasMetadata ==
  \E n \in 1..Len(file) : file[n].kind = "other" /\ ~IsDroppedType(file[n].type, FALSE)

\* pxl_meta_extract at the end of both ways; no memory, no metadata.
TakeMetadata ==
  \E oom \in OutOfMemory :
    /\ metadata' = (HasMetadata /\ ~oom)
    /\ starved' = (starved \/ (HasMetadata /\ oom))
    /\ heap' = ((heap \ Scratch) \cup {Block("frames")} \cup Shots(Len(shots')))
                 \cup (IF metadata' THEN {Block("metadata")} ELSE {})

Return == pc' = "done" /\ loaded' = TRUE

\* The samples of a decoded picture, replacing what lies below.
Samples(pic) ==
  [p \in Pixels |-> <<DecodedSample(pic.px[p])>>]

LoadStill ==
  /\ pc = "still"
  /\ \/ /\ ~Decodes(idat_default, Width, Height)
        /\ Fail({}) /\ UNCHANGED starved
     \/ /\ TRUE \in OutOfMemory /\ starved' = TRUE
        /\ Fail({})
     \/ /\ Decodes(idat_default, Width, Height)
        /\ shots' = <<[pixels |-> Samples(idat_default.pieces[1].pic), delay |-> 0]>>
        /\ Return /\ TakeMetadata
        /\ UNCHANGED canvas
  /\ UNCHANGED <<file, headVars, frameVars, dataVars>>

------------------------------------------------------------------------------
(* The second pass.                                                          *)

\* anim.frames, canvas and prevbuf are asked for together.
AllocateCanvas ==
  LET wanted == {Block("frames"), Block("canvas"), Block("prevbuf")}
  IN  /\ pc = "canvas"
      /\ \E missed \in SUBSET wanted :
           /\ missed # {} => TRUE \in OutOfMemory
           /\ starved' = (starved \/ missed # {})
           /\ IF missed = {}
                THEN pc' = "compose" /\ heap' = heap \cup wanted /\ UNCHANGED drawVars
                ELSE Fail(wanted \ missed)
  /\ UNCHANGED <<file, headVars, frameVars, dataVars>>

\* The data of frame k: of the default image if the frame owns it.
DataOf(k) ==
  IF k = 1 /\ default_is_frame THEN idat_default ELSE fctls[k].data

InCanvasWidthOnly(c) == c.w > 0 /\ c.h > 0 /\ c.w <= Width /\ c.h <= Height
InCanvas(c) == c.w > 0 /\ c.h > 0 /\ c.x + c.w <= Width /\ c.y + c.h <= Height

AreaOf(c) == (c.x..(c.x + c.w - 1)) \X (c.y..(c.y + c.h - 1))

\* One sample laid over what is below: replaced outright by BLEND_SOURCE and by
\* an opaque sample, left alone by a clear one, else source-over.
Blend(c, s, below) ==
  IF c.blend = "source" \/ s.alpha = "opaque" THEN <<s>>
  ELSE IF s.alpha = "clear" THEN below
  ELSE Append(below, s)

Drawn(c, pic) ==
  [p \in Pixels |->
     IF p \in AreaOf(c)
       THEN Blend(c, DecodedSample(pic.px[<<p[1] - c.x, p[2] - c.y>>]), canvas[p])
       ELSE canvas[p]]

\* The canvas that the next frame is drawn on.
Disposed(c, drawn) ==
  CASE c.dispose = "background" ->
         [p \in Pixels |-> IF p \in AreaOf(c) THEN <<Empty>> ELSE drawn[p]]
    [] c.dispose = "previous" -> canvas  \* prevbuf
    [] OTHER -> drawn

Compose ==
  /\ pc = "compose" /\ Len(shots) < Len(fctls)
  /\ LET k    == Len(shots) + 1
         c    == fctls[k].ctl
         data == DataOf(k)
         good == InCanvas(c) /\ Decodes(data, c.w, c.h)
     IN  \/ ~good /\ Fail({}) /\ UNCHANGED starved
         \/ TRUE \in OutOfMemory /\ starved' = TRUE /\ Fail({})
         \/ /\ good
            /\ LET drawn == Drawn(c, data.pieces[1].pic)
               IN  /\ shots' = Append(shots, [pixels |-> drawn, delay |-> c.delay])
                   /\ canvas' = Disposed(c, drawn)
            /\ heap' = heap \cup Shots(Len(shots'))
            /\ UNCHANGED <<pc, metadata, loaded, starved>>
  /\ UNCHANGED <<file, headVars, frameVars, dataVars>>

ReturnFrames ==
  /\ pc = "compose" /\ Len(shots) = Len(fctls)
  /\ UNCHANGED <<shots, canvas>>
  /\ Return /\ TakeMetadata
  /\ UNCHANGED <<file, headVars, frameVars, dataVars>>

LoadStep ==
  CheckCanvas \/ LoadStill \/ AllocateCanvas \/ Compose \/ ReturnFrames

Next == (\E c \in FileChunks : ReadChunk(c)) \/ LoadStep

Spec == Init /\ [][Next]_vars

------------------------------------------------------------------------------
(* What the chunks of a file mean (APNG: dispose_op, blend_op, fdAT).        *)

Positions(kind) == { n \in 1..Len(file) : file[n].kind = kind }

\* The place of the k-th frame control.
ControlAt(k) == Nth(Positions("fcTL"), k)

\* The chunks with the data of the frame whose control is the k-th: the IDATs,
\* if it is the first and comes before them, or else the fdATs up to the next
\* control.
DataChunks(k) ==
  LET from  == ControlAt(k)
      until == IF k < Cardinality(Positions("fcTL")) THEN ControlAt(k + 1) ELSE Len(file)
  IN  IF k = 1 /\ \A n \in Positions("IDAT") : from < n
        THEN Positions("IDAT")
        ELSE Positions("fdAT") \cap (from..until)

PiecesAt(positions) ==
  LET chunks == Those(file, positions) IN [n \in DOMAIN chunks |-> chunks[n].piece]

PiecesOf(k) == PiecesAt(DataChunks(k))

\* The colour type of the file.
Color ==
  IF Positions("IHDR") = {} THEN NoHeader.color ELSE file[Max(Positions("IHDR"))].color

\* Without an alpha channel the transparency of a file is that of its tRNS: of the
\* entries of its palette, or of the one colour that is clear.
MeantSample(s) ==
  IF \/ Color = "alpha"
     \/ /\ Positions("tRNS") # {}
        /\ Color = "indexed" \/ (Color = "plain" /\ s.alpha = "clear")
    THEN s ELSE [s EXCEPT !.alpha = "opaque"]

\* The file names one colour of its gray or RGB samples that is clear.
Keyed == Color = "plain" /\ Positions("tRNS") # {}

LayerOf(k) ==
  LET c   == file[ControlAt(k)]
      pic == PiecesOf(k)[1].pic
      s(p) == MeantSample(pic.px[<<p[1] - c.x, p[2] - c.y>>])
  IN  [ area    |-> AreaOf(c),
        paint   |-> [p \in AreaOf(c) |->
                       [ colour |-> s(p),
                         kind   |-> IF c.blend = "source" \/ s(p).alpha = "opaque"
                                      THEN "solid"
                                    ELSE IF s(p).alpha = "clear" THEN "nothing"
                                    ELSE "glaze" ]],
        dispose |-> c.dispose ]

\* The file has a frame to show, and every frame can be shown.
Showable ==
  /\ Positions("IHDR") # {} /\ file[Max(Positions("IHDR"))].size = "canvas"
  /\ Color = "indexed" => Positions("PLTE") # {}
  /\ \A n \in Positions("fdAT") : \E m \in Positions("fcTL") : m < n
  /\ LET whole(pieces, w, h) ==
           /\ pieces # <<>> /\ IsWhole(pieces, pieces[1].pic)
           /\ pieces[1].pic.w = w /\ pieces[1].pic.h = h
     IN  IF Positions("fcTL") = {}
           THEN whole(PiecesAt(Positions("IDAT")), Width, Height)
           ELSE \A k \in 1..Cardinality(Positions("fcTL")) :
                  LET c == file[ControlAt(k)]
                  IN  AreaOf(c) # {} /\ AreaOf(c) \subseteq Pixels
                        /\ whole(PiecesOf(k), c.w, c.h)

------------------------------------------------------------------------------
(* Properties                                                                *)

TypeOK ==
  /\ pc \in {"walk", "check", "still", "canvas", "compose", "done"}
  /\ Len(file) <= MaxChunks
  /\ {plte, trns, default_is_frame, idat_seen, metadata, loaded, starved} \subseteq BOOLEAN
  /\ num_plays \in Nat
  /\ Len(fctls) <= fcap
  /\ Len(shots) <= Max({1, Len(fctls)})
  /\ heap \subseteq { Block(b) : b \in {"file", "idat", "fctls", "canvas", "prevbuf",
                                        "frames", "metadata"} }
                      \cup Shots(MaxChunks) \cup { <<"data", k>> : k \in 1..MaxChunks }

\* Frame k of the animation is what the first k frames of the file show, laid over
\* each other, each from its own data, whatever the file's colour type: "Force RGBA8
\* output regardless of source format" (apng.c:113).
EveryFrameIsLayers ==
  (pc \in {"compose", "done"} /\ fctls # <<>>) =>
    LET layers == [k \in 1..Len(shots) |-> LayerOf(k)]
    IN  \A k \in 1..Len(shots) :
          /\ PiecesOf(k) # <<>>
          /\ shots[k].pixels = [p \in Pixels |-> Shown(layers, k, p)]
          /\ shots[k].delay = file[ControlAt(k)].delay

\* So it is for every file but one that names a clear colour, whose tRNS synth_png
\* leaves out.
FramesAreLayers == ~Keyed => EveryFrameIsLayers

\* Whatever fails, only the blocks of a returned animation stay allocated.
NothingLeaks ==
  pc = "done" =>
    heap = IF loaded THEN {Block("frames")} \cup Shots(Len(shots))
                            \cup (IF metadata THEN {Block("metadata")} ELSE {})
                     ELSE {}

\* The types, and no leak.
LoadInv == TypeOK /\ NothingLeaks

\* With memory enough, a file is loaded if and only if each of its frames can be
\* shown, and then with all of them.
VerdictIsExact ==
  (pc = "done" /\ ~starved) =>
    /\ loaded <=> Showable
    /\ loaded => Len(shots) = Max({1, Cardinality(Positions("fcTL"))})
==============================================================================
