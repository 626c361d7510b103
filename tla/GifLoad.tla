------------------------------ MODULE GifLoad --------------------------------
(***************************************************************************)
(* gif_load and read_image of gif.c: a first pass over the blocks of a     *)
(* file, which decodes every image it meets, and a second that composites  *)
(* them, one full-canvas snapshot per image.                               *)
(*                                                                         *)
(* A file is a sequence of blocks, each chosen when the first pass reads   *)
(* it.  What the LZW decoder makes of an image's data is GifLzw's subject: *)
(* here an image carries its indices, or does not decode.                  *)
(***************************************************************************)
EXTENDS Layers

CONSTANTS
  Width, Height,   \* the canvas, already within the limits
  GIF_MAX_FRAMES,  \* 1000000 in the code
  FirstCapacity,   \* 8 in the code
  FileBlocks,      \* the blocks a file may contain
  MaxBlocks,       \* bound on their number
  GlobalTable,     \* the colours of the global table; <<>> when there is none
  OutOfMemory      \* the outcomes of an allocation: {FALSE} or BOOLEAN

ASSUME GifAssumption ==
  /\ Width \in Nat \ {0} /\ Height \in Nat \ {0}
  /\ FirstCapacity \in Nat \ {0} /\ GIF_MAX_FRAMES \in Nat
  /\ MaxBlocks \in Nat /\ OutOfMemory \subseteq BOOLEAN

VARIABLES
  pc,            \* walk | canvas | draw | done | crashed
  file,          \* the blocks read so far
  pending_gce,
  loop_count,
  images, icap,  \* the decoded images, and the room for them
  canvas,
  shots,         \* anim.frames: pixels and delay
  heap,          \* the blocks of memory allocated
  loaded,        \* an animation was returned
  starved        \* an allocation has failed

loadVars == <<pc, file, pending_gce, loop_count, images, icap, canvas, shots, heap,
          loaded, starved>>

drawVars == <<canvas, shots, loaded>>

Pixels == (0..(Width - 1)) \X (0..(Height - 1))

NoGce == [has_gce |-> FALSE, disposal |-> 0, transparent |-> -1, delay |-> 0]

Block(name) == <<name, 0>>
Indices(n) == { <<"indices", k>> : k \in 1..n }
Shots(n)   == { <<"shot", k>> : k \in 1..n }

LoadInit ==
  /\ pc = "walk" /\ file = <<>>
  /\ pending_gce = NoGce /\ loop_count = 1
  /\ images = <<>> /\ icap = 0
  /\ canvas = [p \in Pixels |-> <<Empty>>]
  /\ shots = <<>>
  /\ heap = {Block("file")}
  /\ loaded = FALSE /\ starved = FALSE

------------------------------------------------------------------------------
\* What both ways out release of the load's own blocks.
Scratch ==
  {Block("file"), Block("canvas"), Block("prevbuf"), Block("images")}
    \cup Indices(Len(images))

FailKeepsFrames == Scratch

\* What `fail' releases: apxl_free too, over every frame filled in so far.
FailFrees == Scratch \cup {Block("frames")} \cup Shots(Len(shots))

\* goto fail, with `also' allocated by the step that fails.
Fail(also) ==
  /\ pc' = "done"
  /\ heap' = (heap \cup also) \ FailFrees
  /\ UNCHANGED drawVars

------------------------------------------------------------------------------
(* The first pass.                                                           *)

Read(b) ==
  /\ pc = "walk" /\ Len(file) < MaxBlocks
  /\ file' = Append(file, b)

\* The data ends, or a block is cut off, has an unknown introducer or a control
\* extension too short.
ReadBroken(b) ==
  /\ Read(b) /\ b.kind = "broken"
  /\ Fail({})
  /\ UNCHANGED <<pending_gce, loop_count, images, icap, starved>>

ReadGce(b) ==
  /\ Read(b) /\ b.kind = "gce"
  /\ pending_gce' = [has_gce |-> TRUE, disposal |-> b.disposal,
                     transparent |-> b.transparent, delay |-> b.delay]
  /\ UNCHANGED <<pc, loop_count, images, icap, heap, starved, drawVars>>

\* The loop sub-block has its three bytes, the first of them 1.
LoopsGiven(b) == b.valid

\* The NETSCAPE extension.  Without memory for its name memcmp is given NULL;
\* without memory for its data it is passed over.
ReadNetscape(b) ==
  /\ Read(b) /\ b.kind = "netscape"
  /\ \E name_oom, data_oom \in OutOfMemory :
       /\ starved' = (starved \/ name_oom \/ data_oom)
       /\ pc' = IF name_oom THEN "crashed" ELSE pc
       /\ loop_count' = IF ~name_oom /\ ~data_oom /\ LoopsGiven(b) THEN b.loops ELSE loop_count
  /\ UNCHANGED <<pending_gce, images, icap, heap, drawVars>>

\* Comments, plain text, other applications' blocks.
ReadOther(b) ==
  /\ Read(b) /\ b.kind = "other"
  /\ UNCHANGED <<pc, pending_gce, loop_count, images, icap, heap, starved, drawVars>>

TableOf(b) == IF b.table # <<>> THEN b.table ELSE GlobalTable

InCanvas(b) == b.w > 0 /\ b.h > 0 /\ b.x + b.w <= Width /\ b.y + b.h <= Height

AreaOf(b) == (b.x..(b.x + b.w - 1)) \X (b.y..(b.y + b.h - 1))

\* read_image: the rectangle lies in the canvas, there is a colour table, and
\* the data decode to exactly w * h indices.
ImageOk(b) == InCanvas(b) /\ TableOf(b) # <<>> /\ b.decodes

\* What the bytes of a block can be: numbers, tables of colours, and for an image
\* that decodes an index for each of its pixels.
IsBlock(b) ==
  CASE b.kind = "gce"      -> /\ b.disposal \in Nat /\ b.delay \in Nat
                              /\ b.transparent \in Nat \cup {-1}
    [] b.kind = "netscape" -> b.valid \in BOOLEAN /\ b.loops \in Nat
    [] b.kind = "image"    -> /\ {b.x, b.y, b.w, b.h} \subseteq Nat
                              /\ b.decodes \in BOOLEAN
                              /\ b.table \in Seq(Range(b.table))
                              /\ ImageOk(b) => \A p \in AreaOf(b) : b.indices[p] \in Nat
    [] OTHER               -> b.kind \in {"broken", "other", "trailer"}

ASSUME BlocksAssumption ==
  /\ \A b \in FileBlocks : IsBlock(b)
  /\ GlobalTable \in Seq(Range(GlobalTable))

Capacity == IF icap = 0 THEN FirstCapacity ELSE 2 * icap

Full == Len(images) = icap

NextGceSticky == pending_gce
NextGce == [pending_gce EXCEPT !.has_gce = FALSE]

\* im->gce: zeroed unless a control extension came before.
GceOfImage == IF pending_gce.has_gce THEN pending_gce ELSE NoGce

ReadImage(b) ==
  /\ Read(b) /\ b.kind = "image"
  /\ \E oom \in OutOfMemory :
       /\ starved' = (starved \/ oom)
       /\ \/ /\ ~ImageOk(b) \/ oom
             /\ Fail({})
             /\ UNCHANGED <<pending_gce, images, icap>>
          \/ /\ ImageOk(b) /\ ~oom
             /\ pending_gce' = NextGce
             /\ IF Full /\ Capacity > GIF_MAX_FRAMES
                  THEN Fail({}) /\ UNCHANGED <<images, icap>>
                  ELSE /\ images' = Append(images, [block |-> b, gce |-> GceOfImage])
                       /\ icap' = IF Full THEN Capacity ELSE icap
                       /\ heap' = heap \cup {Block("images")} \cup Indices(Len(images'))
                       /\ UNCHANGED <<pc, drawVars>>
  /\ UNCHANGED loop_count

ReadTrailer(b) ==
  /\ Read(b) /\ b.kind = "trailer"
  /\ IF images = <<>> THEN Fail({})
                      ELSE pc' = "canvas" /\ UNCHANGED <<heap, drawVars>>
  /\ UNCHANGED <<pending_gce, loop_count, images, icap, starved>>

------------------------------------------------------------------------------
(* The second pass.                                                          *)

\* anim.frames, canvas and prevbuf are asked for together.
AllocateCanvas ==
  LET wanted == {Block("frames"), Block("canvas"), Block("prevbuf")}
  IN  /\ pc = "canvas"
      /\ \E missed \in SUBSET wanted :
           /\ missed # {} => TRUE \in OutOfMemory
           /\ starved' = (starved \/ missed # {})
           /\ IF missed = {}
                THEN pc' = "draw" /\ heap' = heap \cup wanted /\ UNCHANGED drawVars
                ELSE Fail(wanted \ missed)
  /\ UNCHANGED <<file, pending_gce, loop_count, images, icap>>

\* An index beyond the table is clamped to its last colour.
Colour(b, index) ==
  LET t == TableOf(b) IN IF index >= Len(t) THEN t[Len(t)] ELSE t[index + 1]

\* The transparent index is compared before it is clamped.
LetsThrough(im, index) == im.gce.transparent # -1 /\ index = im.gce.transparent

Drawn(im) ==
  [p \in Pixels |->
     IF p \in AreaOf(im.block) /\ ~LetsThrough(im, im.block.indices[p])
       THEN <<Colour(im.block, im.block.indices[p])>>
       ELSE canvas[p]]

\* The canvas that the next image is drawn on.
Disposed(im, drawn) ==
  CASE im.gce.disposal = 2 ->
         [p \in Pixels |-> IF p \in AreaOf(im.block) THEN <<Empty>> ELSE drawn[p]]
    [] im.gce.disposal = 3 -> canvas  \* prevbuf
    [] OTHER -> drawn

Draw ==
  /\ pc = "draw" /\ Len(shots) < Len(images)
  /\ LET im    == images[Len(shots) + 1]
         drawn == Drawn(im)
     IN  \E oom \in OutOfMemory :
           /\ starved' = (starved \/ oom)
           /\ IF oom
                THEN Fail({})
                ELSE /\ shots' = Append(shots, [pixels |-> drawn, delay |-> im.gce.delay])
                     /\ heap' = heap \cup Shots(Len(shots'))
                     /\ canvas' = Disposed(im, drawn)
                     /\ UNCHANGED <<pc, loaded>>
  /\ UNCHANGED <<file, pending_gce, loop_count, images, icap>>

Return ==
  /\ pc = "draw" /\ Len(shots) = Len(images)
  /\ pc' = "done" /\ loaded' = TRUE
  /\ heap' = heap \ Scratch
  /\ UNCHANGED <<file, pending_gce, loop_count, images, icap, canvas, shots, starved>>

LoadNext ==
  \/ \E b \in FileBlocks :
       \/ ReadBroken(b) \/ ReadGce(b) \/ ReadNetscape(b) \/ ReadOther(b)
       \/ ReadImage(b) \/ ReadTrailer(b)
  \/ AllocateCanvas \/ Draw \/ Return

LoadSpec == LoadInit /\ [][LoadNext]_loadVars

------------------------------------------------------------------------------
(* What the blocks of a file mean.                                           *)

Positions(kinds) == { n \in 1..Len(file) : file[n].kind \in kinds }

\* The position of the k-th image.
ImageAt(k) == Nth(Positions({"image"}), k)

\* The control extension that belongs to the image at n: the last one after the
\* image before it.
GceAt(n) ==
  LET found == { m \in Positions({"gce"}) :
                   m < n /\ Positions({"gce", "image"}) \cap ((m + 1)..(n - 1)) = {} }
  IN  IF found = {} THEN NoGce ELSE file[CHOOSE m \in found : TRUE]

LayerAt(n) ==
  LET b == file[n]
      g == GceAt(n)
  IN  [ area    |-> AreaOf(b),
        paint   |-> [p \in AreaOf(b) |->
                       IF b.indices[p] = g.transparent
                         THEN [kind |-> "nothing"]
                         ELSE [kind |-> "solid", colour |-> Colour(b, b.indices[p])]],
        dispose |-> CASE g.disposal = 2 -> "background"
                      [] g.disposal = 3 -> "previous"
                      [] OTHER -> "none" ]

FileLayers == [k \in 1..Cardinality(Positions({"image"})) |-> LayerAt(ImageAt(k))]

\* The positions of the blocks that give a loop count.
Told == { n \in Positions({"netscape"}) : file[n].valid }

FileLoops == IF Told = {} THEN 1 ELSE file[Max(Told)].loops

Malformed ==
  \/ Positions({"broken"}) # {} \/ Positions({"image"}) = {}
  \/ \E n \in Positions({"image"}) : ~ImageOk(file[n])

------------------------------------------------------------------------------
(* Properties                                                                *)

Allocated ==
  {Block("file"), Block("images"), Block("frames"), Block("canvas"), Block("prevbuf")}
    \cup Indices(MaxBlocks) \cup Shots(MaxBlocks)

LoadTypeOK ==
  /\ pc \in {"walk", "canvas", "draw", "done", "crashed"}
  /\ Len(file) <= MaxBlocks
  /\ loop_count \in Nat /\ icap \in 0..GIF_MAX_FRAMES /\ Len(images) <= icap
  /\ Len(shots) <= Len(images)
  /\ heap \subseteq Allocated
  /\ {loaded, starved} \subseteq BOOLEAN

\* Frame k of the animation is what the first k images of the file show, laid
\* over each other under the control extension each of them has of its own.
FramesAreLayers ==
  pc \in {"draw", "done"} =>
    LET layers == FileLayers
    IN  \A k \in 1..Len(shots) :
          /\ shots[k].pixels = [p \in Pixels |-> Shown(layers, k, p)]
          /\ shots[k].delay = GceAt(ImageAt(k)).delay

\* Whatever fails, only the blocks of a returned animation stay allocated.
NothingLeaks ==
  pc = "done" =>
    heap = IF loaded THEN {Block("frames")} \cup Shots(Len(shots)) ELSE {}

\* With memory enough, a file is loaded to its last image if and only if it is
\* well-formed to its trailer and its images fit in the last capacity that
\* doubling reaches below GIF_MAX_FRAMES.
VerdictIsExact ==
  (pc = "done" /\ ~starved) =>
    /\ loaded <=> ~Malformed /\ Len(images) = Cardinality(Positions({"image"}))
    /\ loaded => Len(shots) = Len(images) /\ loop_count = FileLoops
    /\ (~loaded /\ ~Malformed) => Full /\ Capacity > GIF_MAX_FRAMES

\* A load returns what it may and leaves nothing else behind.
LoadIsSound == LoadTypeOK /\ NothingLeaks /\ VerdictIsExact

------------------------------------------------------------------------------
(* The inductive invariant behind them.                                      *)

Gces == [has_gce : BOOLEAN, disposal : Nat, transparent : Nat \cup {-1}, delay : Nat]

Colours ==
  UNION { Range(TableOf(b)) : b \in { c \in FileBlocks : c.kind = "image" } }

Sights == {<<Empty>>} \cup { <<c>> : c \in Colours }

\* The blocks, the images and the snapshots of a load.
PartsOk ==
  /\ file \in Seq(FileBlocks)
  /\ images \in Seq([block : FileBlocks, gce : Gces])
  /\ pending_gce \in Gces
  /\ shots \in Seq([pixels : [Pixels -> Sights], delay : Nat])
  /\ canvas \in [Pixels -> Sights]
  /\ Len(images) <= Len(file)

Reading == pc \in {"walk", "canvas", "draw"}

Meaning(g) == <<g.disposal, g.transparent, g.delay>>

\* While a load goes on, nothing it has read is wrong, and image k is the k-th of
\* the file under the control extension that belongs to it.
ImagesAreRead ==
  Reading =>
    /\ Positions({"broken"}) = {}
    /\ \A n \in Positions({"image"}) : ImageOk(file[n])
    /\ Len(images) = Cardinality(Positions({"image"}))
    /\ \A k \in 1..Len(images) :
         /\ ImageAt(k) \in Positions({"image"})
         /\ images[k].block = file[ImageAt(k)]
         /\ Meaning(images[k].gce) = Meaning(GceAt(ImageAt(k)))

\* The pending control extension is that of an image that came next.
PendingIsNext ==
  pc = "walk" => Meaning(GceOfImage) = Meaning(GceAt(Len(file) + 1))

\* The loop count is that of the last block that gave one.
LoopsAreLast ==
  ~starved =>
    \/ Told = {} /\ loop_count = 1
    \/ \E m \in Told : loop_count = file[m].loops /\ \A n \in Told : n <= m

\* Exactly what the present phase needs is allocated.
HeapInStep ==
  LET read == {Block("file")} \cup Indices(Len(images))
                \cup (IF images = <<>> THEN {} ELSE {Block("images")})
  IN  /\ pc \in {"walk", "canvas"} => heap = read /\ shots = <<>>
      /\ pc = "canvas" => images # <<>>
      /\ pc = "crashed" => heap \subseteq Allocated /\ shots = <<>> /\ starved
      /\ pc = "draw" =>
           /\ heap = {Block("file"), Block("images"), Block("frames"),
                      Block("canvas"), Block("prevbuf")}
                       \cup Indices(Len(images)) \cup Shots(Len(shots))
           /\ images # <<>>
      /\ loaded => pc = "done" /\ shots # <<>>

\* Layer j shows at p in what the layers after it are drawn on.
Marks(j, p) ==
  LET l == FileLayers[j]
  IN  /\ p \in l.area
      /\ \/ l.dispose = "background"
         \/ l.dispose # "previous" /\ l.paint[p].kind = "solid"

\* A pixel c is what the last of the layers up to n to mark p has left there.
LeftBy(n, c, p) ==
  \/ (\A j \in 1..n : ~Marks(j, p)) /\ c = <<Empty>>
  \/ \E g \in 1..n :
       /\ Marks(g, p)
       /\ \A j \in (g + 1)..n : ~Marks(j, p)
       /\ c = IF FileLayers[g].dispose = "background" THEN <<Empty>>
                                                     ELSE <<FileLayers[g].paint[p].colour>>

CanvasIsMarked ==
  /\ pc \in {"walk", "canvas"} => canvas = [p \in Pixels |-> <<Empty>>]
  /\ pc = "draw" => \A p \in Pixels : LeftBy(Len(shots), canvas[p], p)

LoadInv ==
  /\ LoadTypeOK /\ NothingLeaks /\ VerdictIsExact
  /\ PartsOk
  /\ ImagesAreRead
  /\ PendingIsNext
  /\ LoopsAreLast
  /\ HeapInStep
  /\ CanvasIsMarked
  /\ FramesAreLayers
==============================================================================
