-------------------------------- MODULE PngIo --------------------------------
(***************************************************************************)
(* pxl_load_png and pxl_save_png of pxl_png.c with their files and buffers *)
(* (pxl_pngio.c).  libpng is external: it reads or refuses a file, and it  *)
(* reports an error by longjmp, to the `fail' label of the load or to the  *)
(* setjmp of the save.                                                     *)
(*                                                                         *)
(* A PNG file is [w, h, colour, depth, trns, entries, alphas, records,     *)
(* breaks]: `breaks' says where libpng gives it up, `records' whether it   *)
(* has ancillary chunks.  An image has the fields of pxl_image, buffers    *)
(* given by their sizes, palettes by their entries.                        *)
(***************************************************************************)
EXTENDS Integers

CONSTANTS
  PngFiles,     \* what may be loaded
  MaxEntries,   \* PXL_MAX_PALETTE
  MemoryFails   \* the outcomes of an allocation, of libpng's too

\* libpng reads no picture without pixels.
PngAssumption ==
  /\ MaxEntries \in Nat /\ MemoryFails \subseteq BOOLEAN
  /\ PngFiles \subseteq
       [ w : Nat \ {0}, h : Nat \ {0},
         colour : {"gray", "gray_alpha", "rgb", "rgb_alpha", "palette"},
         depth : {1, 2, 4, 8, 16}, trns : BOOLEAN, entries : Nat, alphas : Nat,
         records : BOOLEAN, breaks : {"signature", "header", "image", "never"} ]

ASSUME PngAssumption

\* A picture that libpng reads to its end has a depth that its type allows, and a palette
\* if it is indexed, which its depth can address and which has all of the alphas.
IsPicture(f) ==
  /\ f.colour \in {"gray_alpha", "rgb", "rgb_alpha"} => f.depth \in {8, 16}
  /\ f.trns => f.colour \in {"gray", "rgb"}
  /\ IF f.colour = "palette"
       THEN /\ f.depth \in {1, 2, 4, 8} /\ f.entries \in 1..MaxEntries
            /\ f.entries <= 2^f.depth /\ f.alphas <= f.entries
       ELSE f.entries = 0 /\ f.alphas = 0

PngFilesAssumption == \A f \in PngFiles : f.breaks = "never" => IsPicture(f)

ASSUME PngFilesAssumption

VARIABLES
  png_at,     \* where load or save is
  png_file,   \* the file that is loaded
  png_heap,   \* the blocks allocated
  pimg,       \* the image being loaded or saved
  png_short,  \* an allocation has failed, or the file system did
  png_disk,   \* what the save left on disk
  png_ok,     \* what it returned
  unflushed   \* bytes that fclose was to write are lost

pngVars == <<png_at, png_file, png_heap, pimg, png_short, png_disk, png_ok, unflushed>>

NoImage ==
  [ width |-> 0, height |-> 0, channels |-> 0, bytes_per_channel |-> 0, bit_depth |-> 0,
    size |-> 0, palette |-> 0, palette_alpha |-> 0, metadata |-> FALSE ]

NoPng == [w |-> 0]

\* pxl_bit_depth, pxl_row_bytes
DepthOf(p) == IF p.bit_depth # 0 THEN p.bit_depth ELSE 8 * p.bytes_per_channel

RowSize(w, channels, depth) ==
  IF \/ w = 0 \/ channels \notin 1..4 \/ depth \notin {1, 2, 4, 8, 16}
     \/ depth < 8 /\ channels # 1
    THEN 0 ELSE (w * channels * depth + 7) \div 8

------------------------------------------------------------------------------
\* A block is allocated, or the call gives up by `Fails'.
TakeBlock(block, next, Fails) ==
  \E oom \in MemoryFails :
    IF oom THEN Fails /\ png_short' = TRUE
           ELSE png_heap' = png_heap \cup {block} /\ png_at' = next /\ UNCHANGED png_short

(* pxl_load_png                                                              *)

LoadFrameVars == <<png_file, png_disk, png_ok, unflushed>>

LoadReturns(blocks) == png_heap' = png_heap \ blocks /\ png_at' = "not_loaded"

FailKeepsMetadata == {"rows", "buffer", "png", "info", "file"}

\* What the `fail' label frees.
FailFrees == {"rows", "buffer", "metadata", "png", "info", "file"}

LoadFails == LoadReturns(FailFrees) /\ pimg' = NoImage

\* pxl_slurp
Slurp ==
  /\ png_at = "load"
  /\ TakeBlock("file", "signature", LoadReturns({}))
  /\ UNCHANGED <<LoadFrameVars, pimg>>

CheckSignature ==
  /\ png_at = "signature"
  /\ IF png_file.breaks = "signature" THEN LoadReturns({"file"})
                                      ELSE png_at' = "read_png" /\ UNCHANGED png_heap
  /\ UNCHANGED <<LoadFrameVars, pimg, png_short>>

CreateRead ==
  /\ \/ png_at = "read_png" /\ TakeBlock("png", "read_info", LoadReturns(FailFrees))
     \/ png_at = "read_info" /\ TakeBlock("info", "header", LoadReturns(FailFrees))
  /\ UNCHANGED <<LoadFrameVars, pimg>>

Indexed == png_file.colour = "palette"

\* pxl_meta_extract does without the records when memory runs out.
ReadHeader ==
  /\ png_at = "header"
  /\ \/ png_file.breaks = "header" /\ LoadFails /\ UNCHANGED png_short
     \/ /\ png_file.breaks # "header"
        /\ \E oom \in (IF png_file.records THEN MemoryFails ELSE {FALSE}) :
             LET got == png_file.records /\ ~oom
             IN  /\ pimg' = [NoImage EXCEPT !.metadata = got]
                 /\ png_heap' = png_heap \cup (IF got THEN {"metadata"} ELSE {})
                 /\ png_short' = (png_short \/ oom)
        /\ png_at' = IF Indexed THEN "palette" ELSE "layout"
  /\ UNCHANGED LoadFrameVars

\* load_palette: no more alphas than entries.
LoadPalette ==
  /\ png_at = "palette"
  /\ IF png_file.entries \in 1..MaxEntries
       THEN \/ TakeBlock("palette", IF png_file.alphas > 0 THEN "alpha" ELSE "layout", LoadFails)
               /\ pimg' = IF png_at' = "not_loaded" THEN NoImage
                          ELSE [pimg EXCEPT !.palette = png_file.entries]
       ELSE LoadFails /\ UNCHANGED png_short
  /\ UNCHANGED LoadFrameVars

Least(m, n) == IF m <= n THEN m ELSE n

LoadAlpha ==
  /\ png_at = "alpha"
  /\ TakeBlock("palette_alpha", "layout", LoadFails)
  /\ pimg' = IF png_at' = "not_loaded" THEN NoImage
             ELSE [pimg EXCEPT !.palette_alpha = Least(png_file.alphas, png_file.entries)]
  /\ UNCHANGED LoadFrameVars

\* What libpng delivers: tRNS has become alpha, for which gray has 8 bits at least.
FileChannels ==
  CASE png_file.colour \in {"palette", "gray"} -> 1 [] png_file.colour = "gray_alpha" -> 2
    [] png_file.colour = "rgb" -> 3 [] OTHER -> 4

TrnsToAlpha == ~Indexed /\ png_file.trns

ReadChannels == FileChannels + (IF TrnsToAlpha THEN 1 ELSE 0)
ReadDepth == IF TrnsToAlpha /\ png_file.depth < 8 THEN 8 ELSE png_file.depth

LayoutOk ==
  IF Indexed \/ ReadDepth < 8
    THEN ReadChannels = 1 /\ ReadDepth \in {1, 2, 4, 8}
    ELSE ReadDepth \in {8, 16} /\ ReadChannels \in 1..4

DepthAlwaysDefault == 0

\* bit_depth stays 0 where the bytes tell it.
DepthKept == IF Indexed \/ ReadDepth < 8 THEN ReadDepth ELSE 0

ReadLayout ==
  /\ png_at = "layout"
  /\ IF LayoutOk
       THEN /\ pimg' = [pimg EXCEPT !.bit_depth = DepthKept]
            /\ png_at' = "buffer" /\ UNCHANGED png_heap
       ELSE LoadFails
  /\ UNCHANGED <<LoadFrameVars, png_short>>

AllocateImage ==
  /\ \/ png_at = "buffer" /\ TakeBlock("buffer", "row_table", LoadFails)
     \/ png_at = "row_table" /\ TakeBlock("rows", "image", LoadFails)
  /\ pimg' = IF png_at' = "not_loaded" THEN NoImage ELSE pimg
  /\ UNCHANGED LoadFrameVars

ReadImage ==
  /\ png_at = "image"
  /\ IF png_file.breaks = "image"
       THEN LoadFails
       ELSE /\ pimg' = [pimg EXCEPT
                 !.size = RowSize(png_file.w, ReadChannels, ReadDepth) * png_file.h,
                 !.width = png_file.w, !.height = png_file.h, !.channels = ReadChannels,
                 !.bytes_per_channel = IF ReadDepth = 16 THEN 2 ELSE 1]
            /\ png_heap' = png_heap \ {"rows", "png", "info", "file"}
            /\ png_at' = "loaded"
  /\ UNCHANGED <<LoadFrameVars, png_short>>

LoadPng ==
  \/ Slurp \/ CheckSignature \/ CreateRead \/ ReadHeader \/ LoadPalette \/ LoadAlpha
  \/ ReadLayout \/ AllocateImage \/ ReadImage

------------------------------------------------------------------------------
(* pxl_save_png                                                              *)

SaveFrameVars == <<png_file, pimg>>

PaletteAddressable(p) == p.palette <= 2^DepthOf(p)

\* The checks before the first call of libpng.
Savable(p) ==
  /\ p.bytes_per_channel \in {1, 2}
  /\ IF p.palette > 0
       THEN /\ p.channels = 1 /\ p.bytes_per_channel = 1
            /\ DepthOf(p) \in {1, 2, 4, 8}
            /\ PaletteAddressable(p)
            /\ p.palette_alpha <= p.palette
     ELSE IF DepthOf(p) \in {1, 2, 4}
       THEN p.channels = 1 /\ p.bytes_per_channel = 1
     ELSE DepthOf(p) \in {8, 16} /\ p.channels \in 1..4

\* What libpng is told to write.
PngOf(p) ==
  [ w |-> p.width, h |-> p.height, depth |-> DepthOf(p),
    colour |-> IF p.palette > 0 THEN "palette"
               ELSE <<"gray", "gray_alpha", "rgb", "rgb_alpha">>[p.channels],
    entries |-> p.palette, alphas |-> p.palette_alpha, records |-> p.metadata ]

SaveReturns(ok, blocks) ==
  /\ png_ok' = ok
  /\ png_heap' = png_heap \ blocks
  /\ png_at' = "saved"

SaveFails(blocks) == SaveReturns(FALSE, blocks) /\ UNCHANGED <<png_disk, unflushed>>

CheckImage ==
  /\ png_at = "save"
  /\ IF pimg # NoImage /\ Savable(pimg)
       THEN png_at' = "write_png" /\ UNCHANGED <<png_heap, png_ok, png_disk, unflushed>>
       ELSE SaveFails({})
  /\ UNCHANGED <<SaveFrameVars, png_short>>

CreateWrite ==
  /\ \/ png_at = "write_png" /\ TakeBlock("png", "write_info", SaveReturns(FALSE, {}))
     \/ png_at = "write_info" /\ TakeBlock("info", "begin_file", SaveReturns(FALSE, {"png"}))
  /\ png_ok' = FALSE
  /\ UNCHANGED <<SaveFrameVars, png_disk, unflushed>>

Writing == {"png", "info", "writer"}

\* The header and the palette go into the memory writer; libpng takes no empty picture.
BeginFile ==
  /\ png_at = "begin_file"
  /\ \/ /\ pimg.width > 0 /\ pimg.height > 0
        /\ TakeBlock("writer", "check_size", SaveReturns(FALSE, Writing))
     \/ /\ pimg.width = 0 \/ pimg.height = 0
        /\ SaveReturns(FALSE, Writing) /\ UNCHANGED png_short
  /\ png_ok' = FALSE
  /\ UNCHANGED <<SaveFrameVars, png_disk, unflushed>>

RowTable ==
  /\ png_at = "check_size"
  /\ LET stride == RowSize(pimg.width, pimg.channels, DepthOf(pimg))
     IN  IF stride = 0 \/ pimg.size < stride * pimg.height
           THEN SaveReturns(FALSE, Writing) /\ UNCHANGED png_short
           ELSE TakeBlock("rows", "write_image", SaveReturns(FALSE, Writing))
  /\ png_ok' = FALSE
  /\ UNCHANGED <<SaveFrameVars, png_disk, unflushed>>

\* The writer cannot grow: `rows' was set behind the setjmp and is not volatile, so
\* what the handler reads is the table, or the NULL from before it.
WriteImageFails ==
  /\ png_at = "write_image" /\ TRUE \in MemoryFails
  /\ png_short' = TRUE
  /\ SaveFails(Writing) \/ SaveFails(Writing \cup {"rows"})
  /\ UNCHANGED SaveFrameVars

WriteImage ==
  /\ png_at = "write_image"
  /\ png_heap' = png_heap \ {"rows", "png", "info"}
  /\ png_at' = "inject"
  /\ UNCHANGED <<SaveFrameVars, png_short, png_disk, png_ok, unflushed>>

\* pxl_meta_inject, or the file goes out without the records.
Inject ==
  /\ png_at = "inject"
  /\ \E oom \in (IF pimg.metadata THEN MemoryFails ELSE {FALSE}) :
       /\ png_heap' = png_heap \cup (IF pimg.metadata /\ ~oom THEN {"merged"} ELSE {})
       /\ png_short' = (png_short \/ oom)
  /\ png_at' = "spit"
  /\ UNCHANGED <<SaveFrameVars, png_disk, png_ok, unflushed>>

\* What pxl_spit leaves of the file.
Spit(state, ok) ==
  /\ png_disk' = [ state |-> state,
                   png |-> [PngOf(pimg) EXCEPT !.records = "merged" \in png_heap] ]
  /\ SaveReturns(ok, {"writer", "merged"})

\* Opening or writing may fail; whether fclose does is not looked at.
SpitFile ==
  /\ png_at = "spit"
  /\ \/ Spit("whole", TRUE) /\ UNCHANGED <<png_short, unflushed>>
     \/ SaveFails({"writer", "merged"}) /\ png_short' = TRUE
     \/ Spit("part", FALSE) /\ png_short' = TRUE /\ UNCHANGED unflushed
     \/ Spit("part", TRUE) /\ unflushed' = TRUE /\ UNCHANGED png_short
  /\ UNCHANGED SaveFrameVars

SavePng ==
  \/ CheckImage \/ CreateWrite \/ BeginFile \/ RowTable \/ WriteImageFails \/ WriteImage
  \/ Inject \/ SpitFile

------------------------------------------------------------------------------
(* Properties                                                                *)

\* The blocks of an image, as its fields tell.
BlocksOf(p) ==
  (IF p.size > 0 THEN {"buffer"} ELSE {})
    \cup (IF p.palette > 0 THEN {"palette"} ELSE {})
    \cup (IF p.palette_alpha > 0 THEN {"palette_alpha"} ELSE {})
    \cup (IF p.metadata THEN {"metadata"} ELSE {})

\* A load that succeeds holds what the image owns and nothing more.  One that fails
\* leaves nothing, except the palette of an indexed file: load_palette says that
\* the image keeps what it got, and `fail' forgets it.
LoadOwns ==
  /\ png_at = "loaded" => png_heap = BlocksOf(pimg)
  /\ png_at = "not_loaded" =>
       /\ png_heap \subseteq {"palette", "palette_alpha"}
       /\ ~Indexed => png_heap = {}

------------------------------------------------------------------------------
(* Why they hold                                                             *)

BeforeHeader == {"load", "signature", "read_png", "read_info", "header"}
BeforeImage == BeforeHeader \cup {"palette", "alpha", "layout", "buffer", "row_table", "image"}

\* What a load holds besides the fields of its image.
Reading ==
  (IF png_at = "load" THEN {} ELSE {"file"})
    \cup (IF png_at \in {"load", "signature", "read_png"} THEN {} ELSE {"png"})
    \cup (IF png_at \in BeforeHeader \ {"header"} THEN {} ELSE {"info"})
    \cup (IF png_at \in {"row_table", "image"} THEN {"buffer"} ELSE {})
    \cup (IF png_at = "image" THEN {"rows"} ELSE {})

\* At every point of a load its blocks are those it is reading with and those of its
\* image, of which only indexed files have a palette.
LoadInOrder ==
  /\ png_at \in BeforeImage \cup {"loaded", "not_loaded"}
  /\ png_at \in BeforeImage =>
       /\ png_heap = Reading \cup BlocksOf(pimg)
       /\ pimg \in [ width : Nat, height : Nat, channels : Nat, bytes_per_channel : Nat,
                     bit_depth : Nat, size : {0}, palette : Nat, palette_alpha : Nat,
                     metadata : BOOLEAN ]
       /\ ~Indexed => pimg.palette = 0 /\ pimg.palette_alpha = 0
  /\ png_at \in BeforeHeader => pimg = NoImage
  /\ png_at = "palette" => Indexed /\ pimg.palette = 0 /\ pimg.palette_alpha = 0
  /\ png_at = "alpha" => /\ Indexed /\ png_file.alphas > 0
                         /\ pimg.palette = png_file.entries /\ pimg.palette > 0
                         /\ pimg.palette_alpha = 0
  /\ png_at \in {"buffer", "row_table", "image"} => LayoutOk
  /\ LoadOwns

\* What a save holds besides its image: nothing, once it has succeeded.
SaveHolds ==
  CASE png_at \in {"save", "write_png"} -> {}
    [] png_at = "write_info" -> {"png"}
    [] png_at = "begin_file" -> {"png", "info"}
    [] png_at = "check_size" -> {"png", "info", "writer"}
    [] png_at = "write_image" -> {"png", "info", "writer", "rows"}
    [] png_at = "inject" -> {"writer"}
    [] png_at = "spit" -> {"writer", "merged"}
    [] png_at = "saved" -> IF png_ok THEN {} ELSE {"rows"}

SaveInOrder ==
  /\ png_at \in {"save", "write_png", "write_info", "begin_file", "check_size",
                 "write_image", "inject", "spit", "saved"}
  /\ png_heap \subseteq {"buffer", "palette", "palette_alpha", "metadata"} \cup SaveHolds
  /\ png_at = "saved" /\ png_ok => png_disk.state = "whole" \/ unflushed

\* The image that the file holds.
LoadedImage ==
  [ width |-> png_file.w, height |-> png_file.h, channels |-> ReadChannels,
    bytes_per_channel |-> IF ReadDepth = 16 THEN 2 ELSE 1, bit_depth |-> DepthKept,
    size |-> RowSize(png_file.w, ReadChannels, ReadDepth) * png_file.h,
    palette |-> png_file.entries, palette_alpha |-> png_file.alphas,
    metadata |-> png_file.records ]

\* What has been set of it where the load stands.
ImageSoFar(entries, alphas, depth) ==
  [ width |-> 0, height |-> 0, channels |-> 0, bytes_per_channel |-> 0, bit_depth |-> depth,
    size |-> 0, palette |-> entries, palette_alpha |-> alphas, metadata |-> png_file.records ]

LoadedSoFar ==
  CASE png_at = "palette" -> ImageSoFar(0, 0, 0)
    [] png_at = "alpha"   -> ImageSoFar(png_file.entries, 0, 0)
    [] png_at = "layout"  -> ImageSoFar(png_file.entries, png_file.alphas, 0)
    [] png_at \in {"buffer", "row_table", "image"} ->
         ImageSoFar(png_file.entries, png_file.alphas, DepthKept)
    [] png_at = "loaded"  -> LoadedImage
    [] OTHER              -> pimg

\* A load that goes on is behind the places where its file may break, and with memory
\* enough it ends well and misses nothing.
LoadGoesWell ==
  /\ png_at \notin {"load", "signature", "not_loaded"} => png_file.breaks # "signature"
  /\ png_at \notin BeforeHeader \cup {"not_loaded"} => png_file.breaks # "header"
  /\ png_at = "loaded" => png_file.breaks # "image"
  /\ (png_file.breaks = "never" /\ ~png_short) => png_at # "not_loaded" /\ pimg = LoadedSoFar
==============================================================================
