------------------------------- MODULE PxlTool -------------------------------
(***************************************************************************)
(* pxltool: a command is a line of stages, each of which may fail, from    *)
(* one file to another.  `c' and `d' go through the PNG load and save of   *)
(* PngIo; the codecs and the animation readers and writers, with modules   *)
(* of their own, are calls here that return something or nothing.  A       *)
(* second command may take the file that the first one wrote.              *)
(***************************************************************************)
EXTENDS PngIo

CONSTANT PxlImages  \* what .pxl files that come from elsewhere decode to

VARIABLES
  cmd,       \* "c", "d", "ca" (or "cg") or "da"
  tool_at,   \* the stage
  exit,      \* what main returned: 0, 1, or -1 while it runs
  pxl_disk,  \* the .pxl or .apxl file: [state, img]
  ours       \* it was written by `c' of png_file

toolVars == <<pngVars, cmd, tool_at, exit, pxl_disk, ours>>
stageVars == <<cmd, tool_at, exit, pxl_disk, ours>>

NoFileYet == [state |-> "none", img |-> NoImage]

Anim == cmd \in {"ca", "da"}

ToolInit ==
  /\ \/ cmd \in {"c", "ca"} /\ pxl_disk = NoFileYet
     \/ cmd = "d" /\ \E p \in PxlImages : pxl_disk = [state |-> "whole", img |-> p]
     \/ cmd = "da" /\ pxl_disk = [state |-> "whole", img |-> NoImage]
  /\ png_file \in PngFiles
  /\ png_at = (IF cmd = "c" THEN "load" ELSE "idle")
  /\ png_heap = {} /\ pimg = NoImage
  /\ png_short = FALSE /\ unflushed = FALSE
  /\ png_disk = [state |-> "none", png |-> NoPng] /\ png_ok = FALSE
  /\ tool_at = "input" /\ exit = -1 /\ ours = FALSE

ImageBlocks == {"buffer", "palette", "palette_alpha", "metadata"}

\* The process returns `code', having freed `blocks'.
Return(code, blocks) ==
  /\ exit' = code /\ tool_at' = "exit"
  /\ png_heap' = png_heap \ blocks

------------------------------------------------------------------------------
(* c, ca, cg                                                                 *)

LoadStage ==
  /\ cmd = "c" /\ tool_at = "input" /\ png_at \notin {"loaded", "not_loaded"}
  /\ LoadPng
  /\ UNCHANGED stageVars

Loaded ==
  /\ tool_at = "input"
  /\ \/ png_at = "not_loaded" /\ Return(1, {})
     \/ png_at = "loaded" /\ tool_at' = "encode" /\ UNCHANGED <<png_heap, exit>>
  /\ png_at' = "idle"
  /\ UNCHANGED <<png_file, pimg, png_short, png_disk, png_ok, unflushed, cmd, pxl_disk, ours>>

\* apng_load or gif_load, and apxl_anim_try_index if asked for.
LoadAnim ==
  /\ cmd = "ca" /\ tool_at = "input"
  /\ \/ Return(1, {})
     \/ png_heap' = {"anim"} /\ tool_at' = "encode" /\ UNCHANGED exit
  /\ UNCHANGED <<png_at, png_file, pimg, png_short, png_disk, png_ok, unflushed, cmd, pxl_disk, ours>>

\* pxl_encode_ex or apxl_encode
EncodeStage ==
  /\ tool_at = "encode"
  /\ \/ Return(1, ImageBlocks \cup {"anim"}) /\ png_short' = TRUE
     \/ /\ png_heap' = png_heap \cup {"enc"} /\ tool_at' = "write"
        /\ UNCHANGED <<exit, png_short>>
  /\ UNCHANGED <<png_at, png_file, pimg, png_disk, png_ok, unflushed, cmd, pxl_disk, ours>>

WriteFails == Return(1, ImageBlocks \cup {"anim", "enc"})

\* write_file: fclose is not looked at here either.
WriteFile ==
  /\ tool_at = "write"
  /\ \/ /\ WriteFails /\ png_short' = TRUE
        /\ UNCHANGED <<pxl_disk, unflushed>>
     \/ /\ WriteFails /\ png_short' = TRUE
        /\ pxl_disk' = [state |-> "part", img |-> pimg] /\ UNCHANGED unflushed
     \/ /\ Return(0, ImageBlocks \cup {"anim", "enc"})
        /\ pxl_disk' = [state |-> "whole", img |-> pimg] /\ UNCHANGED <<unflushed, png_short>>
     \/ /\ Return(0, ImageBlocks \cup {"anim", "enc"})
        /\ pxl_disk' = [state |-> "part", img |-> pimg] /\ unflushed' = TRUE
        /\ UNCHANGED png_short
  /\ ours' = (cmd = "c")
  /\ UNCHANGED <<png_at, png_file, pimg, png_disk, png_ok, cmd>>

------------------------------------------------------------------------------
(* d, da                                                                     *)

\* After `c' or `ca', its file is decompressed by another process.
Decompress ==
  /\ cmd \in {"c", "ca"} /\ tool_at = "exit" /\ pxl_disk.state # "none"
  /\ cmd' = IF cmd = "c" THEN "d" ELSE "da"
  /\ tool_at' = "input" /\ exit' = -1
  /\ png_heap' = {} /\ pimg' = NoImage
  /\ UNCHANGED <<png_at, png_file, png_short, png_disk, png_ok, unflushed, pxl_disk, ours>>

\* read_file
ReadStage ==
  /\ cmd \in {"d", "da"} /\ tool_at = "input"
  /\ \/ Return(1, {}) /\ png_short' = TRUE
     \/ /\ png_heap' = {"bytes"} /\ tool_at' = "decode"
        /\ UNCHANGED <<exit, png_short>>
  /\ UNCHANGED <<png_at, png_file, pimg, png_disk, png_ok, unflushed, cmd, pxl_disk, ours>>

\* The decoder gives every image its depth, and does without metadata it has no
\* memory for.
Decoded(p, oom) ==
  [p EXCEPT !.bit_depth = DepthOf(p), !.bytes_per_channel = IF DepthOf(p) = 16 THEN 2 ELSE 1,
            !.metadata = p.metadata /\ ~oom]

\* pxl_decode or apxl_decode, which take whole files only; the bytes are freed.
DecodeStage ==
  /\ tool_at = "decode"
  /\ \/ /\ Return(1, {"bytes"})
        /\ png_short' = (png_short \/ pxl_disk.state = "whole")
        /\ UNCHANGED <<pimg, png_at>>
     \/ /\ pxl_disk.state = "whole"
        /\ \E oom \in MemoryFails :
             /\ pimg' = IF Anim THEN NoImage ELSE Decoded(pxl_disk.img, oom)
             /\ png_short' = (png_short \/ oom)
        /\ png_heap' = IF Anim THEN {"anim"} ELSE BlocksOf(pimg')
        /\ tool_at' = "save" /\ png_at' = IF Anim THEN "idle" ELSE "save"
        /\ UNCHANGED exit
  /\ UNCHANGED <<png_file, png_disk, png_ok, unflushed, cmd, pxl_disk, ours>>

SaveStage ==
  /\ cmd = "d" /\ tool_at = "save" /\ png_at # "saved"
  /\ SavePng
  /\ UNCHANGED stageVars

\* if (!pxl_save_png(...)) return 1
Verdict == IF png_ok THEN 0 ELSE 1

SavedStage ==
  /\ cmd = "d" /\ tool_at = "save" /\ png_at = "saved"
  /\ Return(Verdict, ImageBlocks)
  /\ UNCHANGED <<png_at, png_file, pimg, png_short, png_disk, png_ok, unflushed, cmd, pxl_disk, ours>>

SaveAnim ==
  /\ cmd = "da" /\ tool_at = "save"
  /\ \E code \in {0, 1} : Return(code, {"anim"})
  /\ UNCHANGED <<png_at, png_file, pimg, png_short, png_disk, png_ok, unflushed, cmd, pxl_disk, ours>>

ToolNext ==
  \/ LoadStage \/ Loaded \/ LoadAnim \/ EncodeStage \/ WriteFile
  \/ Decompress \/ ReadStage \/ DecodeStage \/ SaveStage \/ SavedStage \/ SaveAnim

ToolSpec == ToolInit /\ [][ToolNext]_toolVars

------------------------------------------------------------------------------
(* Properties                                                                *)

Output == IF cmd = "d" THEN png_disk.state ELSE pxl_disk.state

\* Whatever fails on the way, the command tells: with 0 the whole output is on disk
\* (unless the system could not write what fclose handed over), and nothing is
\* held any more; with 1 at most what a failed load or save of a PNG loses.
ExitIsHonest ==
  /\ (exit = 0 /\ cmd # "da") => Output = "whole" \/ unflushed
  /\ exit = 0 => png_heap = {}
  /\ exit = 1 => png_heap \subseteq {"palette", "palette_alpha", "rows"}

\* The PNG that a lossless round trip gives back: its own type, depth and palette, and
\* real alpha in place of a transparent colour.
SameStill(f) ==
  [ w |-> f.w, h |-> f.h,
    colour |-> IF f.trns /\ f.colour = "gray" THEN "gray_alpha"
               ELSE IF f.trns /\ f.colour = "rgb" THEN "rgb_alpha" ELSE f.colour,
    depth |-> IF f.trns /\ f.colour = "gray" /\ f.depth < 8 THEN 8 ELSE f.depth,
    entries |-> f.entries, alphas |-> f.alphas, records |-> f.records ]

\* A PNG that is compressed and decompressed comes back: if both commands succeed it is
\* the same still, and if it was one they do, with memory and disk enough.
PngComesBack ==
  /\ png_file.breaks = "never" =>
       (exit = 1 /\ (cmd = "c" \/ ours) => png_short \/ unflushed)
  /\ (cmd = "d" /\ ours /\ exit = 0 /\ ~png_short /\ ~unflushed) =>
       png_disk.png = SameStill(png_file)

\* What the tool shows of loads.
ToolIsSound == LoadOwns /\ ExitIsHonest

\* Why: what a command holds at each of its stages.
ToolInv ==
  /\ png_file \in PngFiles /\ png_ok \in BOOLEAN
  /\ cmd \in {"c", "d", "ca", "da"}
  /\ tool_at \in {"input", "encode", "write", "decode", "save", "exit"}
  /\ tool_at \in {"encode", "write"} => cmd \in {"c", "ca"}
  /\ tool_at \in {"decode", "save"} => cmd \in {"d", "da"}
  /\ (tool_at = "input" /\ cmd = "c") => LoadInOrder
  /\ (tool_at = "save" /\ cmd = "d") => SaveInOrder
  /\ (tool_at = "exit" /\ cmd = "d") => png_at \in {"idle", "saved"}
  /\ \/ tool_at = "input" /\ cmd = "c"
     \/ tool_at \in {"save", "exit"} /\ cmd = "d"
     \/ png_at = "idle"
  /\ (tool_at = "input" /\ cmd # "c") => png_heap = {}
  /\ tool_at = "encode" => png_heap \subseteq ImageBlocks \cup {"anim"}
  /\ tool_at = "write" => png_heap \subseteq ImageBlocks \cup {"anim", "enc"}
  /\ tool_at = "decode" => png_heap = {"bytes"}
  /\ (tool_at = "save" /\ cmd = "da") => png_heap = {"anim"}
  /\ exit \in {-1, 0, 1} /\ (exit # -1 <=> tool_at = "exit")
  /\ ExitIsHonest

\* A save of that image loses nothing of it.
SaveGoesWell ==
  /\ pimg = Decoded(LoadedImage, FALSE)
  /\ png_at = "spit" => ("merged" \in png_heap <=> pimg.metadata)
  /\ png_at = "saved" => unflushed \/ (png_ok /\ png_disk.png = SameStill(png_file))

\* Why: what `c' has, its file and what `d' makes of it are the picture, as long as
\* nothing ran out.
RoundTripInv ==
  /\ png_short \in BOOLEAN /\ ours \in BOOLEAN /\ unflushed \in BOOLEAN
  /\ (tool_at = "input" /\ cmd = "c") => LoadGoesWell
  /\ (tool_at \in {"encode", "write"} /\ cmd = "c") =>
       png_file.breaks = "never" /\ (~png_short => pimg = LoadedImage)
  /\ ours =>
       /\ cmd \in {"c", "d"} /\ png_file.breaks = "never"
       /\ ~png_short => pxl_disk.img = LoadedImage /\ (pxl_disk.state = "whole" \/ unflushed)
  /\ (tool_at = "save" /\ cmd = "d" /\ ours /\ ~png_short) => SaveGoesWell
  /\ PngComesBack
==============================================================================
