------------------------------- MODULE MCHosts ------------------------------
(***************************************************************************)
(* What stands around the codecs, one part per behaviour (`walk'): the     *)
(* metadata of a PNG, pxltool with the PNG load and save, and the plugins  *)
(* for FFmpeg, WebAssembly and Qt.                                         *)
(***************************************************************************)
EXTENDS PngMeta, PxlTool, PxlFfmpeg, PxlWasm, PxlHandler

VARIABLE walk

(* Metadata: small pictures with every kind of chunk before, between and behind the *)
(* structural ones.                                                                 *)

C(type, id) == [type |-> type, id |-> id]

GreyBase    == <<C("IHDR", 0), C("IDAT", 0), C("IDAT", 1), C("IEND", 0)>>
IndexedBase == <<C("IHDR", 0), C("PLTE", 0), C("tRNS", 0), C("IDAT", 0), C("IDAT", 1), C("IEND", 0)>>

Ancillary == {"gAMA", "sBIT", "tEXt", "bKGD", "fcTL"}

\* Up to three ancillary chunks, behind the header, the palette or the data.
Insertions ==
  UNION { [1..n -> Ancillary \X {"head", "palette", "data"}] : n \in 0..3 }

Placed(ins, where) ==
  LET all == [n \in 1..Len(ins) |-> [c |-> C(ins[n][1], n), at |-> ins[n][2]]]
      at == SelectSeq(all, LAMBDA r : r.at = where)
  IN  [n \in 1..Len(at) |-> at[n].c]

Grey(ins, has_trns) ==
  [ png |-> <<C("IHDR", 0)>> \o (IF has_trns THEN <<C("tRNS", 0)>> ELSE <<>>)
              \o Placed(ins, "head") \o Placed(ins, "palette")
              \o <<C("IDAT", 0)>> \o Placed(ins, "data") \o <<C("IEND", 0)>>,
    base |-> GreyBase,
    keep_sbit |-> ~has_trns ]

IndexedFile(ins) ==
  [ png |-> <<C("IHDR", 0)>> \o Placed(ins, "head") \o <<C("PLTE", 0)>>
              \o Placed(ins, "palette")
              \o <<C("IDAT", 0)>> \o Placed(ins, "data") \o <<C("IEND", 0)>>,
    base |-> IndexedBase,
    keep_sbit |-> TRUE ]

AllPictures ==
  { IndexedFile(ins) : ins \in Insertions }
    \cup { Grey(ins, trns) : ins \in Insertions, trns \in BOOLEAN }

\* Blocks from a .pxl file, which may break off.
FileBlocks ==
  { <<C("tEXt", 1), C("gAMA", 2), CutOff>>,
    <<C("gAMA", 1), CutOff, C("tEXt", 2)>> }

MayRunOut == BOOLEAN

\* Memory fails while a file with up to two ancillary chunks is loaded or saved.
SmallFails ==
  (starved' /\ ~starved) => Cardinality({ n \in 1..Len(png) : ~OfBase(png[n]) }) <= 2

------------------------------------------------------------------------------
(* pxltool: PNGs of every type with and without transparency, given up anywhere.    *)

Png(colour, depth, trns, entries, alphas) ==
  { [ w |-> 3, h |-> 2, colour |-> colour, depth |-> depth, trns |-> trns,
      entries |-> entries, alphas |-> alphas, records |-> records, breaks |-> where ] :
    records \in BOOLEAN, where \in {"signature", "header", "image", "never"} }

AllPngs ==
  UNION ( { Png("gray", depth, trns, 0, 0) : depth \in {1, 4, 8, 16}, trns \in BOOLEAN }
    \cup { Png(colour, 8, FALSE, 0, 0) : colour \in {"gray_alpha", "rgb_alpha"} }
    \cup { Png("rgb", depth, trns, 0, 0) : depth \in {8, 16}, trns \in BOOLEAN }
    \cup { Png("palette", depth, FALSE, 2, alphas) : depth \in {1, 2}, alphas \in {0, 1} }
    \cup { Png("palette", 8, FALSE, 4, alphas) : alphas \in {0, 2, 4} } )

Still(channels, depth, entries, alphas, size) ==
  [ width |-> 3, height |-> 2, channels |-> channels, bit_depth |-> depth,
    bytes_per_channel |-> IF depth = 16 THEN 2 ELSE 1, size |-> size,
    palette |-> entries, palette_alpha |-> alphas, metadata |-> FALSE ]

\* Palettes that the depth can and cannot address, buffers that are whole or not.
AllStills ==
  { Still(1, depth, n, a, 6) : depth \in {1, 2, 8}, n \in {1, 3, 4}, a \in {0, 1} }
    \cup { Still(channels, 8, 0, 0, 6 * channels) : channels \in 1..4 }
    \cup { Still(1, 16, 0, 0, 12), Still(1, 16, 0, 0, 6), Still(1, 4, 0, 0, 4) }

------------------------------------------------------------------------------
(* FFmpeg: durations that are not given, that 1 / 10 does not divide, that no delay *)
(* of terms up to 5 can tell; a frame of another canvas.                            *)

SmallFrames ==
  { [canvas |-> 1, dur |-> 0, meta |-> TRUE], [canvas |-> 1, dur |-> 2, meta |-> FALSE],
    [canvas |-> 1, dur |-> 7, meta |-> TRUE], [canvas |-> 2, dur |-> 3, meta |-> TRUE] }

Thirds == [num |-> 1, den |-> 3]

------------------------------------------------------------------------------
(* WebAssembly: four pages of eight bytes; files of each kind, one too large.       *)

WasmFile(id, w, channels, depth, palette, alpha) ==
  [ id |-> id, w |-> w, h |-> 1, channels |-> channels, depth |-> depth,
    palette |-> palette, alpha |-> alpha ]

SmallFiles ==
  { WasmFile(1, 1, 4, 8, FALSE, FALSE), WasmFile(2, 5, 1, 1, FALSE, FALSE),
    WasmFile(3, 1, 1, 16, FALSE, FALSE), WasmFile(4, 2, 1, 8, TRUE, TRUE),
    WasmFile(5, 30, 1, 8, FALSE, FALSE) }

SmallScratch == { <<1, 2>>, <<5, 8>> }

------------------------------------------------------------------------------
(* Qt: a still, something else, and animations of one frame and of three.           *)

QtFile(header, delays, loops) == [kind |-> header, delays |-> delays, loops |-> loops]

SmallQtFiles ==
  { QtFile("still", <<>>, 0), QtFile("other", <<>>, 0),
    QtFile("animated", << <<1, 3>> >>, 0),
    QtFile("animated", << <<1, 3>>, <<2, 0>>, <<0, 1>> >>, 2) }

------------------------------------------------------------------------------

idleMeta ==
  /\ pc = "loaded" /\ png = <<>> /\ base = <<>> /\ keep_sbit = TRUE /\ metadata = <<>>
  /\ pos = 1 /\ mpos = 1 /\ bb = <<>> /\ failed = FALSE
  /\ early_done = FALSE /\ inserted = FALSE /\ saved = <<>> /\ starved = FALSE

idleTool == png_file = (CHOOSE f \in AllPngs : TRUE) /\ cmd = "c" /\ ToolInit
idleHandler == dev = [file |-> QtFile("other", <<>>, 0), at_end |-> FALSE] /\ HandlerInit

MCInit ==
  \/ walk = "metadata" /\ idleTool /\ FfmpegInit /\ WasmInit /\ idleHandler /\ Init
  \/ walk = "tool" /\ idleMeta /\ FfmpegInit /\ WasmInit /\ idleHandler /\ ToolInit
  \/ walk = "ffmpeg" /\ idleMeta /\ idleTool /\ FfmpegInit /\ WasmInit /\ idleHandler
  \/ walk = "wasm" /\ idleMeta /\ idleTool /\ FfmpegInit /\ WasmInit /\ idleHandler
  \/ walk = "qt" /\ idleMeta /\ idleTool /\ FfmpegInit /\ WasmInit /\ HandlerInit

MCNext ==
  \/ /\ walk = "metadata" /\ Next /\ SmallFails
     /\ UNCHANGED <<walk, toolVars, ffmpegVars, wasmVars, handlerVars>>
  \/ /\ walk = "tool" /\ ToolNext
     /\ UNCHANGED <<walk, vars, ffmpegVars, wasmVars, handlerVars>>
  \/ /\ walk = "ffmpeg" /\ FfmpegNext
     /\ UNCHANGED <<walk, vars, toolVars, wasmVars, handlerVars>>
  \/ /\ walk = "wasm" /\ WasmNext
     /\ UNCHANGED <<walk, vars, toolVars, ffmpegVars, handlerVars>>
  \/ /\ walk = "qt" /\ HandlerNext
     /\ UNCHANGED <<walk, vars, toolVars, ffmpegVars, wasmVars>>

mcVars == <<walk, vars, toolVars, ffmpegVars, wasmVars, handlerVars>>

MCSpec == MCInit /\ [][MCNext]_mcVars

\* The WebAssembly build alone.
MCWasmInit == walk = "wasm" /\ idleMeta /\ idleTool /\ FfmpegInit /\ WasmInit /\ idleHandler
MCWasmSpec == MCWasmInit /\ [][MCNext]_mcVars
==============================================================================
