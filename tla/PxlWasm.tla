------------------------------- MODULE PxlWasm ------------------------------
(***************************************************************************)
(* The wasm32 build: the flat calls of pxl_wasm.c over the bump allocator  *)
(* of shim.c, with the host that makes the calls and may refuse to grow    *)
(* the memory.  Addresses are as wide as `unsigned long' is, and wrap.     *)
(*                                                                         *)
(* A file is [id, w, h, channels, depth, palette, alpha]: what it holds,   *)
(* `palette' and `alpha' saying whether it is indexed and with alpha.  An  *)
(* image is [file, data, size, channels, depth], data being 0 for NULL.    *)
(***************************************************************************)
EXTENDS Integers

CONSTANTS
  Word,        \* 2^32
  Align,       \* 16
  PageSize,    \* 65536
  HeapBase,    \* __heap_base, which is aligned
  FirstPages,  \* --initial-memory
  MaxPages,    \* what the host grants at most
  WasmFiles,   \* what is decoded
  FileBytes,   \* their lengths
  Scratch      \* the blocks zstd asks for, <<n, sz>> as for calloc

\* The heap begins aligned, and a full memory is no larger than its addresses.
WasmAssumption ==
  /\ {Word, Align, PageSize, HeapBase, FirstPages, MaxPages} \subseteq Nat \ {0}
  /\ HeapBase % Align = 0
  /\ FirstPages <= MaxPages /\ MaxPages * PageSize <= Word
  /\ FileBytes \subseteq Nat /\ Scratch \subseteq Nat \X Nat
  /\ WasmFiles \subseteq [ id : Nat, w : Nat, h : Nat, channels : Nat, depth : Nat,
                          palette : BOOLEAN, alpha : BOOLEAN ]

ASSUME WasmAssumption

VARIABLES
  g_brk, pages,   \* the allocator; 0 before the first call
  live,           \* the blocks handed out since the last reset: [at, asked]
  input,          \* the file the host has written, in a block of its own
  wasm_at,        \* where pxl_decode or pxl_image_expand is, or "idle"
  entry,          \* the entry point that was called last
  wasm_ret,       \* what it returned
  g_img, g_rgba,
  wrapped         \* an address or a size did not fit the word

heapVars == <<g_brk, pages, live, wrapped>>
wasmVars == <<heapVars, input, wasm_at, entry, wasm_ret, g_img, g_rgba>>

NoFile == [id |-> 0]
NoWasmImage == [file |-> NoFile, data |-> 0, size |-> 0, channels |-> 0, depth |-> 0]

WasmInit ==
  /\ g_brk = 0 /\ pages = FirstPages /\ live = {} /\ wrapped = FALSE
  /\ input = NoFile /\ wasm_at = "idle" /\ entry = "none" /\ wasm_ret = 0
  /\ g_img = NoWasmImage /\ g_rgba = NoWasmImage

------------------------------------------------------------------------------
(* shim.c                                                                    *)

Brk == IF g_brk = 0 THEN HeapBase ELSE g_brk

Rounded(n) == (((n + Align - 1) % Word) \div Align) * Align

\* The pages grow_to asks for.
MissingPages(want) ==
  LET have == (pages * PageSize) % Word
  IN  IF want <= have THEN 0 ELSE ((want - have + PageSize - 1) % Word) \div PageSize

\* malloc(n) hands out the block at Brk.
Malloc(n) ==
  LET end == Brk + Rounded(n)
      more == MissingPages(end % Word)
  IN  /\ pages + more <= MaxPages
      /\ g_brk' = end % Word
      /\ pages' = pages + more
      /\ live' = live \cup {[at |-> Brk, asked |-> n]}
      /\ wrapped' = (wrapped \/ n + Align - 1 >= Word \/ end >= Word)

\* It gives NULL if the host refuses.
MallocFails(n) ==
  /\ MissingPages((Brk + Rounded(n)) % Word) > 0
  /\ g_brk' = Brk
  /\ UNCHANGED <<pages, live, wrapped>>

Overflows(n, sz) == sz > 0 /\ ((n * sz) % Word) \div sz # n

\* Nothing is freed one by one.
Reset == g_brk' = HeapBase /\ live' = {} /\ UNCHANGED <<pages, wrapped>>

------------------------------------------------------------------------------
(* pxl_wasm.c                                                                *)

\* The host asks for room and writes a file there.
Alloc ==
  /\ wasm_at = "idle" /\ ~wrapped
  /\ \E f \in WasmFiles, n \in FileBytes :
       \/ Malloc(n) /\ input' = f
       \/ MallocFails(n) /\ UNCHANGED input
  /\ UNCHANGED <<wasm_at, entry, wasm_ret, g_img, g_rgba>>

WasmReturns(ret) == wasm_at' = "idle" /\ wasm_ret' = ret

Decode ==
  /\ wasm_at = "idle" /\ input # NoFile /\ ~wrapped
  /\ entry' \in {"decode", "decode_rgba"}
  /\ wasm_at' = "scratch"
  /\ UNCHANGED <<heapVars, input, wasm_ret, g_img, g_rgba>>

NoDecode == WasmReturns(0) /\ g_img' = NoWasmImage

DecodeScratch ==
  /\ wasm_at = "scratch"
  /\ \E b \in Scratch :
       LET total == (b[1] * b[2]) % Word
       IN  \/ /\ Overflows(b[1], b[2]) /\ NoDecode
              /\ UNCHANGED heapVars
           \/ /\ ~Overflows(b[1], b[2])
              /\ \/ Malloc(total) /\ wasm_at' = "pixels" /\ UNCHANGED <<g_img, wasm_ret>>
                 \/ MallocFails(total) /\ NoDecode
  /\ UNCHANGED <<input, entry, g_rgba>>

PixelBytes(w, h, channels, depth) == ((w * channels * depth + 7) \div 8) * h

FileSize(f) == PixelBytes(f.w, f.h, f.channels, f.depth)

\* What canvas wants needs no second buffer.
ReadyForCanvas(p) == p.channels = 4 /\ p.depth = 8 /\ ~p.file.palette

\* pxl_decode returns: the file may still turn out broken behind its pixels' buffer.
DecodePixels ==
  /\ wasm_at = "pixels"
  /\ LET n == FileSize(input)
         got == [ file |-> input, data |-> Brk, size |-> n,
                  channels |-> input.channels, depth |-> input.depth ]
     IN  \/ MallocFails(n) /\ NoDecode /\ UNCHANGED g_rgba
         \/ /\ Malloc(n)
            /\ \/ NoDecode /\ UNCHANGED g_rgba
               \/ /\ g_img' = got
                  /\ IF entry = "decode"
                       THEN WasmReturns(1) /\ UNCHANGED g_rgba
                     ELSE IF ReadyForCanvas(got)
                       THEN WasmReturns(1) /\ g_rgba' = got
                     ELSE wasm_at' = "expand" /\ UNCHANGED <<g_rgba, wasm_ret>>
  /\ UNCHANGED <<input, entry>>

\* The geometry of pxl_image_expand.
ExpandedChannels(f) ==
  IF f.palette THEN (IF f.alpha THEN 4 ELSE 3) ELSE f.channels

ExpandedDepth(f) == IF f.palette \/ f.depth < 8 THEN 8 ELSE f.depth

ExpandImage ==
  /\ wasm_at = "expand"
  /\ LET f == g_img.file
         n == PixelBytes(f.w, f.h, ExpandedChannels(f), ExpandedDepth(f))
     IN  \/ MallocFails(n) /\ WasmReturns(0) /\ UNCHANGED g_rgba
         \/ /\ Malloc(n) /\ WasmReturns(1)
            /\ g_rgba' = [ file |-> f, data |-> Brk, size |-> n,
                           channels |-> ExpandedChannels(f), depth |-> ExpandedDepth(f) ]
  /\ UNCHANGED <<input, entry, g_img>>

ClearTheDecoded == g_img' = [g_img EXCEPT !.data = 0, !.size = 0] /\ UNCHANGED g_rgba

\* clear
Clear ==
  /\ g_img' = [g_img EXCEPT !.data = 0, !.size = 0]
  /\ g_rgba' = [g_rgba EXCEPT !.data = 0, !.size = 0]

Free ==
  /\ wasm_at = "idle"
  /\ Clear /\ Reset
  /\ input' = NoFile
  /\ UNCHANGED <<wasm_at, entry, wasm_ret>>

WasmNext == Alloc \/ Decode \/ DecodeScratch \/ DecodePixels \/ ExpandImage \/ Free

WasmSpec == WasmInit /\ [][WasmNext]_wasmVars

------------------------------------------------------------------------------
(* Properties                                                                *)

Bytes(b) == b.at .. (b.at + b.asked - 1)

\* As long as the addresses fit their word, every block is aligned and in memory, of the
\* size that was asked for, and apart from all others.
BlocksAreApart ==
  /\ \A b \in live : b.at % Align = 0 /\ Bytes(b) \subseteq HeapBase..(pages * PageSize - 1)
  /\ \A b, c \in live : b # c => Bytes(b) \cap Bytes(c) = {}

\* Both images, whatever the calls before, are NULL or in a block since the last reset,
\* and of its size; and where decode_rgba returned 1 they are of one file.
ImagesAreLive ==
  /\ \A p \in {g_img, g_rgba} : p.data # 0 => [at |-> p.data, asked |-> p.size] \in live
  /\ (wasm_at = "idle" /\ entry = "decode_rgba" /\ wasm_ret = 1) =>
       /\ g_rgba.file = g_img.file
       /\ g_rgba.data # 0 <=> g_img.data # 0

WasmIsSound == ~wrapped => BlocksAreApart /\ ImagesAreLive

------------------------------------------------------------------------------
(* Why they hold                                                             *)

WasmTypeOK ==
  /\ g_brk \in Nat /\ pages \in FirstPages..MaxPages /\ wrapped \in BOOLEAN
  /\ live \subseteq [at : Nat, asked : Nat]
  /\ input \in WasmFiles \cup {NoFile}
  /\ wasm_at \in {"idle", "scratch", "pixels", "expand"}
  /\ wasm_at # "idle" => input \in WasmFiles
  /\ {g_img, g_rgba} \subseteq [ file : WasmFiles \cup {NoFile}, data : Nat, size : Nat,
                                channels : Nat, depth : Nat ]

\* Every block ends below the next one, the last below the break, and in memory.
HeapInOrder ==
  /\ Brk >= HeapBase /\ Brk % Align = 0
  /\ \A b \in live :
       /\ b.at >= HeapBase /\ b.at % Align = 0
       /\ b.at + b.asked <= Brk /\ b.at + b.asked <= pages * PageSize
  /\ \A b, c \in live : b # c => b.at + b.asked <= c.at \/ c.at + c.asked <= b.at

\* What is expanded is an image that is there.
ExpandsAnImage == wasm_at = "expand" => g_img.file \in WasmFiles /\ (~wrapped => g_img.data # 0)

WasmInv ==
  /\ WasmTypeOK /\ ExpandsAnImage
  /\ ~wrapped => HeapInOrder /\ ImagesAreLive
==============================================================================
