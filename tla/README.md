# PNG XL: specifications, model checking and proofs

PNG XL is a lossless image format: a `.pxl` file is a 28-byte header, an
optional palette, optional metadata, and one zstd frame of row-filtered pixels;
an `.apxl` file is the same idea for animations. The library in `src/` encodes
and decodes both, progressively if asked to, and converts from and to PNG, APNG
and GIF. Plugins for FFmpeg and KDE, a WASM build and a PSP viewer sit on top.

The modules here describe what that code does, in TLA+, and what can be relied
on. TLC checks them on small instances; TLAPS proves the most important
properties for all of them.

## 1. The system

| component | state it keeps | operations | what is hard | what makes it correct |
|---|---|---|---|---|
| header and geometry (`pxl_io.c`, `pxl_codec_common.c`) | none | read/write a header, sizes of rows and streams | overflow, inconsistent fields | both decoders accept the same headers |
| push decoder (`pxl_stream_*`) | section state, bytes collected per section, one-row window, zstd context, rows done | new, feed, image, finish, free; a row callback | any chunking; zstd holds decoded bytes back; rows fail in the middle; finish at any time | rows once, in order, only good ones; no byte lost; an honest and final verdict; every call returns |
| one-shot decoder (`pxl_decode`) | locals of one call | decode a buffer | truncated or over-long frames; seven places to fail | an image exactly for an exact file; nothing leaks; it returns |
| row filters and unfilters, pixel conversion | none | filter and unfilter a row, check indices, expand, convert, pack a palette | special loops for each pixel width, first row and pixel, samples below a byte | the unfilters invert the filters; what is shown is the picture |
| still encoder | locals of one call, two buffers that change places | filter candidates, score, compress, assemble | choosing the smallest candidate, failure of one of them; limits apart from the decoder's | the smallest frame under its own header; what is accepted decodes |
| animation codec (`apxl_codec.c`) | none between calls; an animation owns its buffers in one of two shapes | try_index, encode, decode, free | ownership; partial failure; the 256th colour; sizes beyond 32 bits | the picture survives every call; blocks are freed once |
| APNG reader and writer (`apng.c`) | canvas, previous canvas, sequence number | load, save | dispose/blend order, chunk order, partial files | frames as a viewer shows them |
| GIF reader (`gif.c`) | LZW table, canvas, saved canvas | load | code-width growth, KwKwK codes, disposal | frames as a viewer shows them |
| metadata (`pxl_meta.c`) | none | extract chunks, inject chunks | chunk walk over foreign data | what was extracted is injected, once |
| PNG load/save (`pxl_png.c`, `pxl_pngio.c`) | libpng structs, a memory cursor | load, save | `longjmp` out of libpng | nothing but what is documented leaks, a PNG comes back |
| FFmpeg plugin | frames buffered, an animation, a cursor | decode, encode, flush, demux, mux | parameter changes in mid-stream, drain, a call that fails and is repeated | every frame once, in time; contexts own what they hold |
| KDE plugin | current frame, decoded animation | read, jump, options | calls in any order, a device that can be read once | the cursor stays on a frame; answers agree |
| WASM build | two result images, bump allocator | decode, free | lifetime of the results | blocks apart, results alive and of one file |
| tools | files | compress, decompress, animations | a stage that fails | exit code and files agree |
| PSP viewer, benchmarks, tests | | | | |

Callers reach the decoders through `pxl.h` and `apxl.h`. The push decoder calls
back into its caller, once for each row, from inside `pxl_stream_feed` or
`pxl_stream_finish`. Nothing in the library runs concurrently; what makes it
hard is the order and granularity of calls, a decompressor with a memory of its
own, and failure in the middle.

## 2. The modules

| module | models | code |
|---|---|---|
| `PxlFormat` | the header and the geometry | `pxl_io.c`, `pxl_codec_common.c` |
| `ZstdFrame` | a zstd frame and one call of `ZSTD_decompressStream` (external) | how `pxl_codec_decode.c` uses it |
| `PxlFile` | a `.pxl` file as a decoder meets it | |
| `PxlStream` | the push decoder | `pxl_codec_decode.c` 661-1166 |
| `RowSource` | abstract: what any progressive decoder promises | `pxl.h` |
| `PxlDecode` | the one-shot decoder | `pxl_codec_decode.c` 431-644 |
| `PxlEncode` | the still encoder | `pxl_codec_encode.c` 25-46, 268-455 |
| `PxlCodec` | the two, composed: what was encoded is decoded | `pxl_encode`, `pxl_decode` |
| `PxlFilters` | filters and unfilters, byte by byte | `pxl_codec_encode.c` 54-266, `pxl_codec_decode.c` 72-412 |
| `PxlPixels` | index checks, expansion, packed formats | `pxl_codec_common.c` 127-214, `pxl_codec_decode.c` 29-67, 704-803 |
| `ApxlAnim` | the animation codec | `apxl_codec.c` |
| `GifLzw` | GIF's LZW decoder, code by code | `gif.c` 98-238 |
| `LzwStrings` | abstract: LZW on strings and a queue of bits | |
| `GifInterlace` | the deinterlacer | `gif.c` 305-319 |
| `GifImage` | the two, composed as `read_image` composes them | `gif.c` 367-387 |
| `Layers` | abstract: what layers laid over each other show | |
| `GifLoad` | `gif_load`: block walk, image list, compositor | `gif.c` 283-619 |
| `ApngLoad` | `apng_load`: chunk walk, frame data, compositor | `apng.c` 43-448 |
| `ApngSave` | `apng_save`: chunks, sequence numbers, metadata, the file | `apng.c` 457-699 |
| `ApngRoundTrip` | the two, composed: what was saved is loaded | |
| `ApngBlend` | the arithmetic of BLEND_OVER | `apng.c` 373-396 |
| `PngChunks` | classes of PNG chunks | `pxl_meta.c` 25-65 |
| `PngMeta` | metadata extracted on load, injected on save | `pxl_meta.c`, `pxl_png.c` |
| `PngIo` | PNG load and save | `pxl_png.c`, `pxl_pngio.c` |
| `PxlTool` | the commands of pxltool, over `PngIo` | `pxltool.c` |
| `PxlFfmpeg` | FFmpeg's animation encoder and decoder | `libpxlenc.c`, `libpxldec.c` |
| `PxlWasm` | the flat calls and their allocator | `pxl_wasm.c`, `shim.c` |
| `PxlHandler` | Qt's image handler | `pxl_handler.cpp` |
| `Counting` | sums, the n-th of a set of numbers, what a sequence has at some positions | |
| `*Proofs` | theorems | |
| `MC*` | small instances | |

`PxlStream` and `PxlDecode` both extend `PxlFile`, which extends `PxlFormat` and
`ZstdFrame`: the two decoders meet the same files, accept headers by the same
operator `Decodable`, and drive the same decompressor. `GifLoad` and `ApngLoad`
share the reference `Layers`. A definition whose name tells of a bug
(`ClearCodeKeepsPrevious`, `FullTooSoon`) is no part of a specification: it is what
the definition below or above it could have been, kept to show that a property
would notice.

### ZstdFrame: the decompressor

A frame is `n` bytes and a function `prod`: how much the first `i` bytes decode
to. A call reads input as long as what it decoded fits into the output room; the
rest stays inside the context and comes out with later calls. When all input is
read and output is still held back, zstd keeps the last input byte ("hostage")
so that its caller has a reason to call again. Bytes that produce nothing
(headers, an empty last block, a checksum) are bytes where `prod` does not grow.
`bad` is the byte on which the library reports an error. This is the library as
its documentation and its users in `src/` describe it; none of it is proved.

### PxlStream: the push decoder

A variable is a field of `struct pxl_stream` with the same name, a local of
`pxl_stream_feed` (`pc`, `len`, `in_pos`), or what the caller has seen (`fed`,
`delivered`, `finished`). `Feed(n)` enters `pxl_stream_feed` with the next `n`
bytes; `FeedHeader`, `FeedPalette`, `FeedMeta`, `FeedTrailing` and `FeedFrame`
are the branches of `while (len)`; `Decompress` and `WindowFull` are one turn of
the inner `for (;;)` with and without a call of zstd, each followed by
`stream_emit_rows`; `Finish` is `pxl_stream_finish`. A row is its index and the
offset its bytes were taken from; a row's samples are abstracted to `"ok"`,
`"bad_type"` (unknown filter type) or `"bad_index"` (an index behind the
palette), which is all the decoder tells apart. The callback sees rows in
`delivered`, between states, as it does in the code. `pxl_stream_image` changes
nothing and `pxl_stream_free` ends the behaviour.

`RowSource` is the abstract specification: rows appear from the top, each once
and only if valid; `complete` is said only of a whole picture of which every row
was shown, and never withdrawn. `ImplementsRowSource` maps `rows_done` and
`finished` to it.

### PxlDecode: the one-shot decoder

One call, from one allocation or loop turn to the next. `present` is how much of
the file the caller's buffer holds: every cut-off point is an initial state.
`heap` names the blocks in use and `Allocate` may fail at each step, so every
error path of the function is a behaviour.

### PxlEncode, PxlCodec: the still encoder, and back again

One call of `pxl_encode_ex`. The contents of a buffer are reduced to where they
came from: a frame is `n` bytes that hold the `bytes` filtered bytes of filter
`of`. `slot` holds what is in the two blocks for frames, `best_block` and `work`
say which is which, so that the exchange of the pointers is a step
(`PromoteWork`) and a header that describes the wrong block would be seen.
`SkipCandidate` and `Compress` are the two ways through a turn of the loop;
`tried` remembers what each filter came to, for the properties. The lengths in
the header are 32 bits wide and cut off as the casts do (`Uint32`); with metadata
that are longer, what a decoder takes for the frame begins with the rest of them
(`Surplus`, `FrameOf`), and these bytes are taken to be no zstd frame.

`PxlCodec` hands the file to `PxlDecode` (`HandOver`), with its size, palette and
metadata; or the decoder meets a foreign file, as it does alone.

### PxlFilters: bytes through the filters and back

A picture is packed row by row by one of the four colour filters and unpacked
as the decoder's loops go: byte by byte, or pixel by pixel under BCIF. The encoder
predicts from zeros where there is no neighbour (`Pred`), the decoder has a head
loop and a bulk loop, each with cases of its own for the first row (`HeadPred`,
`BulkPred`); they are written down separately, as in the code. `best` and `cand`
are the two row buffers of `pack_adaptive`, which are exchanged when a type is
better. `Base` is the number of values of a byte: 256 in the code.

### PxlPixels: what a caller is shown

One call on one image, pixel by pixel: the index check, `pxl_image_expand`, the
conversion of a row, or of a palette. Here bytes have eight bits and pictures are
real ones, because shifts and masks are the point. The reference is PNG's own
definition: a sample is the next `depth` bits of its row, each weighted by its place
(`SampleOf`), whatever bytes they lie in.

### ApxlAnim: the animation codec

The life of one animation: it comes assembled from a loader or in a file, and
then its owner may convert it to indices, encode it, free it, decode it again,
in any order. Each call runs from one allocation to the next. Pointers are a
block and an offset, so that freeing a pointer into the middle of a decoded
animation's one storage block is visible (`wild`). Colours are numbers packed as
`apxl_color_key` packs them; the hash table of `apxl_index_lookup_or_insert` is
modelled slot by slot, with linear probing, as is the index byte's width. Pass 1 of
`apxl_anim_try_index` goes pixel by pixel (`CollectColour`, `NextFrame`), so that what
the table holds halfway is a state; pass 2 frame by frame, between its allocations.
`picture` remembers what the caller put in. Sizes wrap at `SizeValues` and at
`Uint32Max` as their types do (`RawBytes`, `Uint32`). A file whose metadata length
was cut off is not `whole`: a decoder takes the beginning of the metadata for all
of it, and its rest for the timing table and the frame, which does not decompress to
the size announced.

### GifLzw, GifInterlace, GifImage: one GIF image

`GifLzw` keeps the locals of `gif_lzw_decode` and `struct lzw_bits`. Bytes are
chosen when `Refill` reads them, so that every input is a behaviour; then
`ReadCode` takes a code and one of `ClearCode`, `EndCode`, `KnownCode`,
`NextCode` (KwKwK) and `UndefinedCode` is the rest of the turn. `table` keeps the
stale entries of before a clear code, as the arrays do; an entry that was never
written is outside its domain. `LzwStrings` is LZW by its definition, with a
dictionary of whole strings and no table, chains, stack or width counter;
`ImplementsLzw` maps the live table to the dictionary, by spelling the chain of each
live entry (`Strings`), and the bit buffer to the queue of bits (`Bits`).
`GifInterlace` keeps the loop variables of `deinterlace` and, for
each row written, which row of `src` it came from. `GifImage` runs the second on
what the first has decoded.

### Layers, GifLoad, ApngLoad: the two compositors

`Layers` says without a canvas what layer `i` of an animation shows at a pixel:
the last opaque paint below or at `i` that is neither taken away nor cleared, and
the glazes above it. A file is a sequence of blocks (chunks), chosen one by one
by the first pass; the second pass draws, takes the snapshot and disposes, as
the code does on `canvas` and `prevbuf`. A pixel is the sequence of colours that
were blended there, so that the compositor's order is exact and its rounding
left to `ApngBlend`. `LayerAt` and `LayerOf` derive a layer from the *file*:
which control extension is an image's own, which chunks hold a frame's data.
`heap` names every block allocated. `Empty` is the colour of a clear canvas.

What zlib and libpng make of a frame's data is external: data are pieces of a
picture, and decode if they begin with a whole one (`IsWhole`). A picture has the
transparency that the whole file gives it, a sample being opaque, clear or in
between; what comes out of the PNG that `synth_png` puts together is
`DecodedSample`: alpha channels, and the tRNS of indexed files, which is all it hands
on. The reference takes from the file what was meant (`MeantSample`): a tRNS also
names the one clear colour of a gray or RGB file. The two differ there, and only
there (`Keyed`). Metadata are there or not. A chunk that is cut off or too short is
`end` or `other`, as the code treats it.

### ApngSave, ApngRoundTrip: writing an animation and reading it back

`ApngSave` fills the growbuf `g`: `SaveHead` is everything before the frames,
`SaveControl`, `EncodeFrame` and `SaveData` are a turn of the frame loop, cut
where memory is allocated or an error jumps to `done`. `g.failed` sticks, as it
does in `gb_put`, and is looked at where the code looks at it. `WriteFile` is
`pxl_spit`: the file may not open, be cut off, or lose at `fclose` what `fwrite`
kept back, which the code does not notice (`lost`). What `encode_frame_idat` makes
of a frame is one whole picture, or nothing. A metadata record is a type and the
chunk it is written as (`RecordOk`): `apng_write_metadata` does not look at types, so
a record may be a header, a frame control or an end (`Ancillary`).

In `ApngRoundTrip` the chunks on the disk are the ones `ApngLoad` reads, with the
data ending behind the last; or a foreign file is read, as before. A file that was
cut off, or has such records in it, is loaded too, so the loader's properties are
checked on it. `SavedSample` is what the saver makes of transparency: an indexed
animation without alphas is opaque.

### ApngBlend: one channel of one pixel

The statements of BLEND_OVER with their rounding, and the conversion to
`uint8_t` as `% 256`, over any sequence of samples.

### PngMeta: ancillary chunks

A picture is loaded, saved, loaded and saved again. `ExtractChunk` is a turn of
the loop of `pxl_meta_extract`; `InjectEarly`, `InjectLate`, `EmitRecord` and
`CopyChunk` are the two nested loops of `pxl_meta_inject`. `Put` is `bb_append`,
which goes dead when it cannot grow. `base` is what libpng writes for the
picture, of which only `IsBase` is assumed. `starved` remembers a failure for
the properties only.

### PngIo, PxlTool: from PNG to PXL and back

`PngIo` has a step for each call of libpng, or stretch of code, that may fail: it
goes on, or jumps to `fail` (load) or into `setjmp` (save). `png_heap` names the
blocks, `FailFrees` what the label frees: not the palette and its alpha, which a
comment (`pxl_png.c:51`) says the image keeps, though the image is cleared; so
`ToolIsSound` allows for these two and for nothing else. A PNG is its header, its
chunks by presence, and the place where libpng gives it up.

`PxlTool` runs a command stage by stage over that load and save: each stage
fails into an exit with the blocks it frees, and a second command may take the
file of the first. The codecs are calls that return something or nothing; they
have modules of their own.

### PxlFfmpeg: frames into one packet and out again

FFmpeg holds at most one frame between a caller and the encoder, answers
`EAGAIN` or `EOF` when it has none, and may ask again after anything. `Receive`,
`TakeFrame`, `GrowFrames`, `AppendFrame` are `libpxl_anim_encode_frame` up to the
end of the stream, `EncodeFrames` and `PacketOut` what follows, `CloseEncoder` the
close; `ReceiveFrame` and `HandOut` are the decoder. `Reduced` is `av_reduce`: the
best fraction with terms up to `MaxTerm`.

### PxlWasm: a heap that is only ever reset

Addresses are numbers below `Word` and wrap as `unsigned long` does. `Malloc`
rounds, grows the memory by whole pages if the host lets it, and moves `g_brk`;
nothing is freed but by `Free`, which forgets the images and resets the arena.
`live` remembers the blocks handed out since, for the properties.

### PxlHandler: the Qt handler

Variables are the members of `PxlHandler` with the device it reads. Every call of
Qt's is an action that may come at any time; those that need the file run
`EnsureDecoded` first, which reads the device once. `answer` is what the last call
told.

### MCHosts, MCPxlCodec, MCGif, MCApng

Components that share no state are explored in one run, one part per behaviour
(`walk`); what rests is fixed. `MCPxlCodec` takes the still codec, the filters and
the pixels; `MCGif` LZW with the deinterlacer, and the loader; `MCApng` the round
trip, and blending; `MCHosts` metadata, tool, FFmpeg, WASM and Qt.

## 3. The runs

| run | question | result |
|---|---|---|
| `PxlStream` | safety of the push decoder, calls return, exact files are accepted, it implements `RowSource` | holds |
| `PxlCodec` | the still codec both ways; memory and termination of the one-shot decoder; filters and unfilters; pixels | holds |
| `ApxlAnim` | lossless, leak-free, exact palette conversion | holds |
| `Gif` | LZW against its definition; rows in order; the compositor against `Layers`; memory; exact verdict | holds |
| `Apng` | the compositor against `Layers`; memory; exact verdict; saved files are valid and load back; blending | holds |
| `Hosts` | metadata, PNG and tool, FFmpeg, WASM, Qt | holds |
| `PxlStreamBcif` | SPEC.md 6: any valid frame is accepted | **violated** |
| `PxlCodecClut` | `pxl.h`: entries within the alpha list have their alpha | **violated** |
| `ApxlAnimDecoded` | frees are sound when a decoded animation is converted | **violated** |
| `ApxlAnimMixed` | `apxl.h`: palettes that differ are refused | **violated** |
| `ApngBlendMean` | `apng.c`: blending is source-over | **violated** |
| `ApngKeyed` | frames have the transparency of their file | **violated** |

What the properties say:

- `StreamInv`, the push decoder's inductive invariant, contains its types,
  `RowsInOrder` (each row once, from its own bytes), `OnlyGoodRows` and, in
  `WindowAligned`, `WindowSafe`.
- `NothingWaits`: when a call returns, all rows the bytes so far contain are out
  (`NoRowLeftBehind`, what the comment in the inner loop is about: looping on input
  instead of progress breaks it), and every byte went to the section it belongs
  to, for every chunking (`EveryByteUsedOnce`).
- `CompleteMeansExact`, `VerdictIsFinal`: the verdict.
- `FeedingLeadsOn`: every feed returns, and a usual file that is fed to its end is
  accepted.
- `CodecInv`: types of both codecs, `WindowInStep`, and the encoder's two buffers
  (`EncodeInv`). `ReturnIsSound`: the one-shot decoder leaks nothing and returns only
  images it has read whole and checked; `WholeFileVerdict`, `CallsReturn`: its
  verdict, and that it returns at all.
- `SmallestFrameKept`: the file holds the smallest frame that was come to, the
  first of those, under the header that belongs to it. `OwnFilesDecode`: what the
  encoder accepts the decoder does (with memory, with indices that exist and with
  metadata whose length fits its field, neither of which the encoder looks at:
  `MetadataFit`).
- `UnfilteredIsOriginal`: at every point of the decoder's loops, not just at their
  end, what it has is the original. `RowsFilteredBest`: the type byte belongs to the
  bytes behind it, and is the first with the smallest score.
- `PixelsAreShown`: the index check is exact, expansion shows the picture, a packed
  pixel stands for its colour. These are compared with a definition by bits
  (`SampleOf`, `Field`), not with the shifts and masks of the code.
- `AnimInv` (types, `HeapIsOwned`, `FreesAreSound`, and `MetadataKept`: metadata stay
  whole or are dropped for lack of memory), `Lossless`, `TryIndexIsExact`,
  `OwnFilesDecode`: the animation codec. `OwnFilesDecode` is about metadata whose
  length fits its field (`MetadataFits`), which the encoder does not check; with longer
  ones apxl_decode rejects the file, and `Lossless` has nothing to say of it.
- `LzwInv`: types; no walk through the table meets a stale or unwritten entry
  (`ChainsDescend`); reader and table agree on the width of every code (`WidthFits`).
  `ImplementsLzw`: pixels and verdict are those of LZW, for every input.
- `RowsInPlace`, `CopiesDecodedRows`: no row of an image is left as `malloc`
  returned it, put where GIF does not show it, or taken from where nothing was
  decoded.
- `FramesAreLayers` (twice): snapshots are what the file's layers show, each under
  its own control and from its own data. For APNG that is about all files but gray and
  RGB ones with a tRNS (`~Keyed`); `EveryFrameIsLayers` is the claim for all.
  `LoadIsSound` (GIF), `ApngInv` and `VerdictIsExact` (APNG): every way out frees what
  it must; files are refused for a reason only.
- `SavedFilesAreValid`: gap-free sequence numbers over controls and data, one piece
  of data behind each control, the metadata complete and on their side of the
  palette; `SavedFilesLoadBack`: the two halves of `apng.c` fit together, which
  once they did not (`apng.c:150`). Both are about metadata of types that
  `pxl_meta_extract` preserves (`RecordsPreserved`), as every block is that was
  extracted from a PNG, and about files that `fclose` did not lose; the code asks
  for neither (see the disagreements below).
- `BlendIsSound`: opacity never falls, and nothing is wrong over an opaque or a
  clear canvas.
- `WellPlaced`, `NothingLost`, `SavingIsStable`: all metadata, once, in order,
  where PNG wants it; or none.
- `ToolIsSound`: a load that fails has freed what it says it frees, and an exit code of
  0 means that the file is there and whole. `PngComesBack`: compressed and
  decompressed, a PNG is the same still; a command fails for a reason only.
- `ContextsOwn`: before and after the packet, and after failures, both FFmpeg
  contexts hold what their fields say, and nothing once closed. `FramesComeBack`: one
  packet with the frames accepted; each of them once, in order, due in time.
- `WasmIsSound`: blocks are apart, aligned and within memory, results lie in blocks
  since the last reset and are of one file.
- `HandlerKeepsPlace`: the current frame is one of the file's, and what is answered
  about it agrees with what is read.

### Findings

1. A BCIF file whose frame ends in bytes that produce nothing is never accepted
   by the push decoder if these bytes come in a later chunk
   (`pxl_codec_decode.c:1087`): the window is full, so zstd is not called again.
   The one-shot decoder, and the push decoder fed in one piece, accept it.
   `UsualFileAccepted` is what does hold: files with a row filter, and BCIF files
   whose last byte produces output, as this library's encoder writes them.
2. `apxl_anim_try_index` on a decoded animation frees interior pointers
   (`apxl_codec.c:245`).
3. `apxl_encode` compares palettes only if the first frame has one
   (`apxl_codec.c:296`).
4. BLEND_OVER over a canvas that is not opaque can store 256 in a byte: white
   over white becomes black (`apng.c:390`).
5. `pxl_convert_palette` drops the whole alpha list when it is shorter than the
   palette (`pxl_codec_decode.c:789`); `pxl.h:205` makes only the entries beyond it
   opaque. PNG's tRNS is usually that short.
6. `synth_png` hands on the tRNS of indexed files only (`apng.c:174`): the clear colour
   of a gray or RGB APNG is drawn opaque. `pxl_load_png` expands it in a still.

Other disagreements of code and text, seen while modelling and not given a run. The
first three are behaviours of the models that the properties named except:

- `pxl_encode` and `apxl_encode` cut the length of the metadata to 32 bits without a
  check (`pxl_codec_encode.c:435`, `apxl_codec.c:371`): with 4 GiB or more the header
  does not lead to the frame, and the decoder rejects the file. SPEC.md:382 makes the
  length "authoritative for locating the frame", and the comment at `apxl_codec.c:322`
  means to refuse whatever its own decoder would reject, but only `RawByteCount` is
  checked. Excepted by `MetadataFit` and `MetadataFits` in the two `OwnFilesDecode`.
- `apng_write_metadata` writes records under any type (`apng.c:572`): a metadata block
  from an `.apxl` file with an `IEND`, `IDAT` or `fcTL` makes an APNG that is not valid,
  or loads as something else, and is reported as saved; `apng.h:26` promises a valid
  one. Excepted by `RecordsPreserved`.
- `pxl_spit` ignores `fclose` (`pxl_pngio.c:38`) and answers 1 for a file whose end may
  be lost; `apng.h:27` says 1 is success. Excepted by `lost`, and by `unflushed` in
  `PxlTool`.
- `pxl_wasm_decode_rgba` leaves one or three channels, or 16 bits, for files that
  are not RGBA or indexed with alpha (`pxl_wasm.c:57`); its comments (11, 47) and the
  sample in its README take the result for RGBA. The comment at `pxl_wasm.c:70` knows
  better.
- `pxl_stream_image` exposes the image from `pxl_codec_decode.c:905` on, before
  palette and metadata are in; `pxl.h:227` says after.
- `decode_rows_bounded` accepts a frame cut off after its last row (line 486),
  where its comment (430) says truncated frames are refused. What is missing
  produces nothing, so the pixels are right (`ReturnIsSound`).
- `apxl_encode`'s 4 GiB check (`apxl_codec.c:321`) cannot fail where `size_t` has
  32 bits.
- The bit buffer of the LZW decoder holds up to 19 bits, not 15 (`gif.c:107`).
- `sBIT` is kept unless tRNS was expanded; `pxl_meta.h:10` says it is dropped.
- `apng_load` does not compare `acTL` with the frames it finds, so a file cut off
  between two frames loads as a shorter animation.
- `apng_save` has no limit on the canvas, `apng_load` has one: `SavedFilesLoadBack`
  is about canvases within it.
- The list of GIF images is refused when its *capacity* passes `GIF_MAX_FRAMES`,
  at 524,289 images for a limit of 1,000,000 (`gif.c:526`); `VerdictIsExact`
  states it that way.

- The encoder refuses a palette with more entries than its depth can address
  (`pxl_codec_encode.c:42`), and so does the PNG save; the decoder accepts one. The
  encoder does not look at indices, the decoder refuses those behind the palette.
- `pxl_load_png` frees neither palette nor palette alpha at `fail`, and clears the
  image that "keeps ownership" of them (`pxl_png.c:51`, 225). `rows` is changed after
  `setjmp` in `pxl_save_png` and freed behind it, and is not volatile.
- A save that fails leaves the file truncated that was there before.
- `libpxlenc.c:260` ("keeps this exact for any frame rate") and `libpxldec.c:301` ("a
  delay converts exactly") hold only for durations that two 16-bit numbers can tell
  and timebases that divide; a duration too short for them becomes 0, and then
  1/1 s. `FramesComeBack` says how far a picture may be off: less than a tick for each
  frame before it, if those delays could be told.
- Metadata of later frames are kept until the encoder is closed, where a comment
  (`libpxlenc.c:281`) says they are dropped.
- `pxl_handler.cpp:40` speaks of `read` called repeatedly across frames; `read` does not
  advance the current frame, `jumpToNextImage` does.
- The address arithmetic of `shim.c` can wrap: a request near 4 GiB is then granted.
  `WasmIsSound` is about heaps where nothing has wrapped.

### Bounds

Pictures of one pixel per row and up to two rows, so that there is a first row,
a later row and an end; 1, 2 or 3 filtered bytes per row, so that a row can be
cut inside. Frames of up to 3 compressed bytes with *every* spread of their
output over these bytes, one byte less or more than announced included: this
yields silent first and last bytes, several rows from one byte, rows cut by
bytes, and held-back output. Palette, alpha and metadata of at most one byte or
entry and a header of two bytes let a chunk end inside and between all sections.
Up to one trailing byte. Headers that break each rule singly. Files longer than
this repeat the same situations; the proofs remove these bounds for the
properties they cover.

The encoder gets images of up to nine pixels at every depth, palettes and alpha
lists at, below and above what the depth and the format (here four entries) allow,
buffers that are one byte off, and sizes on both sides of `PXL_MAX_DIM` (8) and
`PXL_MAX_PIXELS` (16); frames come to one or two bytes, which is enough for smaller,
equal and larger, each candidate failing or not.

Filters run over *every* picture of bytes below 4 of 3x2 pixels of one byte, 2x1 of
two and three, and 1x1 of four: a first and a later row, a first, second and third
pixel, gray, RGB and RGBA under BCIF. With four values a residual wraps and all
predictors differ; the proofs cover all sizes and 256.

Pixels: all rows of chosen bytes at depths 1, 2, 4, 8 and 16, with widths that end
within a byte, indices within and behind the palette, alpha for none, some and all
entries, buffers that are whole and one byte short; colours whose high and low bits
differ, so that every field of the packed formats shows.

Animations of two pixels and one or two frames; a palette of two entries with
three or four colours to put in it; a hash table of four slots into which all
colours but some fall at the last slot, so that probing collides and wraps; an
index type with exactly as many values as the palette has entries, as in the
code (256). `SizeValues`
(128) stands for the 2^64 values of a `size_t`: as there, the largest size the limits
allow stays below it (`SizeAssumption`). `Uint32Max` is small enough that an RGBA
animation of two frames exceeds it and its indexed form does not, and that metadata
can be longer; so it is for stills.

GIF images of up to six pixels with *any* data of up to nine bytes of two bits,
codes of up to four bits: codes straddle bytes, the width grows, the table fills
and stays full; to reach that with long images their codes are limited to 0 and
the newest (`Sensible`). Heights up to 14, so that every pass has no, one and
several rows.

GIF and APNG canvases of two pixels, so that a rectangle can cover all, one or
the other. Files of two families: those that tell the disposals apart, up to
seven blocks (eight chunks, in turn), with memory enough, hence three frames and
more; and all other blocks, in any order, sound or not, up to four (five), with
any allocation failing. The array of images starts with room for one and
doubles, and `GIF_MAX_FRAMES` is 4, so that growth and refusal both happen.

Saved animations of none, one, two and three frames, unusable ones among them,
with palettes of none, part of one, one, two and (one too many) three entries,
metadata of both groups, interleaved or broken off, and records of types that no
extraction yields (a frame control, an end); any step failing, and the file cut at
every chunk. Foreign files have alpha, a palette, or one clear colour, with and
without the tRNS that says so.

Samples of 0, 127 and 255 with alphas 0, 1, 2, 128 and 255: the extremes and the
halves. The proofs cover all of them.

Pictures with up to three ancillary chunks of five kinds (colour, sBIT, text,
dropped, animation) in each of the places a PNG has for them, gray with and
without tRNS, and indexed; memory fails for up to two chunks.

PNGs of every colour type, depth and transparency, given up by libpng before, in and
behind the header or not at all; stills a PNG can hold and not. FFmpeg: three frames
of two canvases, with no duration, one the timebase divides and one it does not, an
array that starts with one slot (16), terms up to 5 (65535) and ten ticks a second
(100000): the array grows twice, and delays are exact, reduced and rounded. WASM: words
of 32 values, four pages of eight bytes, alignment 4 (2^32, 65536, 16): three blocks
fill the memory, the host refuses to grow it, and addresses can wrap. Qt: a still,
something else, and animations of one and three frames, with any calls.

### Fairness

`PxlStream!Fairness`: the loops of a call run on (a call is sequential code), a
caller hands over its file to the end, and asks for the verdict. No fairness is
put on how the bytes are cut, on what zstd does among its outcomes, or on memory.
`PxlCodec!CodecSpec`: the calls run on. `FeedingLeadsOn` and `CallsReturn` are
about loops with progress tests of their own, so fairness on the loop is what
they need and no more.

The other specifications state safety only.

`CHECK_DEADLOCK FALSE` is used where a call returns and the behaviour ends: in all
runs but `PxlStream*` and `ApxlAnim*`, whose callers can always go on.

## 4. What is proved

Where a property is proved it holds for every value of the constants that the named
assumptions admit; TLC evaluates these assumptions for the instances of the runs.
Every safety invariant and every action property that a run checks is proved, and so
are both refinements. Each proof finds an inductive invariant, which stands beside its
module's properties or at the head of its proof, and has a lemma for each action.

Two modules have only lemmas. `PxlFileProofs` is about files, zstd frames and their
prefixes, for both decoders. `CountingProofs` is what takes the place of induction
over data, which the provers cannot do: the n-th member of a set of numbers is the one
with n members up to it, so that it exists for every n up to the size (`NthIs`,
`HasNth`) and stays what it is when larger ones are added; what a sequence has at some
positions (`Those`) is therefore followed from step to step as the sequence grows.
Sums grow by their last term and are compared term by term. Where something holds for
every n after all, a least counterexample is taken and its predecessor looked at.

### PxlStreamProofs

For every set of well-formed files, every header length and limit, every chunking,
every outcome of zstd and of the allocations:

| theorem | statement |
|---|---|
| `StreamSafe` | `Spec => []StreamInv` |
| `TypeCorrect` | `Spec => []TypeOK` |
| `RowsComeInOrder` | `Spec => []RowsInOrder` (in `StreamInv`) |
| `RowsAreGood` | `Spec => []OnlyGoodRows` |
| `WindowIsSafe` | `Spec => []WindowSafe` |
| `CompleteIsHonest` | `Spec => []CompleteMeansExact` |
| `NothingIsLeftWaiting` | `Spec => []NothingWaits` |
| `VerdictsAreFinal` | `Spec => VerdictIsFinal` |
| `PushDecoderIsRowSource` | `Spec => ImplementsRowSource` |

Assumptions: `FormatAssumption` (limits are positive), `FilesAssumption` (a file
is a header, kinds of rows that fit it, and a frame whose output only grows),
`StreamAssumption`.

None of the properties is inductive. `StreamInv` adds:

- `SectionsInOrder`: a state of the decoder implies that the sections before it
  are whole, and that the frame has not been touched before its turn;
- `WindowAligned`: `ds.out = rows_done * F + filtered_have`, where the window
  lies in the decompressed stream. `RowsInOrder` needs it: that row `y` is built
  from its own bytes is only true because every release of the window happens at
  a multiple of the row size;
- `ContextOk`: which states zstd's context can be in, the hostage byte included;
- `CallInOrder`: what a call still holds of its chunk has not been used;
- `CompleteInOrder`: a complete verdict pins the rest of the state.

Arithmetic about the window (a sum that stays below a product, division by a row
size) is in lemmas over constants, which the action lemmas instantiate. That
`complete` means *exact* follows from `WindowAligned` at the end of the frame:
everything zstd produced has been delivered, and it is `height * F` bytes.

`NothingWaits` rests on a second invariant, `CallProgress`, on top of the first: no
byte fed is dropped but behind the frame or with the window full for good
(`NothingDropped`), outside the inner loop every row decoded has been delivered
(`RowsKeepUp`), and a call under way has bytes left. The last is what makes zstd move
whenever it is called with room in the window, so that the inner loop ends only
where nothing more can come.

### PxlCodecProofs

For every set of sources and files, every size a compressed frame may have, and
whatever allocation or compression fails: `CodecSafe` (`CodecInv` with `EncodeInv`,
`DecodeInv` and `HandedOver`), and from it `DecoderReturnsSoundly` (`ReturnIsSound`),
`VerdictOfWholeFiles` (`WholeFileVerdict`), `SmallestIsKept` (`SmallestFrameKept`) and
`OwnFilesAreDecoded` (`OwnFilesDecode`).

`EncodeInv` says of the loop over the candidates that `best_block` holds the first of
the smallest frames tried so far, at the size and of the filter the locals name
(`BestKept`), so that exchanging the two blocks needs no induction over the
candidates. `DecodeInv` says what is held at each step (`BlocksHeld`), that the locals
of the row loop agree with zstd's context (`WindowInStep`, `ReadsInStep`), and that
past the pixels the file's frame was all there and had good rows
(`PictureDecoded`). `OwnFilesDecode` joins them: a file that `FileIsChosen` describes
satisfies the decoder's checks (`HeaderChecked`) because both compute its sizes from
the same geometry, and its frame is where the header says if that can hold the length
of the metadata (`MetadataFit`, a hypothesis within the property). That the first bytes of metadata are no zstd frame, as
`FrameOf` has it, matters only to the other theorems, for files beyond that. Besides `FormatAssumption` and `FilesAssumption` it assumes
`EncodeAssumption` (sources are images, compressed frames not empty) and
`DecodeAssumption`.

*Filters*, for pictures of every size, every pixel width and any `Base`:
`FiltersInvariant` (`FilterSpec => []FilterInv`) and `FiltersInvert`
(`UnfilteredIsOriginal`). `FilterInv` says of every row of the stream that its bytes
are those `RowFilterEncode` (or DELTA, BCIF, NONE) makes of the picture under its type
(`PackedAs`), that the row kept so far belongs to the type kept so far, and of the
unpacking that all before the current byte is original. The step for a byte is then
three facts about arithmetic modulo `Base`: a residual and its prediction give the
byte (`ByteAgain`); a prediction is a byte (`PredIsByte`); and where neighbours are
missing the decoder's special cases are the encoder's general one with zeros
(`HeadAgrees`, `BulkAgrees`, with Paeth's choice among a left or an upper neighbour
alone). It assumes `BaseAssumption` and `PicturesAssumption`: pictures are rectangles
of bytes. `RowsAreFilteredBest` (`RowsFilteredBest`) adds to it `BestInv`: what the
encoder has kept is the first of the types tried so far with the smallest score, and
`best_s` is that row's score. One more type tried keeps that (`BestOfOneMore`); a
score is a sum over the bytes of a row, which only has to be the same while those
bytes are (`ScoreKept`).

*Pixels*, for images of every size, depth, palette and alpha list: `PixelsSafe`
(`PixelSpec => []PixelInv`) and `PicturesAreShown` (`PixelsAreShown`). `PixelInv` is
three things: what a call has at its start and its end (`CallOk`), that each pixel put
out is what the code makes of *that* pixel (`PixelsDone`), and that a refusal has met
an index behind the palette (`RefusedRightly`). The rest is arithmetic. A byte is the
sum of its eight bits (`BitsOfByte`), two shifts are one (`ShiftsAdd`), and so the
code's shift and mask are the sum of bits that PNG calls a sample (`SampleIs`, one
depth at a time); the fields of a packed pixel do not overlap and are cut off at their
width (`PackedStands`). It assumes `ImagesAssumption`, that images are as `pxl.h`
describes them, and `PowersOfTwo`, the doubling of powers up to 2^16, which the
provers do not know and TLC evaluates.

### ApxlAnimProofs

For any frames, palettes, files and limits, any hash function, and whatever allocation
fails: `AnimSafe` (`AnimInv`), `PictureSurvives` (`Lossless`), `TryIndexAnswersRight`
(`TryIndexIsExact`) and `OwnAnimsDecode` (`OwnFilesDecode`).

`TableOk` is the colour table: every colour in it is where its probe ends, and indices
number the colours. A colour that is inserted fills a slot that was free, so every
probe that found its colour still does (`ProbesStay`); colours and indices correspond,
so there are as many as `count` says (`ColoursCounted`), fewer than slots, so probing
always ends (`SomeSlotIsFree`). `CollectInv` adds that at any point of pass 1 the
table holds the colours of the pixels visited and no other, `FoundInv` that pass 2
finds all of them; a full table at a new colour is then a set of colours larger than
the palette. `BufsOwned` says who owns the frames' pixels, and `HeapIsOwned` what is
allocated: what the caller's animation and file own and what the call in progress has
(`Busy`), which are apart. That `apxl_free` is given each of its blocks once is a fact
about lists of pointers (`Fine`, `AnimFine`).

Besides `ApxlAssumption` (more slots than palette entries, palettes that index bytes
can address) the proofs assume: `SizeAssumption`, that a `size_t` holds the size of
all frames, as 64 bits do; `AssembledAssumption`, that a caller who assembles an
animation gives each frame its own buffer, leaves the animation's palette empty, and
has pixels in RGB and RGBA frames; `ForeignAssumption`, one delay for each frame of a
file. Three hypotheses stand in the theorems or properties, because the code does not
guarantee them: `~IndexDecoded`, nobody converts a decoded animation (the run
`ApxlAnimDecoded` shows what happens otherwise); for `PictureSurvives` `PalettesAgree`,
all frames have a palette or none (`ApxlAnimMixed`); and for `OwnAnimsDecode`
`MetadataFits`. `MetadataKept` is what makes the last enough:
metadata never grow, so a length that fits in the caller's picture fits in every file.

### GifProofs

*LZW*, for every width of bytes and codes, every input and every image size:
`LzwInvariant` (`Spec => []LzwInv`), with `WalksDescend` (`ChainsDescend`) and
`WidthAlwaysFits` (`WidthFits`) as its parts. `LzwInv` has the two together
with the range of the table: that a clear code leaves no old prefix behind needs
`prev_code` to be live, that a new entry's prefix is older needs the width.
Besides `LzwAssumption` the proof uses `PowersAssumption`, that the powers of two up
to the widest code and one byte start at 1 and double: true arithmetic, which
the provers do not know; TLC evaluates it for the constants of the run.

`DecoderIsLzw` (`Spec => ImplementsLzw`) is the refinement. It needs a second
invariant, `SpellInv` (`StringsAreSpelled`): *every* entry written, stale ones
included, has an older entry or a root before it; the buffer holds no bit beyond
`bitcount`; and no pixel too many is written. Then

- each entry spells one string, found by a least counterexample among the entries
  without one (`SpellsExists`, `ChainIs`), and writing an entry changes the strings of
  none that is live (`DefineSpells`, `StringsGrow`);
- a byte read puts its bits behind those in the buffer, a code takes its own from the
  front (`RefillArrives`, `CodeTakesBits`), and the least width that fits the
  dictionary is the decoder's (`WidthIs`);
- the steps map one by one: `Refill` to `Arrive`, `Exhausted` to `Starve`, `ClearCode`
  to `Forget`, `EndCode` to `Finish`, `KnownCode` and `NextCode` to `Show`, or to
  `Refuse` when the string does not fit into the image, `UndefinedCode` to `Refuse`.
  That a walk is never too deep for the stack (`Corrupt` in `KnownCode`) follows.

*Rows*, for every height: `InterlaceInvariant`, `EveryRowIsWrittenOnce`,
`RowsAreInDisplayOrder`, and both as `RowsAreInPlace` (`RowsInPlace`). The invariant
says that the rows written are those GIF's order puts before the one the loops stand
at, and `sy` is their number; that a copied row comes from its place is then a fact
about the cardinality of that set.

*The two composed*: `ImageKeepsBoth`, that neither disturbs the other, and
`OnlyDecodedRowsAreCopied` (`CopiesDecodedRows`).

*Loading*, for any blocks, canvas and limits, and whatever allocation fails:
`LoadKeepsInv` (`LoadInv`), `LoadsSoundly` (`LoadIsSound`: nothing leaks, the verdict
is exact) and `SnapshotsShowLayers` (`FramesAreLayers`).

`FramesAreLayers` compares the canvas, which forgets, with a definition that looks at
all layers of the file. The invariant that connects them is `CanvasIsMarked`: a pixel
is what the *last* layer that marked it left there, where a layer that restores what
was before marks nothing. The list of images is connected with the file by counting:
image `k` is the `k`-th position that holds an image (`ImagesAreRead`), and that the
`k`-th is what it is before and after a block is appended is a fact about the
cardinality of initial segments, where one would expect an induction over the file.
`PendingIsNext` and `LoopsAreLast` do the same for the control extension that waits
and for the loop count; `HeapInStep` names the blocks of each phase. It assumes
`GifAssumption` and `BlocksAssumption`: blocks are what the parser tells apart.

### ApngProofs

*Loading and saving*, for all files, animations, canvases and limits, and whatever
fails: `ApngIsClean` (`ApngInv`: no leak on any path), `ApngFramesAreLayers`
(`FramesAreLayers`), `ApngVerdictIsExact` (`VerdictIsExact`), `ApngSavedFilesAreValid`
(`SavedFilesAreValid`) and `ApngSavedFilesLoadBack` (`SavedFilesLoadBack`). All five
follow from one invariant, `Trip`, which joins that of the loader with that of the
saver.

`Loader` connects what `apng_load` has collected with the file. The chunks read have
well-formed numbers (`FileOk`); header, palette and loop count are those of the last
such chunk (`HeadersRead`); control `k` is the `k`-th `fcTL` of the file
(`ControlsRead`), and its data are the pieces between it and the next one, or the
`IDAT`s if it stands before them (`DataRead`); `Typed` and `HeapOk` say what is there,
and allocated, in which phase. As with GIF, the `k`-th is found by counting positions,
not by induction over the file. `Pictured` is about the canvas: each pixel is what the
frames drawn so far have *left* there, which is the last opaque paint neither taken
away nor cleared (`LeftGround`) and the glazes laid over it since (`LeftGlazes`). A
frame drawn adds one layer to that and a disposal takes one away (`AddsLayer`,
`TakesLayer`).

`Saver` says of `apng_save` that, as long as the buffer could grow, it holds the head
and the first `i` controls with the data of those before, under sequence numbers that
`i` determines (`WrittenUpTo`), and that what a success put on the disk is all of it
(`WholeFile`). `SavedFilesAreValid` is then read off a file of known shape. For
`SavedFilesLoadBack`, `ReadUpTo` says that the loader has so far read a prefix of the
file on the disk; at its end `Loader` speaks of a whole file, in which the `k`-th
control and its data are those of frame `k`.

The properties carry their own hypotheses: `~Keyed` in `FramesAreLayers`, used at the
one place where a decoded sample is compared with the sample meant;
`RecordsPreserved` in the two about saved files: with other records the file on the disk
may end early or have other controls, so the lemmas on its shape, and `ReadUpTo`, stand
under it too. What is proved of the loader alone holds for any file saved.

Assumptions: `ApngAssumption` and `SaveAssumption` (numbers are naturals, palettes are
triples, a record's type is that of its chunk), `RoundTripAssumption`: a canvas within
the limits is the one that the loader's file declares, what libpng makes of a frame
that fits is one piece of its size, and a record that is a control has numbers like
any other.

*Blending*, for all samples: `BytesStayBytes`, `AlphaOnlyGrows` and
`BlendingIsSoundThere`, together `BlendingIsSound` (`BlendIsSound`). Quotients are
held between two multiples of 255 and the products bounded before anything is
compared. It assumes `BlendAssumption`: samples are bytes.

### HostsProofs

*Metadata*, for all files, blocks of records and memory failures: `MetaInvariant`
(`Spec => []MetaInv`), `ChunksAreWellPlaced` (`WellPlaced`). `MetaInv` says what the
buffer holds at every point of the two loops: nothing behind its place, neither PLTE
nor IDAT before their records are out; and that only ancillary chunks are ever
injected. `FilesAreMade` (`Making`) says more: what is in the buffer is what a
definition of the file by its two groups of records (`Injected`) has up to the present
place, for every record, including blocks that break off. `RecordsAreKept`
(`NothingLost`) follows; filtered sequences are compared by the positions they are
taken from (`KindJoins`, `KindsInFile`). `SavingAgainIsStable` (`SavingIsStable`)
needs that what was saved once is extracted whole and in order (`Remade`) and that
nothing follows `IEND` (`EndComesLast`); its hypothesis `BlocksExtracted` is that a
block which came from a `.pxl` file, and not from a PNG, has no records of the kinds
that extraction drops, since those are injected once and then not again.
`MetaAssumption` is what is known of libpng's files: the header first, a palette
before the data, at least one `IDAT`, nothing behind `IEND`; and that a block of
records has none of these.

*Qt*, in every order of calls and for files with any number of frames:
`HandlerStaysInFile` (`HandlerInv`), `PlaceIsKept` (`HandlerKeepsPlace`). `HandlerInv`
adds that nothing is decided before the device is read and that a failed decode leaves
nothing. `QtAssumption`: an animation has frames.

*FFmpeg*, for every sequence of frames and calls and whatever fails: `FfmpegSafe`
(`FfmpegInv`), `ContextsAreOwned` (`ContextsOwn`) and `FramesAllComeBack`
(`FramesComeBack`: one packet, frames in order, and due in time). `EntriesAreAccepted`
says that entry `k` is the `k`-th frame accepted, with its records unless they were
promoted; `PacketHasAll` that frames are counted until the packet is out;
`CursorInPacket` that the decoder stands behind what it has shown. For the times,
`av_reduce` is exact where two terms can tell the duration (`ReducedExact`), a delay
becomes ticks by one rounding down (`TicksOf`), and so the next picture comes early by
at most one tick for each frame before it (`NextInTime`), a sum that each frame shown
extends by its own term. `FfmpegAssumption`: the array starts with room for a frame,
the timebase is a positive fraction.

*WASM*, for any page size, alignment and limits: `WasmSafe` (`WasmInv`), `HeapIsSound`
(`WasmIsSound`). Blocks are apart because each ends below the next (`HeapInOrder`),
and in memory because `malloc` grows it by the pages that are missing, rounded up. All
of it is conditional on no address having wrapped. `WasmAssumption`: the memory the
host may grow fits the word, the heap's base is aligned.

*pxltool with the PNG load and save*, for PNGs of any size, type, depth, palette and
transparency, and whatever fails: `ToolSafe` (`ToolInv`), `ToolKeepsItsWord`
(`ToolIsSound`) and `PngsComeBack` (`PngComesBack`). `ToolInv` says what a command
holds at each stage, through `LoadInOrder` and `SaveInOrder` (what a load or save
holds at each call of libpng). `RoundTripInv` says that, as long as nothing ran out,
what is loaded is the file's image (`LoadedImage`), field by field as the load sets
them (`LoadedSoFar`), that the file of `c` holds it, and what `d` decodes from that is
savable (`PicturesSave`). `PngAssumption` gives the ranges of a PNG's fields and
`PngFilesAssumption` what libpng guarantees of a file that it reads to its end: depths
that fit the type, a palette that the depth can address, no more alphas than entries.

### Only model-checked

- Liveness under fairness (`FeedingLeadsOn`, `CallsReturn`): that calls return and
  files fed to their end are accepted. The prover's temporal backend does not do
  well-founded arguments, nor does it know `ENABLED`. What carries these properties is
  proved: a row decoded is not left waiting and no byte is dropped (`NothingWaits`).
- That the small definitions which the modules take for a library's behaviour are
  those of zstd, libpng, FFmpeg or Qt: nothing here can show that.

## 5. Not modelled

- Bytes of headers, blocks and chunks, their reading and writing as files, and
  the compressors: their results are chosen.
- The sub-block framing of GIF and CRCs of PNG, which the loader skips.
- FFmpeg's still codec (one frame in, one packet out, no state), the probe, demuxer
  and muxer (the file passes as one packet), pixel formats and dictionaries.
- KDE's thumbnailer, Qt's pixel layouts, the plugin factory.
- The string functions of the WASM shim, and its `realloc`, which nothing calls.
- pxltool's printing and measuring commands and its argument parsing; predlab.
- The PSP viewer: hardware, display lists and timers around the push decoder, and
  22,000 lines of generated test data. Benchmarks, vendored QOI, tests and fuzzers keep
  no state of the library.

## 6. Plan

The list above was followed to its end: each part that carries state of its own has a
module, each safety property a theorem. What could come next:

1. FFmpeg's demuxer and muxer, if they are to do more than pass a file on.
2. A reader of `pxl_stream_image` while the image fills, once its contract is settled
   (see the disagreement about `pxl_codec_decode.c:905`).
3. The six findings and the three disagreements that properties except: when one is
   fixed in the code, its run becomes one that holds, and hypotheses can go:
   `~IndexDecoded`, `PalettesAgree` and `MetadataFits` for `apxl_codec.c`, `MetadataFit`
   for the stills, `~Keyed`, `RecordsPreserved` and `~lost` for `apng.c`.
