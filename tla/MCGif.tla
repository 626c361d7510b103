-------------------------------- MODULE MCGif --------------------------------
(***************************************************************************)
(* The two levels of the GIF reader, one run each: `part' says whether the *)
(* data of one image are decoded or the blocks of a file are loaded.       *)
(* Images have every content, or are long ones of one colour, whose codes  *)
(* fill the table; files have a canvas of two pixels.                      *)
(***************************************************************************)
EXTENDS GifImage, GifLoad, TLC

CONSTANTS
  ShortImage,  \* the pixels up to which an image may have any data
  ShortData    \* and the bytes of such data

VARIABLE part

\* A long image has the data it needs, no clear code among them, and of its codes
\* each is 0 or the newest.
SensibleImage ==
  IF out_len <= ShortImage
    THEN in_len <= ShortData
    ELSE /\ in_len > ShortData /\ min_code_size = 2
         /\ prev_code \in {-1, 0, next_code - 1}
         /\ prev_code = -1 => out = <<>> /\ next_code = end_code + 1
         /\ result # "failed"

Sizes == h = out_len \/ (out_len = 6 /\ h = 3)

Left  == <<0, 0>>
Right == <<1, 0>>

Gce(disposal, transparent, delay) ==
  [kind |-> "gce", disposal |-> disposal, transparent |-> transparent, delay |-> delay]

Image(x, wide, indices) ==
  [kind |-> "image", x |-> x, y |-> 0, w |-> wide, h |-> 1, indices |-> indices,
   table |-> <<>>, decodes |-> TRUE]

Wide(l, r) == Image(0, 2, (Left :> l) @@ (Right :> r))
OnLeft(l)  == Image(0, 1, (Left :> l))
OnRight(r) == Image(1, 1, (Right :> r))

Plain(kind) == [kind |-> kind]
Trailer == Plain("trailer")

\* Files that tell the disposals apart.
LayerBlocks ==
  { Gce(2, -1, 1), Gce(3, -1, 2), Gce(2, 1, 3), Wide(0, 1), OnLeft(1), Trailer }

\* Files with everything else: local tables, indices beyond a table, images
\* that lie outside, do not decode or have no table.
OddBlocks ==
  { Gce(1, 2, 5), Gce(3, 1, 1), Wide(2, 1), OnLeft(1),
    [OnRight(1) EXCEPT !.table = <<"c">>],
    Image(1, 2, (Left :> 0)), [OnLeft(0) EXCEPT !.decodes = FALSE],
    Plain("other"), Plain("broken"), Trailer,
    [kind |-> "netscape", valid |-> TRUE, loops |-> 0],
    [kind |-> "netscape", valid |-> TRUE, loops |-> 3],
    [kind |-> "netscape", valid |-> FALSE, loops |-> 0] }

AllBlocks == LayerBlocks \cup OddBlocks

\* The first in any order, with memory enough; the others in short files.
SensibleFile ==
  \/ Range(file) \subseteq LayerBlocks /\ ~starved
  \/ Range(file) \subseteq OddBlocks /\ Len(file) <= 4

\* The image that is not decoded while a file is loaded.
IdleImage == min_code_size = 2 /\ out_len = 1 /\ in_len = 3

MCInit ==
  /\ part \in {"image", "file"}
  /\ ImageInit /\ LoadInit
  /\ part = "image" => Sizes /\ SensibleImage
  /\ part = "file" => IdleImage

MCNext ==
  \/ part = "image" /\ ImageNext /\ SensibleImage' /\ UNCHANGED <<part, loadVars>>
  \/ part = "file" /\ LoadNext /\ SensibleFile' /\ UNCHANGED <<part, imageVars>>

MCSpec == MCInit /\ [][MCNext]_<<part, imageVars, loadVars>>

TwoColours == <<"a", "b">>
MayRunOut == BOOLEAN
==============================================================================
