----------------------------- MODULE MCApxlAnim -----------------------------
(***************************************************************************)
(* The animation codec on small animations: two pixels, at most two        *)
(* frames, a palette of two entries and a hash table of four slots in      *)
(* which colours collide and probing wraps round.                          *)
(***************************************************************************)
EXTENDS ApxlAnim

RgbColours  == { r + RgbValues * Opaque : r \in 0..(RgbValues - 1) }
RgbaColours == { r + RgbValues * a : r \in {0, 1}, a \in 0..Opaque }

\* All but some colours start at the last slot.
SmallHash ==
  [ c \in 0..(RgbValues * AlphaValues - 1) |-> IF Rgb(c) = 1 THEN 0 ELSE HashSlots - 1 ]

Frame(i, px, channels, bpc, pal, alpha) ==
  [ buf |-> Ptr(<<"pixels", i>>), px |-> px, channels |-> channels,
    bytes_per_channel |-> bpc, palette |-> pal, palette_alpha |-> alpha,
    delay |-> i ]

\* An animation whose frames own their pixels, and no palette.
Anim(frames, channels, bpc, metadata) ==
  [ frames |-> frames, channels |-> channels, bytes_per_channel |-> bpc,
    pixels |-> 2, loop_count |-> 1, palette |-> <<>>, palette_alpha |-> <<>>,
    metadata |-> metadata, storage |-> FALSE ]

Pictures(samples) == [1..2 -> samples]

Plain(px, channels, bpc, metadata) ==
  Anim([i \in DOMAIN px |-> Frame(i, px[i], channels, bpc, <<>>, <<>>)],
       channels, bpc, metadata)

\* RGB and RGBA animations of one or two frames.
Coloured ==
  { Plain(px, 3, 1, m) : px \in [1..1 -> Pictures(RgbColours)]
                             \cup [1..2 -> Pictures(RgbColours)], m \in {<<>>} }
    \cup { Plain(px, 4, 1, m) : px \in [1..1 -> Pictures(RgbaColours)]
                                    \cup [1..2 -> Pictures(RgbaColours)], m \in {<<1>>} }

\* Gray, 16 bits, and two frames that do not match each other.
Other ==
  { Plain(px, 1, bpc, m) : px \in [1..2 -> Pictures({0, 1})], bpc \in {1, 2}, m \in {<<>>} }
    \cup { Anim(<<Frame(1, p, 3, 1, <<>>, <<>>), Frame(2, <<0, 1>>, 1, 1, <<>>, <<>>)>>, 3, 1, <<>>)
             : p \in Pictures(RgbColours) }

\* Indices, with palettes that may differ from frame to frame.
PalettePairs == { <<<<0, 1>>, <<>>>>, <<<<0, 1>>, <<0>>>>, <<<<1>>, <<>>>>, <<<<0, 1, 2>>, <<>>>> }

IndexedAnims ==
  { Anim(<<Frame(1, p, 1, 1, x[1], x[2]), Frame(2, q, 1, 1, y[1], y[2])>>, 1, 1, m)
      : p, q \in Pictures({0, 1}), x, y \in PalettePairs, m \in {<<1>>} }

\* Metadata that just fit their field in the header, and that do not.
Annotated ==
  { Plain(<<p>>, 3, 1, [i \in 1..n |-> 1])
      : p \in Pictures(RgbColours), n \in {Uint32Max, Uint32Max + 1, Uint32Max + 2} }

AllAnims == Coloured \cup Other \cup IndexedAnims \cup Annotated

\* The hypothesis of the proof that nothing is lost.
ASSUME AgreementAssumption == Assembled = AllAnims => PalettesAgree

\* A first frame without a palette, and a second one with.
MixedAnims ==
  { Anim(<<Frame(1, p, 1, 1, <<>>, <<>>), Frame(2, q, 1, 1, <<0, 1>>, <<>>)>>, 1, 1, <<>>)
      : p, q \in Pictures({0, 1}) } \cup IndexedAnims

\* Files from elsewhere: sound, with an index behind the palette, or malformed.
File(px, channels, pal) ==
  [ frames |-> px, delays |-> [i \in DOMAIN px |-> i], channels |-> channels,
    bytes_per_channel |-> 1, pixels |-> 2, loop_count |-> 0, palette |-> pal,
    palette_alpha |-> <<>>, metadata |-> <<1>>,
    raw_byte_count |-> 2 * channels * Len(px), well_formed |-> TRUE,
    whole |-> TRUE, ours |-> FALSE ]

GoodFiles ==
  { File(<<<<0, 1>>>>, 1, <<>>), File(<<<<0, 1>>, <<1, 0>>>>, 1, <<0, 1>>),
    File(<<<<0, 3>>>>, 1, <<0, 1>>) }
    \cup { File(<<p, p>>, 3, <<>>) : p \in Pictures(RgbColours) }

BadFiles ==
  LET f == File(<<<<0, 1>>>>, 1, <<0, 1>>)
  IN  { [f EXCEPT !.well_formed = FALSE], [f EXCEPT !.whole = FALSE],
        [f EXCEPT !.raw_byte_count = 1], [f EXCEPT !.channels = 2],
        [f EXCEPT !.palette = <<0, 1, 2>>],
        [f EXCEPT !.palette_alpha = <<0, 0, 0>>],
        [f EXCEPT !.pixels = 9] }

AllFiles == GoodFiles \cup BadFiles
NoFiles == {}

MayRunOut == BOOLEAN
NeverOut == {FALSE}
==============================================================================
