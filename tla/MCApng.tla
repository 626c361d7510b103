------------------------------- MODULE MCApng --------------------------------
(***************************************************************************)
(* PNG files on a canvas of two pixels: foreign ones, and animations saved *)
(* and loaded back.  Or samples are blended, one by one (`walk').          *)
(***************************************************************************)
EXTENDS ApngRoundTrip, ApngBlend, TLC

VARIABLE walk  \* "files" or "samples": what runs; the other rests

S(colour, alpha) == [colour |-> colour, alpha |-> alpha]

Picture(w, parts, px) == [w |-> w, h |-> 1, parts |-> parts, px |-> px]

WidePicture(parts, l, r) == Picture(2, parts, (<<0, 0>> :> l) @@ (<<1, 0>> :> r))
Dot(parts, px) == Picture(1, parts, (<<0, 0>> :> px))

\* A sample of each kind meets every other.
Wide1 == WidePicture(1, S("red", "opaque"), S("blue", "half"))
Wide2 == WidePicture(2, S("none", "clear"), S("green", "opaque"))
Wide3 == WidePicture(1, S("pink", "half"), S("none", "clear"))
Wide4 == WidePicture(1, S("white", "clear"), S("green", "opaque"))
Dot1  == Dot(1, S("grey", "half"))

Piece(pic, part) == [pic |-> pic, part |-> part]

Chunk(kind) == [kind |-> kind]
Other(type, id) == [kind |-> "other", type |-> type, id |-> id]
Ihdr(size, color) == [kind |-> "IHDR", size |-> size, color |-> color]
Data(kind, pic, part) == [kind |-> kind, piece |-> Piece(pic, part)]
Fctl(x, w, dispose, blend) ==
  [kind |-> "fcTL", x |-> x, y |-> 0, w |-> w, h |-> 1, delay |-> 1,
   dispose |-> dispose, blend |-> blend]

\* Frames that tell the operations apart.
LayerChunks ==
  { Ihdr("canvas", "alpha"), Chunk("end"),
    Fctl(0, 2, "none", "source"), Fctl(0, 2, "background", "over"),
    Fctl(0, 2, "previous", "over"),
    Fctl(1, 1, "previous", "over"), Fctl(0, 1, "background", "over"),
    Fctl(0, 1, "none", "source"),
    Data("IDAT", Wide1, 1), Data("IDAT", Wide3, 1),
    Data("fdAT", Wide1, 1), Data("fdAT", Wide3, 1), Data("fdAT", Dot1, 1) }

\* Everything else, in any order.
OddChunks ==
  { Ihdr("canvas", "alpha"), Ihdr("canvas", "indexed"), Ihdr("canvas", "plain"),
    Ihdr("huge", "alpha"), Chunk("PLTE"), Chunk("tRNS"),
    [kind |-> "acTL", plays |-> 2], Other("tEXt", 1), Other("sBIT", 2), Chunk("end"),
    Fctl(0, 2, "none", "over"), Fctl(1, 2, "none", "over"),
    Data("IDAT", Wide2, 1), Data("IDAT", Wide2, 2), Data("IDAT", Wide4, 1),
    Data("fdAT", Wide2, 1), Data("fdAT", Wide2, 2) }

\* A header, then controls and data in turn.
InTurn ==
  \A n \in 1..Len(file) :
    /\ file[n].kind = "IHDR" <=> n = 1
    /\ (n > 1 /\ file[n].kind # "end") => file[n].kind # file[n - 1].kind
    /\ n > 2 => (file[n].kind \in {"IDAT", "fdAT"} => file[n - 1].kind = "fcTL")

AllChunks == LayerChunks \cup OddChunks

Short(n) == Len(file) < n \/ (Len(file) = n /\ Last(file).kind = "end")

\* Foreign files: the first in turn, with memory enough; the others in short files.
Sensible ==
  at = "foreign" =>
    \/ Short(5) /\ Range(file) \subseteq OddChunks
    \/ Short(8) /\ ~starved /\ InTurn /\ Range(file) \subseteq LayerChunks

SavedFrame(picture, delay) ==
  [picture |-> picture, has_pixels |-> TRUE, fits |-> TRUE, delay |-> delay]

Frames ==
  { <<>>,
    <<SavedFrame(Wide1, 3)>>,
    <<SavedFrame(Wide1, 3), SavedFrame(Wide3, 4), SavedFrame(Wide1, 5)>>,
    <<SavedFrame(Wide3, 3), [SavedFrame(Wide1, 4) EXCEPT !.has_pixels = FALSE]>>,
    <<SavedFrame(Wide3, 3), [SavedFrame(Wide1, 4) EXCEPT !.fits = FALSE]>> }

Record(type, chunk) == [type |-> type, chunk |-> chunk]
R(type, id) == Record(type, Other(type, id))

Animation(palette, alpha, meta, frames) ==
  [ size |-> "canvas", w |-> 2, h |-> 1, palette |-> palette, alpha |-> alpha,
    metadata |-> meta, plays |-> 2, frames |-> frames ]

\* Metadata no PNG was loaded with, from an .apxl file of another program.
ForeignBlocks ==
  { <<R("tEXt", 1), Record("IEND", Chunk("end"))>>,
    <<Record("IDAT", Data("IDAT", Wide2, 1)), R("tEXt", 2)>>,
    <<Record("fcTL", Fctl(1, 1, "none", "over")), CutOff>>,
    <<Record("PLTE", Chunk("PLTE")), Record("tRNS", Chunk("tRNS"))>>,
    <<R("bKGD", 1)>> }

\* Palettes of none, part of one, one, two and three entries.
AllAnimations ==
  { Animation(palette, alpha, meta, frames) :
      palette \in {0, 1, 3, 6, 9}, alpha \in BOOLEAN, frames \in Frames,
      meta \in { <<>>, <<R("tEXt", 1), R("gAMA", 2), R("tEXt", 3)>>,
                     <<R("sRGB", 1), CutOff, R("gAMA", 2)>>, <<R("sBIT", 1)>> } }
    \cup
    { Animation(palette, TRUE, meta, <<SavedFrame(Wide1, 3), SavedFrame(Wide3, 4)>>) :
        palette \in {0, 6}, meta \in ForeignBlocks }
    \cup { [Animation(0, FALSE, <<>>, <<SavedFrame(Wide1, 3)>>) EXCEPT !.size = "huge"] }

NoAnimation == Animation(0, FALSE, <<>>, <<>>)

MCInit ==
  /\ RoundTripInit /\ BlendInit
  /\ at = "foreign" => anim = NoAnimation
  /\ walk \in {"files", "samples"}
  /\ walk = "samples" => at = "foreign"

MCNext ==
  \/ walk = "files" /\ RoundTripNext /\ Sensible' /\ UNCHANGED <<walk, blendVars>>
  \/ walk = "samples" /\ BlendNext /\ UNCHANGED <<walk, vars, saveVars>>

MCSpec == MCInit /\ [][MCNext]_<<walk, vars, saveVars, blendVars>>

MayRunOut == BOOLEAN
==============================================================================
