------------------------------ MODULE ApngBlend ------------------------------
(***************************************************************************)
(* BLEND_OVER in apng_load of apng.c, one colour channel of one pixel: the *)
(* sample of a frame is laid over the canvas, frame after frame.  All      *)
(* quotients are rounded down, in 32 bits, and stored in 8.                *)
(***************************************************************************)
EXTENDS Integers

CONSTANTS Colours, Alphas  \* what samples may have

ASSUME BlendAssumption == Colours \subseteq 0..255 /\ Alphas \subseteq 0..255

VARIABLES
  s, sa,  \* the sample drawn last, and its alpha
  d, da   \* the canvas, and its alpha

blendVars == <<s, sa, d, da>>

uint8(v) == v % 256

BlendInit == s = 0 /\ sa = 0 /\ d = 0 /\ da = 0

\* The alpha that the sample leaves: at most 255, and 0 for no sample with one.
OutAlphaSum(a, b) == a + b
OutAlpha(a, b) == a + (b * (255 - a)) \div 255

\* The colours weighted by their alphas.
Weighted(x, a, y, b) == x * a + (y * b * (255 - a)) \div 255

Replace ==
  /\ sa' = 255
  /\ d' = s' /\ da' = 255

Keep ==
  /\ sa' = 0
  /\ UNCHANGED <<d, da>>

Over ==
  /\ sa' \notin {0, 255}
  /\ da' = uint8(OutAlpha(sa', da))
  /\ d' = uint8(Weighted(s', sa', d, da) \div OutAlpha(sa', da))

Lay(x, a) ==
  /\ s' = x /\ sa' = a
  /\ Replace \/ Keep \/ Over

BlendNext == \E x \in Colours, a \in Alphas : Lay(x, a)

BlendSpec == BlendInit /\ [][BlendNext]_blendVars

------------------------------------------------------------------------------
(* Properties                                                                *)

BlendTypeOK == {s, sa, d, da} \subseteq 0..255

\* c lies between the colours that were blended.
Between(c, x, y) == (x <= c /\ c <= y) \/ (y <= c /\ c <= x)

\* Drawing never makes a pixel more transparent than it was, nor than the sample.
AlphaNeverFalls == [][da' >= da /\ da' >= sa']_blendVars

\* Where nothing is blended twice, rounding does no harm: over an opaque canvas
\* the colour lies between the two, and over a clear one it is the sample's.
ExactOverOpaqueAndClear ==
  [][ sa' # 0 =>
        /\ da = 255 => Between(d', s', d)
        /\ da = 0 => d' = s' ]_blendVars

\* What rounding leaves sound.
BlendIsSound == AlphaNeverFalls /\ ExactOverOpaqueAndClear

\* The comment: "Standard source-over with 8-bit alpha."  Source-over is a
\* weighted mean of the two colours, so never darker than both.
NeverDarker == [][sa' # 0 /\ da # 0 => d' >= s' \/ d' >= d]_blendVars
==============================================================================
