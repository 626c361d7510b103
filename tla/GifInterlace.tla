---------------------------- MODULE GifInterlace -----------------------------
(***************************************************************************)
(* deinterlace of gif.c: the rows of an interlaced image arrive in four    *)
(* passes and are copied to where they are displayed.                      *)
(***************************************************************************)
EXTENDS Integers, FiniteSets

CONSTANT Heights  \* the heights an image may have

VARIABLES
  h,          \* rows of the image
  pass, row,  \* the two loops
  sy,         \* the next row of src
  dst         \* the rows of dst written so far, each with the row of src it holds

rowVars == <<h, pass, row, sy, dst>>

startHalvesFirst(p) == CASE p = 0 -> 0 [] p = 1 -> 2 [] p = 2 -> 4 [] OTHER -> 1
start(p) == CASE p = 0 -> 0 [] p = 1 -> 4 [] p = 2 -> 2 [] OTHER -> 1
step(p) == CASE p = 0 -> 8 [] p = 1 -> 8 [] p = 2 -> 4 [] OTHER -> 2

RowsInit ==
  /\ h \in Heights /\ h \in Nat \ {0}
  /\ pass = 0 /\ row = start(0) /\ sy = 0
  /\ dst = [r \in {} |-> 0]

CopyRow ==
  /\ pass < 4 /\ row < h
  /\ dst' = [r \in DOMAIN dst \cup {row} |-> IF r = row THEN sy ELSE dst[r]]
  /\ sy' = sy + 1
  /\ row' = row + step(pass)
  /\ UNCHANGED <<h, pass>>

NextPass ==
  /\ pass < 4 /\ row >= h
  /\ pass' = pass + 1
  /\ row' = start(pass + 1)
  /\ UNCHANGED <<h, sy, dst>>

RowsNext == CopyRow \/ NextPass

RowsSpec == RowsInit /\ [][RowsNext]_rowVars

------------------------------------------------------------------------------
(* GIF's order: by pass, and from the top within a pass.                     *)

PassOf(r) == CASE r % 8 = 0 -> 0 [] r % 8 = 4 -> 1 [] r % 4 = 2 -> 2 [] OTHER -> 3

Precedes(q, r) == PassOf(q) < PassOf(r) \/ (PassOf(q) = PassOf(r) /\ q < r)

Rows == 0..(h - 1)

\* Row r is the how-many-th to arrive.
Arrival(r) == Cardinality({ q \in Rows : Precedes(q, r) })

\* The rows that the loops have passed.
Passed == { r \in Rows : PassOf(r) < pass \/ (PassOf(r) = pass /\ r < row) }

------------------------------------------------------------------------------
(* Properties                                                                *)

RowsTypeOK ==
  /\ h \in Heights /\ h \in Nat \ {0}
  /\ pass \in 0..4 /\ row \in Nat /\ sy \in Nat
  /\ DOMAIN dst \subseteq Rows

\* The loops stand at a row of their pass, and have written exactly the rows
\* that GIF's order puts before it, having read as many.
InterlaceInv ==
  /\ RowsTypeOK
  /\ pass < 4 => row % step(pass) = start(pass)
  /\ DOMAIN dst = Passed
  /\ sy = Cardinality(DOMAIN dst)

\* Every row of dst is written once and from within src, and when the loops end
\* none is left as malloc returned it.
EachRowOnce ==
  /\ (pass < 4 /\ row < h) => row \notin DOMAIN dst /\ sy < h
  /\ pass = 4 => DOMAIN dst = Rows /\ sy = h

\* Each row is displayed where GIF's order says.
InDisplayOrder == \A r \in DOMAIN dst : dst[r] = Arrival(r)

\* deinterlace puts every row, once, to where GIF's order of rows says.
RowsInPlace == EachRowOnce /\ InDisplayOrder
==============================================================================
