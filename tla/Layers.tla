------------------------------- MODULE Layers --------------------------------
(***************************************************************************)
(* What an animation made of layers shows: the layers are laid over each   *)
(* other in turn, and each may be taken away, or its area cleared, before  *)
(* the next (GIF's disposal methods, APNG's dispose_op).                   *)
(*                                                                         *)
(* A layer is [area, paint, dispose]: the pixels it covers, what it puts   *)
(* on each, and what happens to it after its turn.  Paint is "solid" (it   *)
(* replaces), "glaze" (it is blended over) or "nothing" (it lets through). *)
(* A shown pixel is the sequence of the colours one sees: a solid one or   *)
(* the empty canvas, and the glazes above it.                              *)
(***************************************************************************)
EXTENDS Counting, SequencesExt, FiniteSetsExt

CONSTANT Empty  \* what an empty canvas shows: no colour of any layer

\* Layer j still lies on the canvas when layer i has just been drawn.
Lies(layers, i, j, p) ==
  /\ p \in layers[j].area
  /\ layers[j].paint[p].kind # "nothing"
  /\ j = i \/ layers[j].dispose # "previous"

\* The area of layer j was cleared between its turn and that of layer i.
Cleared(layers, i, j, p) ==
  j < i /\ p \in layers[j].area /\ layers[j].dispose = "background"

\* The last layer before which nothing can be seen; 0 when there is none.
Ground(layers, i, p) ==
  Max({0} \cup { j \in 1..i :
                   \/ Cleared(layers, i, j, p)
                   \/ Lies(layers, i, j, p) /\ layers[j].paint[p].kind = "solid" })

\* The layers whose glaze lies over the ground g.
Glazes(layers, i, g, p) ==
  { j \in (g + 1)..i : Lies(layers, i, j, p) /\ layers[j].paint[p].kind = "glaze" }

\* The colours seen at pixel p when layer i has been drawn.
Shown(layers, i, p) ==
  LET g      == Ground(layers, i, p)
      base   == IF g = 0 \/ Cleared(layers, i, g, p) THEN Empty
                                                     ELSE layers[g].paint[p].colour
      glazes == Glazes(layers, i, g, p)
  IN  <<base>> \o [n \in 1..Cardinality(glazes) |->
                     layers[Nth(glazes, n)].paint[p].colour]
==============================================================================
