------------------------------ MODULE RowSource ------------------------------
(***************************************************************************)
(* What a progressive .pxl decoder promises its caller (pxl.h, "Streaming  *)
(* (progressive) decode"): the rows of a picture appear from the top, each *)
(* once and only if it is valid; the verdict `complete' is given only for  *)
(* a whole picture of which every row was shown, and is never withdrawn.   *)
(* How the file is cut into chunks plays no part.                          *)
(***************************************************************************)
EXTENDS Integers

VARIABLES
  picture,  \* [height, valid, whole]: its rows, those a decoder may show, and
            \* whether the file holds exactly this picture
  shown,    \* how many rows the caller has seen
  verdict   \* the last answer to "is it complete?"

vars == <<picture, shown, verdict>>

Pictures(p) ==
  /\ p.height \in Nat
  /\ p.valid \subseteq 0..(p.height - 1)
  /\ p.whole => p.valid = 0..(p.height - 1)

Init ==
  /\ Pictures(picture)
  /\ shown = 0
  /\ verdict = "not_asked"

\* The next rows become visible; they have to be valid.
Advance ==
  /\ shown' \in shown..picture.height
  /\ shown..(shown' - 1) \subseteq picture.valid

Show ==
  /\ verdict # "complete"
  /\ Advance
  /\ UNCHANGED <<picture, verdict>>

\* The question may itself bring the last rows.
Accept ==
  /\ picture.whole
  /\ Advance
  /\ shown' = picture.height
  /\ verdict' = "complete"
  /\ UNCHANGED picture

Refuse ==
  /\ verdict # "complete"
  /\ verdict' = "incomplete"
  /\ UNCHANGED <<picture, shown>>

Next == Show \/ Accept \/ Refuse

Spec == Init /\ [][Next]_vars
==============================================================================
