---------------------------- MODULE ApngRoundTrip ----------------------------
(***************************************************************************)
(* apng_save and apng_load, one behind the other: a file that was saved,   *)
(* whole or not, is loaded; or a foreign file is.                          *)
(***************************************************************************)
EXTENDS ApngSave, ApngLoad

\* A canvas within the limits is the one that files declare, libpng makes one piece
\* of data of a frame that fits it, and a record is a chunk that can be read.
ASSUME RoundTripAssumption ==
  \A a \in Animations :
    /\ a.size = "canvas" => a.w = Width /\ a.h = Height
    /\ \A n \in 1..Len(a.frames) :
         LET frame == a.frames[n]
         IN  Writable(frame) =>
               /\ frame.picture.w = a.w /\ frame.picture.h = a.h
               /\ frame.picture.parts = 1
    /\ \A r \in Range(a.metadata) : r = CutOff \/ NumbersOk(r.chunk)

RoundTripInit ==
  /\ Init /\ SaveInit
  /\ at \in {"foreign", "begin"}

\* The chunk that apng_load reads next; behind the last the data end.
NextOnDisk ==
  IF Len(file) < Len(disk) THEN disk[Len(file) + 1] ELSE [kind |-> "end"]

SaveFirst == SaveNext /\ UNCHANGED vars

LoadForeign ==
  /\ at = "foreign"
  /\ \E c \in FileChunks : ReadChunk(c)
  /\ UNCHANGED saveVars

LoadSaved ==
  /\ at = "saved" /\ disk # <<>>
  /\ ReadChunk(NextOnDisk)
  /\ UNCHANGED saveVars

LoadOn == LoadStep /\ UNCHANGED saveVars

RoundTripNext == SaveFirst \/ LoadForeign \/ LoadSaved \/ LoadOn

RoundTripSpec == RoundTripInit /\ [][RoundTripNext]_<<vars, saveVars>>

\* Neither side leaves a block behind, or is in a state its code has no name for.
ApngInv == LoadInv /\ SaveInv

\* A sample of the animation that was saved: the palette has alphas, or is opaque.
SavedSample(s) == IF Indexed /\ ~anim.alpha THEN [s EXCEPT !.alpha = "opaque"] ELSE s

\* A saved file loads again, with memory enough and metadata that extraction
\* preserves, and shows the animation that was saved: frames, delays, number of
\* plays, and whether there are metadata; all but sBIT come back.
SavedFilesLoadBack ==
  (RecordsPreserved /\ pc = "done" /\ ~starved /\ ok /\ ~lost /\ anim.size = "canvas") =>
    /\ loaded
    /\ Len(shots) = Len(anim.frames)
    /\ \A k \in 1..Len(shots) :
         /\ shots[k].pixels =
              [p \in Pixels |-> <<SavedSample(anim.frames[k].picture.px[p])>>]
         /\ shots[k].delay = anim.frames[k].delay
    /\ num_plays = anim.plays
    /\ metadata <=> \E n \in 1..Len(Records) : ~IsDroppedType(Records[n].type, FALSE)
==============================================================================
