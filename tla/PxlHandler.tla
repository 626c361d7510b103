------------------------------ MODULE PxlHandler ----------------------------
(***************************************************************************)
(* The Qt image handler of the KDE plugin (kde/pxl_handler.cpp).  Qt calls *)
(* it in any order: QImageReader and QMovie ask for the count, the size or *)
(* the animation option before they read, and may jump before or after.    *)
(*                                                                         *)
(* A file is [kind, delays, loops]: "still", "animated" or "other" by its  *)
(* header, and the delays, <<num, den>>, and the loop count of an          *)
(* animation.  Whether its body decodes is up to libpxl.                   *)
(***************************************************************************)
EXTENDS Integers, Sequences

CONSTANTS
  QtFiles,     \* what a device may hold
  QtNoMemory   \* the outcomes of pxl_image_expand's allocation

\* libpxl decodes no animation without a frame.
QtAssumption ==
  \A f \in QtFiles :
    /\ f \in [kind : {"still", "animated", "other"}, delays : Seq(Nat \X Nat), loops : Nat]
    /\ f.kind = "animated" => Len(f.delays) > 0

ASSUME QtAssumption

VARIABLES
  dev,            \* the device: [file, at_end]
  kind, decode_attempted, decode_ok, current_image,  \* m_kind ... m_currentImage
  decoded,        \* the libpxl structures that are to be freed
  answer          \* the call that returned last: [op, value], values being numbers

handlerVars ==
  <<dev, kind, decode_attempted, decode_ok, current_image, decoded, answer>>

NoAnswer == [op |-> "none", value |-> 0]

HandlerInit ==
  /\ \E f \in QtFiles : dev = [file |-> f, at_end |-> FALSE]
  /\ kind = "Unknown" /\ decode_attempted = FALSE /\ decode_ok = FALSE
  /\ current_image = 0 /\ decoded = {} /\ answer = NoAnswer

FileFrames == Len(dev.file.delays)

\* true and false, as numbers
Bool(b) == IF b THEN 1 ELSE 0

Answers(op, value) == answer' = [op |-> op, value |-> value]

------------------------------------------------------------------------------
(* ensureDecoded: once, whatever comes of it.                                *)

Decoding(ok) ==
  /\ decode_attempted' = TRUE
  /\ dev' = [dev EXCEPT !.at_end = TRUE]
  /\ decode_ok' = ok
  /\ kind' = IF ~ok THEN "Unknown"
             ELSE IF dev.file.kind = "still" THEN "Still" ELSE "Animated"
  /\ decoded' = IF ok THEN {kind'} ELSE {}

EnsureDecoded ==
  IF decode_attempted
    THEN UNCHANGED <<dev, kind, decode_attempted, decode_ok, decoded>>
    ELSE Decoding(FALSE) \/ (dev.file.kind # "other" /\ Decoding(TRUE))

InRange(n) == n >= 0 /\ n < FileFrames

Alive == answer.op # "destroyed"

------------------------------------------------------------------------------
(* The calls                                                                 *)

\* Before the decode it peeks at the device, and the body may still be broken.
canRead ==
  /\ Alive
  /\ Answers("canRead", Bool(
       IF decode_attempted
         THEN decode_ok /\ (kind = "Still" \/ InRange(current_image))
         ELSE dev.file.kind # "other"))
  /\ UNCHANGED <<dev, kind, decode_attempted, decode_ok, current_image, decoded>>

\* The value is the number of the frame, from 1 on, or 0.  A read moves nothing.
read ==
  /\ Alive /\ EnsureDecoded
  /\ \E oom \in QtNoMemory :
       Answers("read",
         IF ~decode_ok' \/ oom \/ (kind' = "Animated" /\ ~InRange(current_image)) THEN 0
         ELSE IF kind' = "Still" THEN 1 ELSE current_image + 1)
  /\ UNCHANGED current_image

imageCount ==
  /\ Alive /\ EnsureDecoded
  /\ Answers("imageCount", IF kind' = "Animated" THEN FileFrames ELSE 1)
  /\ UNCHANGED current_image

currentImageNumber ==
  /\ Alive /\ Answers("currentImageNumber", current_image)
  /\ UNCHANGED <<dev, kind, decode_attempted, decode_ok, current_image, decoded>>

DelayOf(n) ==
  LET delay == dev.file.delays[n]
  IN  (1000 * delay[1]) \div (IF delay[2] = 0 THEN 100 ELSE delay[2])

\* These two do not decode.
nextImageDelay ==
  /\ Alive
  /\ Answers("nextImageDelay",
       IF kind = "Animated" /\ InRange(current_image) THEN DelayOf(current_image + 1) ELSE 0)
  /\ UNCHANGED <<dev, kind, decode_attempted, decode_ok, current_image, decoded>>

loopCount ==
  /\ Alive
  /\ Answers("loopCount",
       IF kind # "Animated" THEN 0
       ELSE IF dev.file.loops = 0 THEN -1 ELSE dev.file.loops - 1)
  /\ UNCHANGED <<dev, kind, decode_attempted, decode_ok, current_image, decoded>>

jumpToImage ==
  /\ Alive /\ EnsureDecoded
  /\ \E n \in -1..3 :
       IF ~decode_ok'
         THEN Answers("jumpToImage", 0) /\ UNCHANGED current_image
       ELSE IF kind' # "Animated"
         THEN Answers("jumpToImage", Bool(n = 0)) /\ current_image' = 0
         ELSE /\ Answers("jumpToImage", Bool(InRange(n)))
              /\ current_image' = IF InRange(n) THEN n ELSE current_image

MayStepPastEnd == current_image + 1 <= FileFrames

MayStep == current_image + 1 < FileFrames

jumpToNextImage ==
  /\ Alive /\ EnsureDecoded
  /\ IF decode_ok' /\ kind' = "Animated" /\ MayStep
       THEN Answers("jumpToNextImage", 1) /\ current_image' = current_image + 1
       ELSE Answers("jumpToNextImage", 0) /\ UNCHANGED current_image

\* Animation, or whether Size is known.
option ==
  /\ Alive /\ EnsureDecoded
  /\ \/ Answers("Animation", Bool(kind' = "Animated"))
     \/ Answers("Size", Bool(decode_ok'))
  /\ UNCHANGED current_image

destroy ==
  /\ Alive
  /\ decoded' = decoded \ {kind}
  /\ Answers("destroyed", 0)
  /\ UNCHANGED <<dev, kind, decode_attempted, decode_ok, current_image>>

HandlerNext ==
  \/ canRead \/ read \/ imageCount \/ currentImageNumber \/ nextImageDelay \/ loopCount
  \/ jumpToImage \/ jumpToNextImage \/ option \/ destroy

HandlerSpec == HandlerInit /\ [][HandlerNext]_handlerVars

------------------------------------------------------------------------------
(* Properties                                                                *)

\* Whatever Qt asked before, the handler stays within the file: its place is a frame of
\* it, so that canRead says of a decoded file what read can do and the delay it tells is
\* that of the frame read shows; and the decoded file is freed with the handler.
HandlerKeepsPlace ==
  /\ decode_ok => current_image \in 0..(IF kind = "Animated" THEN FileFrames - 1 ELSE 0)
  /\ (decode_attempted /\ answer.op = "canRead") => answer.value = Bool(decode_ok)
  /\ (decode_ok /\ kind = "Animated" /\ answer.op = "nextImageDelay") =>
       answer.value = DelayOf(current_image + 1)
  /\ decoded = IF decode_ok /\ Alive THEN {kind} ELSE {}
  /\ dev.at_end <=> decode_attempted

\* What keeps it there: nothing is decided before the decode, a decode that failed leaves
\* nothing, and a still has no place but its only one.
HandlerInv ==
  /\ dev \in [file : QtFiles, at_end : BOOLEAN]
  /\ decode_attempted \in BOOLEAN /\ decode_ok \in BOOLEAN
  /\ ~decode_attempted => ~decode_ok /\ current_image = 0
  /\ ~decode_ok => kind = "Unknown"
  /\ decode_ok => kind = (IF dev.file.kind = "still" THEN "Still" ELSE "Animated")
  /\ decode_ok => dev.file.kind # "other"
  /\ HandlerKeepsPlace
==============================================================================
