----------------------------- MODULE LzwStrings ------------------------------
(***************************************************************************)
(* GIF's LZW as its definition has it: a dictionary of strings, a queue of *)
(* bits, and no table, chain, stack or bit buffer.  Code 2^min clears the  *)
(* dictionary, the next one ends the data, and every other code names a    *)
(* pixel value or an entry.  The width of a code is the least that can     *)
(* name the next entry.                                                    *)
(***************************************************************************)
EXTENDS Integers, Sequences, Counting

CONSTANTS BYTE_BITS, MAX_CODE_BITS

VARIABLES
  min, count,   \* the code size and the number of pixels of the image
  bits,         \* the bits read and not used, the next one first
  left,         \* the bytes not read yet
  dict,         \* the strings defined since the last clear code
  last,         \* the string of the previous code; empty after a clear code
  pixels,
  answer        \* running | ok | failed

Clear == 2 ^ min
End   == Clear + 1
Entry(i) == End + i

Init ==
  /\ bits = <<>> /\ dict = <<>> /\ last = <<>> /\ pixels = <<>>
  /\ left \in Nat
  /\ answer = IF min \in 2..8 THEN "running" ELSE "failed"

\* The least width that can name the entry to come, within the limit.
CodeWidth ==
  LET fits == { w \in (min + 1)..MAX_CODE_BITS : Entry(Len(dict) + 1) < 2 ^ w }
  IN  IF fits = {} THEN MAX_CODE_BITS ELSE CHOOSE w \in fits : \A v \in fits : w <= v

\* A byte arrives, its low bit first.
Arrive ==
  /\ answer = "running" /\ Len(bits) < CodeWidth /\ left > 0
  /\ \E byte \in [1..BYTE_BITS -> 0..1] : bits' = bits \o byte
  /\ left' = left - 1
  /\ UNCHANGED <<min, count, dict, last, pixels, answer>>

Number(s) == SumTo([k \in 1..Len(s) |-> s[k] * 2 ^ (k - 1)], Len(s))

NextCode == Number(SubSeq(bits, 1, CodeWidth))

HasCode == answer = "running" /\ Len(bits) >= CodeWidth

TakeCode ==
  /\ HasCode
  /\ bits' = SubSeq(bits, CodeWidth + 1, Len(bits))
  /\ UNCHANGED <<min, count, left>>

Forget ==
  /\ TakeCode /\ NextCode = Clear
  /\ dict' = <<>> /\ last' = <<>>
  /\ UNCHANGED <<pixels, answer>>

\* What a code stands for, the entry it is about to define included; a code may
\* stand for nothing.
Strings ==
  CASE NextCode < Clear                               -> { <<NextCode>> }
    [] NextCode = Entry(Len(dict) + 1) /\ last # <<>> -> { Append(last, Head(last)) }
    [] OTHER -> { dict[i] : i \in { j \in 1..Len(dict) : NextCode = Entry(j) } }

Fits(string) == Len(pixels) + Len(string) <= count

Learn(string) ==
  /\ dict' = IF last # <<>> /\ Entry(Len(dict) + 1) < 2 ^ MAX_CODE_BITS
               THEN Append(dict, Append(last, Head(string))) ELSE dict
  /\ last' = string

Show ==
  /\ TakeCode /\ NextCode \notin {Clear, End}
  /\ \E string \in Strings :
       /\ Fits(string)
       /\ pixels' = pixels \o string
       /\ Learn(string)
  /\ UNCHANGED answer

------------------------------------------------------------------------------
(* The end: what was learnt is given up.                                     *)

Stop(verdict) == answer' = verdict /\ dict' = <<>> /\ last' = <<>>

Finish ==
  /\ TakeCode /\ NextCode = End
  /\ Stop(IF Len(pixels) = count THEN "ok" ELSE "failed")
  /\ UNCHANGED pixels

\* The data ends too early.
Starve ==
  /\ answer = "running" /\ Len(bits) < CodeWidth /\ left = 0
  /\ Stop("failed")
  /\ UNCHANGED <<min, count, left, bits, pixels>>

\* A code that stands for nothing, or for more than the image still needs.
Refuse ==
  /\ TakeCode /\ NextCode \notin {Clear, End}
  /\ \A string \in Strings : ~Fits(string)
  /\ pixels' = IF Strings = {} THEN pixels
                 ELSE SubSeq(pixels \o (CHOOSE s \in Strings : TRUE), 1, count)
  /\ Stop("failed")

Next == Arrive \/ Forget \/ Show \/ Finish \/ Starve \/ Refuse

Spec == Init /\ [][Next]_<<min, count, bits, left, dict, last, pixels, answer>>
==============================================================================
