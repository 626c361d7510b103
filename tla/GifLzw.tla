------------------------------- MODULE GifLzw --------------------------------
(***************************************************************************)
(* gif_lzw_decode and lzw_read_bits of gif.c: GIF's variable-width LZW,    *)
(* read from the concatenated sub-blocks of one image.                     *)
(*                                                                         *)
(* The bytes of the input are chosen when they are read, so that every     *)
(* input is a behaviour.  One turn of for (;;) is some steps of Refill and *)
(* then the step of the code that was read.                                *)
(***************************************************************************)
EXTENDS Integers, Sequences, Counting

CONSTANTS
  BYTE_BITS,      \* bits of an input byte (8 in the code)
  MAX_CODE_BITS,  \* widest code (12 in the code)
  MinCodeSizes,   \* the values of the code-size byte (any byte in a file)
  OutLens,        \* the pixel counts w * h an image may have
  InLens          \* the lengths of its data

ASSUME LzwAssumption ==
  /\ BYTE_BITS \in Nat \ {0} /\ MAX_CODE_BITS \in Nat \ {0}
  /\ MinCodeSizes \subseteq Nat /\ InLens \subseteq Nat
  /\ \A m \in MinCodeSizes : m \in 2..8 => m < MAX_CODE_BITS
  /\ OutLens \subseteq Nat \ {0}

\* The arithmetic of powers that the provers lack.
ASSUME PowersAssumption ==
  2 ^ 0 = 1 /\ \A n \in 0..(MAX_CODE_BITS + BYTE_BITS) : 2 ^ (n + 1) = 2 * 2 ^ n

VARIABLES
  min_code_size, out_len, in_len,   \* the call's arguments
  bitbuf, bitcount, pos,            \* struct lzw_bits
  table,                            \* the entries written so far, stale ones included
  code_size, next_code, prev_code,
  out,                              \* the pixels written
  result                            \* running | ok | failed

argVars   == <<min_code_size, out_len, in_len>>
bitVars   == <<bitbuf, bitcount, pos>>
tableVars == <<table, code_size, next_code>>
vars      == <<argVars, bitVars, tableVars, prev_code, out, result>>

LZW_MAX_CODE == 2 ^ MAX_CODE_BITS

clear_code == 2 ^ min_code_size
end_code   == clear_code + 1

Running == result = "running"

Init ==
  /\ min_code_size \in MinCodeSizes
  /\ out_len \in OutLens /\ in_len \in InLens
  /\ bitbuf = 0 /\ bitcount = 0 /\ pos = 0
  /\ table = [c \in 0..(clear_code - 1) |-> [prefix |-> -1, suffix |-> c]]
  /\ code_size = min_code_size + 1
  /\ next_code = end_code + 1
  /\ prev_code = -1
  /\ out = <<>>
  /\ result = IF min_code_size < 2 \/ min_code_size > 8 THEN "failed" ELSE "running"

------------------------------------------------------------------------------
(* lzw_read_bits: least significant bit first, across bytes.                 *)

RefillHighFirst(byte) ==
  /\ Running /\ bitcount < code_size /\ pos < in_len
  /\ bitbuf' = bitbuf * 2 ^ BYTE_BITS + byte
  /\ bitcount' = bitcount + BYTE_BITS
  /\ pos' = pos + 1
  /\ UNCHANGED <<argVars, tableVars, prev_code, out, result>>

Refill(byte) ==
  /\ Running /\ bitcount < code_size /\ pos < in_len
  /\ bitbuf' = bitbuf + byte * 2 ^ bitcount
  /\ bitcount' = bitcount + BYTE_BITS
  /\ pos' = pos + 1
  /\ UNCHANGED <<argVars, tableVars, prev_code, out, result>>

\* The data ends within a code.
Exhausted ==
  /\ Running /\ bitcount < code_size /\ pos >= in_len
  /\ result' = "failed"
  /\ UNCHANGED <<argVars, bitVars, tableVars, prev_code, out>>

Code == bitbuf % 2 ^ code_size

\* A code of the present width has been read.
ReadCode ==
  /\ Running /\ bitcount >= code_size
  /\ bitbuf' = bitbuf \div 2 ^ code_size
  /\ bitcount' = bitcount - code_size
  /\ UNCHANGED <<argVars, pos>>

------------------------------------------------------------------------------
(* What a code does.                                                         *)

\* The walk along the prefixes, already in the order it is emitted.  The
\* stack holds LZW_MAX_CODE bytes and a longer walk is refused.
Chain(entries, c) ==
  LET string[d \in DOMAIN entries] ==
        IF entries[d].prefix < 0
          THEN <<entries[d].suffix>>
          ELSE Append(string[entries[d].prefix], entries[d].suffix)
  IN  string[c]

Expand(c) == Chain(table, c)

\* A new string is defined while the code space has room; the width follows
\* the table, not the codes seen.
Define(prefix, suffix) ==
  IF next_code < LZW_MAX_CODE
    THEN /\ table' = [c \in DOMAIN table \cup {next_code} |->
                        IF c = next_code THEN [prefix |-> prefix, suffix |-> suffix]
                                         ELSE table[c]]
         /\ next_code' = next_code + 1
         /\ code_size' = IF next_code + 1 = 2 ^ code_size /\ code_size < MAX_CODE_BITS
                           THEN code_size + 1 ELSE code_size
    ELSE UNCHANGED tableVars


\* Emitting stops at the first pixel too many.
Emit(string) ==
  LET room == out_len - Len(out)
  IN  IF Len(string) <= room
        THEN out' = out \o string /\ UNCHANGED result
        ELSE out' = out \o SubSeq(string, 1, room) /\ result' = "failed"

\* A walk too deep for the stack, or a code nobody defined.
Corrupt ==
  /\ result' = "failed"
  /\ UNCHANGED <<tableVars, prev_code, out>>

ClearCodeKeepsPrevious ==
  /\ ReadCode /\ Code = clear_code
  /\ code_size' = min_code_size + 1
  /\ next_code' = end_code + 1
  /\ UNCHANGED <<table, prev_code, out, result>>

ClearCode ==
  /\ ReadCode /\ Code = clear_code
  /\ code_size' = min_code_size + 1
  /\ next_code' = end_code + 1
  /\ prev_code' = -1
  /\ UNCHANGED <<table, out, result>>

EndCodeAnyLength ==
  /\ ReadCode /\ Code = end_code
  /\ result' = "ok"
  /\ UNCHANGED <<tableVars, prev_code, out>>

EndCode ==
  /\ ReadCode /\ Code = end_code
  /\ result' = IF Len(out) = out_len THEN "ok" ELSE "failed"
  /\ UNCHANGED <<tableVars, prev_code, out>>

StringCode == Code \notin {clear_code, end_code}

KnownCode ==
  /\ ReadCode /\ StringCode /\ Code < next_code
  /\ LET string == Expand(Code)
     IN  IF Len(string) > LZW_MAX_CODE
           THEN Corrupt
           ELSE /\ IF prev_code >= 0 THEN Define(prev_code, Head(string))
                                     ELSE UNCHANGED tableVars
                /\ Emit(string)
                /\ prev_code' = IF result' = "failed" THEN prev_code ELSE Code

\* KwKwK: the code that this very step defines.
NextCode ==
  /\ ReadCode /\ StringCode /\ Code = next_code /\ prev_code >= 0
  /\ LET string == Expand(prev_code)
     IN  IF Len(string) > LZW_MAX_CODE
           THEN Corrupt
           ELSE /\ Define(prev_code, Head(string))
                /\ Emit(Append(string, Head(string)))
                /\ prev_code' = IF result' = "failed" THEN prev_code ELSE Code

UndefinedCode ==
  /\ ReadCode /\ StringCode
  /\ Code > next_code \/ (Code = next_code /\ prev_code < 0)
  /\ Corrupt

Next ==
  \/ \E byte \in 0..(2 ^ BYTE_BITS - 1) : Refill(byte)
  \/ Exhausted
  \/ ClearCode \/ EndCode \/ KnownCode \/ NextCode \/ UndefinedCode

Spec == Init /\ [][Next]_vars

------------------------------------------------------------------------------
(* Properties                                                                *)

\* The codes that have a string now: the roots, and what was defined since the
\* last clear code.  Entries of an earlier table lie beyond them, unused.
Live == 0..(clear_code - 1) \cup (end_code + 1)..(next_code - 1)

\* Every live entry was written, and its prefix is an older live code: a walk
\* ends at a root, never reads an entry malloc left as it was, and never needs
\* more stack than there are codes.
ChainsDescend ==
  Running =>
    /\ Live \subseteq DOMAIN table
    /\ \A c \in Live : table[c].prefix \in {-1} \cup {d \in Live : d < c}
    /\ prev_code \in {-1} \cup Live

\* Every live code, and the next one, can be spelled with the present width, and
\* no narrower width would do: reader and table never fall out of step.
WidthFits ==
  Running =>
    /\ code_size \in (min_code_size + 1)..MAX_CODE_BITS
    /\ next_code <= 2 ^ code_size
    /\ next_code = 2 ^ code_size => code_size = MAX_CODE_BITS
    /\ code_size > min_code_size + 1 => next_code >= 2 ^ (code_size - 1)

\* What a running call keeps: chains that descend and a width that fits, whatever
\* codes the data hold.
LzwInv ==
  Running =>
    /\ min_code_size \in 2..8 /\ min_code_size < MAX_CODE_BITS
    /\ bitbuf \in Nat /\ bitcount \in Nat
    /\ next_code \in (end_code + 1)..LZW_MAX_CODE
    /\ prev_code \in Int
    /\ \A c \in DOMAIN table : c \in Nat /\ table[c].prefix \in Int
    /\ 0..(clear_code - 1) \subseteq DOMAIN table
    /\ \A c \in 0..(clear_code - 1) : table[c].prefix = -1
    /\ ChainsDescend
    /\ WidthFits

\* And what the strings and the bits rest on: each entry, stale or not, ends in a
\* root, the buffer holds no more bits than are counted, and no pixel too many is
\* written.
SpellInv ==
  /\ out_len \in Nat /\ in_len \in Nat /\ pos \in 0..in_len
  /\ Running =>
       /\ bitcount < MAX_CODE_BITS + BYTE_BITS /\ bitbuf < 2 ^ bitcount
       /\ DOMAIN table \subseteq 0..(LZW_MAX_CODE - 1)
       /\ \A c \in DOMAIN table :
            /\ table[c].suffix \in Nat
            /\ table[c].prefix \in {-1} \cup { d \in DOMAIN table : d < c }
       /\ \A c \in 0..(clear_code - 1) : table[c].suffix = c
       /\ out \in Seq(Nat) /\ Len(out) <= out_len

------------------------------------------------------------------------------
(* The decoder is LZW.                                                       *)

\* The bits of a buffer, the next one first, and the strings of the codes between two.
Bits(buf, n) == [i \in 1..n |-> (buf \div 2 ^ (i - 1)) % 2]
Strings(entries, e, n) == [i \in 1..(n - e - 1) |-> Chain(entries, e + i)]

Reference ==
  INSTANCE LzwStrings WITH
    min    <- min_code_size,
    count  <- out_len,
    bits   <- Bits(bitbuf, bitcount),
    left   <- in_len - pos,
    dict   <- IF Running THEN Strings(table, end_code, next_code) ELSE <<>>,
    last   <- IF Running /\ prev_code >= 0 THEN Expand(prev_code) ELSE <<>>,
    pixels <- out,
    answer <- result

\* Whatever the bytes, the pixels and the verdict are those of the textbook
\* algorithm on strings, which has no table, no chains and no stack.
ImplementsLzw == Reference!Spec
==============================================================================
