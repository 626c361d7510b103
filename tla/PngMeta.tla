------------------------------- MODULE PngMeta -------------------------------
(***************************************************************************)
(* pxl_meta.c: the ancillary chunks of a PNG are extracted into a block of *)
(* records when it is loaded, and injected into the PNG that libpng writes *)
(* when the picture is saved.  The saved file may be loaded again.         *)
(*                                                                         *)
(* What libpng writes for a picture is external: `base', a sequence of     *)
(* chunks without ancillary ones, the same whenever the picture is saved.  *)
(***************************************************************************)
EXTENDS PngChunks, Counting

CONSTANTS
  Pictures,    \* what is loaded: [png, base, keep_sbit]
  Blocks,      \* metadata blocks that come in a .pxl file
  OutOfMemory  \* the outcomes of an allocation: {FALSE} or BOOLEAN

\* A base has its header first, its palette, if any, before its data, and its end last.
IsBase(base) ==
  /\ base # <<>> /\ base[1].type = "IHDR"
  /\ \E n \in DOMAIN base : base[n].type = "IDAT"
  /\ \A n \in DOMAIN base : base[n].type = "IEND" => n = Len(base)
  /\ \A m, n \in DOMAIN base :
       /\ base[m].type \in Structural \cup {"PLTE", "tRNS"}
       /\ m < n /\ base[n].type = "PLTE" => base[m].type # "IDAT"

OfBase(c) == c.type \in Structural \cup {"PLTE", "tRNS"}

Chunk == [type : STRING, id : Nat]

ASSUME MetaAssumption ==
  /\ \A p \in Pictures :
       /\ p.png \in Seq(Chunk) /\ p.base \in Seq(Chunk) /\ p.keep_sbit \in BOOLEAN
       /\ IsBase(p.base)
  /\ \A b \in Blocks :
       b \in Seq(Chunk) /\ \A n \in DOMAIN b : ~OfBase(b[n])
  /\ OutOfMemory \subseteq BOOLEAN

VARIABLES
  pc,        \* extract | loaded | copy | early | late | put | saved
  png,       \* the file being loaded
  pos,       \* the chunk being looked at, of png or of base
  keep_sbit,
  base,
  metadata,  \* the records
  mpos,      \* the record being looked at
  bb,        \* the buffer being filled
  failed,    \* it could not grow
  early_done, inserted,
  saved,     \* the files saved so far
  starved    \* an allocation has failed

loopVars == <<pos, mpos, bb, failed, early_done, inserted>>
vars == <<pc, png, keep_sbit, base, metadata, saved, starved, loopVars>>

Init ==
  /\ \E p \in Pictures : png = p.png /\ base = p.base /\ keep_sbit = p.keep_sbit
  /\ \/ pc = "extract" /\ metadata = <<>>
     \/ pc = "loaded" /\ metadata \in Blocks
  /\ pos = 1 /\ mpos = 1 /\ bb = <<>> /\ failed = FALSE
  /\ early_done = FALSE /\ inserted = FALSE
  /\ saved = <<>> /\ starved = FALSE

PutForgetsFailure(c, oom) ==
  /\ bb' = IF oom THEN bb ELSE Append(bb, c)
  /\ failed' = oom
  /\ starved' = (starved \/ oom)

\* bb_append: after a failure nothing more is taken.
Put(c, oom) ==
  /\ bb' = IF failed \/ oom THEN bb ELSE Append(bb, c)
  /\ failed' = (failed \/ oom)
  /\ starved' = (starved \/ oom)

------------------------------------------------------------------------------
(* pxl_meta_extract.                                                         *)

MoreChunks == pos <= Len(png) /\ png[pos].type \notin {"IEND", "cut"}

ExtractChunk ==
  /\ pc = "extract" /\ MoreChunks
  /\ IF IsDroppedType(png[pos].type, keep_sbit)
       THEN UNCHANGED <<bb, failed, starved>>
       ELSE \E oom \in OutOfMemory : Put(png[pos], oom)
  /\ pos' = pos + 1
  /\ UNCHANGED <<pc, png, keep_sbit, base, metadata, mpos, early_done, inserted, saved>>

\* Without memory there are no metadata.
ExtractDone ==
  /\ pc = "extract" /\ ~MoreChunks
  /\ metadata' = IF failed THEN <<>> ELSE bb
  /\ pc' = "loaded"
  /\ UNCHANGED <<png, keep_sbit, base, saved, starved, loopVars>>

------------------------------------------------------------------------------
(* pxl_meta_inject, as pxl_save_png calls it.                                *)

\* An empty block is not injected.
Save ==
  /\ pc = "loaded"
  /\ IF metadata = <<>>
       THEN pc' = "saved" /\ saved' = Append(saved, base) /\ UNCHANGED loopVars
       ELSE /\ pc' = "copy"
            /\ pos' = 1 /\ mpos' = 1 /\ bb' = <<>> /\ failed' = FALSE
            /\ early_done' = FALSE /\ inserted' = FALSE
            /\ UNCHANGED saved
  /\ UNCHANGED <<png, keep_sbit, base, metadata, starved>>

EarlyDue == ~early_done /\ base[pos].type \in {"PLTE", "IDAT"}

LateDueAtEveryIdat == base[pos].type = "IDAT"
LateDue == ~inserted /\ base[pos].type = "IDAT"

InjectEarly ==
  /\ pc = "copy" /\ pos <= Len(base) /\ EarlyDue
  /\ pc' = "early" /\ mpos' = 1 /\ early_done' = TRUE
  /\ UNCHANGED <<png, keep_sbit, base, metadata, saved, starved, pos, bb, failed, inserted>>

InjectLate ==
  /\ pc = "copy" /\ pos <= Len(base) /\ ~EarlyDue /\ LateDue
  /\ pc' = "late" /\ mpos' = 1 /\ inserted' = TRUE
  /\ UNCHANGED <<png, keep_sbit, base, metadata, saved, starved, pos, bb, failed, early_done>>

CopyChunk ==
  /\ \/ pc = "put"
     \/ pc = "copy" /\ pos <= Len(base) /\ ~EarlyDue /\ ~LateDue
  /\ \E oom \in OutOfMemory : Put(base[pos], oom)
  /\ pos' = pos + 1
  /\ pc' = "copy"
  /\ UNCHANGED <<png, keep_sbit, base, metadata, saved, mpos, early_done, inserted>>

\* emit_meta, for the records of one group.
MoreRecords == mpos <= Len(metadata) /\ metadata[mpos].type # "cut"

EmitRecord ==
  /\ pc \in {"early", "late"} /\ MoreRecords
  /\ IF MustPrecedePlte(metadata[mpos].type) = (pc = "early")
       THEN \E oom \in OutOfMemory : Put(metadata[mpos], oom)
       ELSE UNCHANGED <<bb, failed, starved>>
  /\ mpos' = mpos + 1
  /\ UNCHANGED <<pc, png, keep_sbit, base, metadata, saved, pos, early_done, inserted>>

\* Behind the early records the late ones may be due too; behind those comes
\* the chunk itself.
EmitDone ==
  /\ pc \in {"early", "late"} /\ ~MoreRecords
  /\ pc' = IF pc = "early" THEN "copy" ELSE "put"
  /\ UNCHANGED <<png, keep_sbit, base, metadata, saved, starved, loopVars>>

\* Without memory the file goes out without metadata.
InjectDone ==
  /\ pc = "copy" /\ pos > Len(base)
  /\ saved' = Append(saved, IF failed THEN base ELSE bb)
  /\ pc' = "saved"
  /\ UNCHANGED <<png, keep_sbit, base, metadata, starved, loopVars>>

\* pxl_load_png of what was saved: an indexed picture keeps its sBIT, and any
\* other has real alpha by now.
LoadSaved ==
  /\ pc = "saved" /\ Len(saved) = 1
  /\ png' = saved[1]
  /\ keep_sbit' = TRUE
  /\ pc' = "extract" /\ metadata' = <<>>
  /\ pos' = 1 /\ bb' = <<>> /\ failed' = FALSE
  /\ UNCHANGED <<base, saved, starved, mpos, early_done, inserted>>

Next ==
  \/ ExtractChunk \/ ExtractDone
  \/ Save \/ InjectEarly \/ InjectLate \/ CopyChunk \/ EmitRecord \/ EmitDone \/ InjectDone
  \/ LoadSaved

Spec == Init /\ [][Next]_vars

------------------------------------------------------------------------------
(* Properties                                                                *)

TypeOK ==
  /\ pc \in {"extract", "loaded", "copy", "early", "late", "put", "saved"}
  /\ png \in Seq(Chunk) /\ base \in Seq(Chunk) /\ metadata \in Seq(Chunk)
  /\ bb \in Seq(Chunk) /\ saved \in Seq(Seq(Chunk))
  /\ pos \in Nat \ {0} /\ mpos \in Nat \ {0}
  /\ failed \in BOOLEAN /\ early_done \in BOOLEAN /\ inserted \in BOOLEAN
  /\ keep_sbit \in BOOLEAN /\ starved \in BOOLEAN
  /\ inserted => early_done

\* The records that are there to be injected.
Whole(records) ==
  LET cut == { n \in DOMAIN records : records[n].type = "cut" }
  IN  SubSeq(records, 1, IF cut = {} THEN Len(records)
                         ELSE (CHOOSE n \in cut : \A m \in cut : n <= m) - 1)

Early(c) == c.type \in EarlyTypes

\* The three kinds of chunks in a file, and those of one kind in their order.
Kind(c) == IF OfBase(c) THEN "base" ELSE IF Early(c) THEN "early" ELSE "late"
OfKind(f, group) == Those(f, { n \in 1..Len(f) : Kind(f[n]) = group })

\* Behind the data there are only libpng's chunks, behind the palette none
\* about colour.
Ordered(f) ==
  \A m, n \in DOMAIN f :
    m < n => /\ f[m].type = "IDAT" => OfBase(f[n])
             /\ f[m].type = "PLTE" => ~Early(f[n])

HeaderFirst(f) == f # <<>> /\ f[1].type = "IHDR"

\* Ancillary chunks are where PNG wants them: after the header and before the
\* data, those about colour before the palette.
WellPlaced ==
  pc = "saved" => HeaderFirst(saved[Len(saved)]) /\ Ordered(saved[Len(saved)])

Injecting == pc \in {"copy", "early", "late", "put"}

\* What is to be injected is ancillary.
AncillaryOnly ==
  /\ \A n \in DOMAIN metadata : ~OfBase(metadata[n])
  /\ pc = "extract" => \A n \in DOMAIN bb : ~OfBase(bb[n])

\* What is in the buffer, and what is not there yet.
BufferPlaced ==
  Injecting =>
    /\ Ordered(bb)
    /\ (~early_done \/ pc = "early") => \A n \in DOMAIN bb : bb[n].type \notin {"PLTE", "IDAT"}
    /\ (~inserted \/ pc = "late") => \A n \in DOMAIN bb : bb[n].type # "IDAT"
    /\ pc \in {"late", "put"} => inserted
    /\ pc # "copy" => pos \in 2..Len(base)
    /\ pos = 1 => bb = <<>>
    /\ (pos > 1 /\ ~failed) => HeaderFirst(bb)

SavedPlaced == \A k \in DOMAIN saved : HeaderFirst(saved[k]) /\ Ordered(saved[k])

\* The inductive invariant behind WellPlaced.
MetaInv ==
  /\ TypeOK /\ IsBase(base)
  /\ AncillaryOnly /\ BufferPlaced /\ SavedPlaced
  /\ pc = "saved" => saved # <<>>

\* Nothing is lost or doubled: the picture is as libpng wrote it, and the
\* records of each group are in their order; or, without memory, none is there.
NothingLost ==
  pc = "saved" =>
    LET f == saved[Len(saved)]
    IN  \/ /\ OfKind(f, "base") = base
           /\ \A group \in {"early", "late"} : OfKind(f, group) = OfKind(Whole(metadata), group)
        \/ failed /\ f = base

\* A saved file that is loaded and saved again, with memory enough, stays the same.
SavingIsStable ==
  (pc = "saved" /\ Len(saved) = 2 /\ ~starved) => saved[2] = saved[1]

------------------------------------------------------------------------------
(* Why they hold                                                             *)

\* Where the first chunk of some types is.
FirstOf(f, types) ==
  CHOOSE n \in DOMAIN f : f[n].type \in types /\ \A m \in 1..(n - 1) : f[m].type \notin types

\* The first n chunks of b, with the early records before its palette or data and the
\* late ones before its data.
Injected(b, n, early, late) ==
  LET p == FirstOf(b, {"PLTE", "IDAT"})
      i == FirstOf(b, {"IDAT"})
  IN  SubSeq(b, 1, IF n < p THEN n ELSE p - 1) \o early
        \o SubSeq(b, p, IF n < i THEN n ELSE i - 1) \o late \o SubSeq(b, i, n)

\* The records that are in the buffer.
EarlyPut ==
  IF early_done THEN OfKind(IF pc = "early" THEN SubSeq(metadata, 1, mpos - 1)
                                            ELSE Whole(metadata), "early")
                ELSE <<>>
LatePut ==
  IF inserted THEN OfKind(IF pc = "late" THEN SubSeq(metadata, 1, mpos - 1)
                                         ELSE Whole(metadata), "late")
              ELSE <<>>

\* Where the chunk that is copied next stands to the palette and the data.
PlacedIn ==
  LET p == FirstOf(base, {"PLTE", "IDAT"})
      i == FirstOf(base, {"IDAT"})
  IN  /\ pos <= Len(base) + 1
      /\ IF early_done THEN pos >= p ELSE pos <= p
      /\ IF inserted THEN pos >= i ELSE pos <= i
      /\ pc = "early" => pos = p /\ early_done /\ ~inserted
      /\ pc \in {"late", "put"} => pos = i /\ inserted
      /\ pc \in {"early", "late"} => mpos <= Len(Whole(metadata)) + 1

\* What the file is made of, as far as it is written, and when it is.
Making ==
  /\ Injecting =>
       PlacedIn /\ (~failed => bb = Injected(base, pos - 1, EarlyPut, LatePut))
  /\ pc = "saved" =>
       \/ saved[Len(saved)] = Injected(base, Len(base), OfKind(Whole(metadata), "early"),
                                      OfKind(Whole(metadata), "late"))
       \/ failed /\ saved[Len(saved)] = base
  /\ failed => starved

\* The records of blocks that extraction made.
Kept(c) == ~IsDroppedType(c.type, TRUE)
BlocksExtracted == \A b \in Blocks : \A n \in DOMAIN b : Kept(b[n])

\* Nothing follows the end of a file.
EndComesLast ==
  /\ Injecting =>
       \A n \in DOMAIN bb : bb[n].type = "IEND" => n = Len(bb) /\ pos > Len(base)
  /\ \A k \in DOMAIN saved :
       \A n \in DOMAIN saved[k] : saved[k][n].type = "IEND" => n = Len(saved[k])

SameRecords(f, g) == \A group \in {"early", "late"} : OfKind(f, group) = OfKind(g, group)

\* A file that has been saved once: all its records are extracted from it.
Remade ==
  LET f == saved[1]
  IN  /\ \A n \in DOMAIN metadata : Kept(metadata[n])
      /\ pc = "extract" => \A n \in DOMAIN bb : Kept(bb[n])
      /\ (saved # <<>> /\ ~starved) =>
           /\ f = Injected(base, Len(base), OfKind(f, "early"), OfKind(f, "late"))
           /\ \A n \in DOMAIN f : OfBase(f[n]) \/ (Kept(f[n]) /\ f[n].type # "cut")
      /\ (Len(saved) = 1 /\ pc = "extract" /\ ~starved) =>
           /\ png = f /\ keep_sbit /\ pos <= Len(png) + 1
           /\ \A n \in DOMAIN bb : bb[n].type # "cut"
           /\ SameRecords(bb, SubSeq(png, 1, pos - 1))
      /\ (((Len(saved) = 1 /\ pc \notin {"extract", "saved"}) \/ Len(saved) = 2) /\ ~starved) =>
           /\ \A n \in DOMAIN metadata : metadata[n].type # "cut"
           /\ SameRecords(metadata, f)
      /\ Len(saved) <= IF pc = "saved" THEN 2 ELSE 1
==============================================================================
